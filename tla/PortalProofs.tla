---------------------------- MODULE PortalProofs ----------------------------
(***************************************************************************)
(* What holds of a visit to the access point for every route table, every  *)
(* set of users and whatever a client asks for: who gets behind a password *)
(* and what the pages and forms show, what the functions on texts make of  *)
(* any text, and what the DNS task answers to any query for a name.        *)
(***************************************************************************)
EXTENDS Portal, SequenceTheorems, FiniteSetTheorems, WellFoundedInduction, TLAPS

-----------------------------------------------------------------------------
(* Types                                                                    *)

Phase == {"resolve", "request", "routing", "answered", "unanswered"}
Client ==
  [phase : Phase, method : Method, host : HostName, url : Url,
   form : {None} \cup Seq(FormField), cred : {None} \cup Credential]
Location == {None} \cup [host : {None} \cup HostName, url : Url]

\* What an answer is: the tokens shown are looked at where it matters.
IsReply(r) == r.status \in Nat /\ r.location \in Location

TypeOK ==
  /\ start \in 0..6 /\ http \in 0..4 /\ mounted \in BOOLEAN
  /\ table \in Tables
  /\ dns \in {"none", "socket", "bound"}
  /\ client \in Client
  /\ route \in Nat /\ (client.phase = "routing" => route # 0)
  /\ IsReply(reply)
  /\ led \in [state : Nat, pin : {0, 1}]

\* A new request is for a URL, to a host, and has the client's credentials.
LEMMA ClientStep ==
  ASSUME NEW c \in Client, NEW phase \in Phase, NEW host \in HostName, NEW url \in Url
  PROVE  /\ [c EXCEPT !.phase = phase] \in Client
         /\ [c EXCEPT !.phase = phase, !.host = host, !.url = url, !.form = None,
                      !.method = "GET"] \in Client
<1>1. "GET" \in Method /\ None \in {None} \cup Seq(FormField)
  BY DEF Method
<1>2. [c EXCEPT !.phase = phase] \in Client
  BY DEF Client
<1>3. PICK get \in Method, none \in {None} \cup Seq(FormField) : get = "GET" /\ none = None
  BY <1>1
<1>4. [c EXCEPT !.phase = phase, !.host = host, !.url = url, !.form = none, !.method = get]
        \in Client
  BY DEF Client
<1> QED
  BY <1>2, <1>3, <1>4

\* How many steps the two starts have.
LEMMA StepsCounted == Len(StartSteps) = 6 /\ Len(HttpSteps) = 4
BY DEF StartSteps, HttpSteps

\* The LED is switched off by the third step of user_init_thrd.
LEMMA ThirdStep == \A n \in 1..6 : StartSteps[n] = "gpio_init" <=> n = 3
<1>1. /\ StartSteps[1] = "wifi_init" /\ StartSteps[2] = "console_init"
      /\ StartSteps[3] = "gpio_init" /\ StartSteps[4] = "captdnsInit"
      /\ StartSteps[5] = "espFsInit" /\ StartSteps[6] = "httpdInit"
  BY DEF StartSteps
<1>2. TAKE n \in 1..6
<1>3. n = 1 \/ n = 2 \/ n = 3 \/ n = 4 \/ n = 5 \/ n = 6
  OBVIOUS
<1> QED
  BY <1>1, <1>3

\* What the constructors of answers make.
LEMMA ReplyParts ==
  /\ \A s \in Nat : /\ IsReply(Page(s)) /\ Page(s).status = s /\ Page(s).location = None
                    /\ Page(s).shown = Nothing
  /\ \A f : /\ IsReply(ShowsPage(f)) /\ ShowsPage(f).status = 200
            /\ ShowsPage(f).location = None /\ ShowsPage(f).shown = f
  /\ \A host \in {None} \cup HostName, url \in Url :
       /\ IsReply(RedirectToHost(host, url)) /\ RedirectToHost(host, url).status = 302
       /\ RedirectToHost(host, url).shown = Nothing
BY DEF Page, ShowsPage, RedirectToHost, IsReply, Location

-----------------------------------------------------------------------------
(* Looking up a route                                                       *)

\* A set of numbers has a least one: that whose initial segment is minimal for inclusion.
LEMMA LeastOne ==
  ASSUME NEW S \in SUBSET Nat, S # {}
  PROVE  \E m \in S : \A j \in S : m <= j
<1> DEFINE D == {0 .. x : x \in S}
<1>1. D \subseteq FiniteSubsetsOf(Nat) /\ D # {}
  <2>1. ASSUME NEW x \in S PROVE 0 .. x \in FiniteSubsetsOf(Nat)
    <3>1. IsFiniteSet(0 .. x)
      BY <2>1, FS_Interval
    <3> QED BY <3>1 DEF FiniteSubsetsOf
  <2> QED BY <2>1
<1>2. PICK T \in D : \A U \in D : ~(<<U, T>> \in StrictSubsetOrdering(Nat))
  <2> HIDE DEF D
  <2> QED BY <1>1, FS_StrictSubsetOrderingWellFounded, WFMin, Zenon
<1>3. PICK x \in S : T = 0 .. x
  BY <1>2
<1>4. ASSUME NEW y \in S PROVE x <= y
  <2>1. SUFFICES ASSUME y < x PROVE FALSE
    OBVIOUS
  <2>2. 0 .. y \subseteq 0 .. x /\ x \in 0 .. x /\ x \notin 0 .. y
    BY <2>1
  <2>3. 0 .. y \in SUBSET Nat /\ 0 .. x \in SUBSET Nat
    OBVIOUS
  <2>4. <<0 .. y, T>> \in StrictSubsetOrdering(Nat)
    BY <1>3, <2>2, <2>3, Zenon DEF StrictSubsetOrdering
  <2> QED BY <1>2, <2>4
<1> QED
  BY <1>4

\* The route that is found matches, and none before it does.
LEMMA NextRouteIs ==
  ASSUME TypeOK, NEW i \in Nat \ {0}, NEW url
  PROVE  /\ NextRoute(i, url) \in Nat
         /\ NextRoute(i, url) <= Len(table)
              => NextRoute(i, url) \in DOMAIN table /\ Matches(table[NextRoute(i, url)], url)
         /\ \A k \in DOMAIN table :
              i <= k /\ k < NextRoute(i, url) => ~Matches(table[k], url)
<1> DEFINE found == {k \in i..Len(table) : Matches(table[k], url)}
<1>1. Len(table) \in Nat /\ DOMAIN table = 1..Len(table)
  BY TablesAssumption DEF TypeOK
<1>2. PICK n : n = NextRoute(i, url)
  OBVIOUS
<1>3. CASE found = {}
  <2>1. n = Len(table) + 1
    BY <1>2, <1>3 DEF NextRoute
  <2> QED
    BY <1>1, <1>2, <1>3, <2>1
<1>4. CASE found # {}
  <2>1. \E m \in found : \A j \in found : m <= j
    <3>1. found \in SUBSET Nat
      BY <1>1
    <3> HIDE DEF found
    <3> QED
      BY <1>4, <3>1, LeastOne
  <2>2. n = CHOOSE k \in found : \A j \in found : k <= j
    BY <1>2, <1>4 DEF NextRoute
  <2>3. n \in found /\ \A j \in found : n <= j
    <3> HIDE DEF found
    <3> QED
      BY <2>1, <2>2
  <2> QED
    BY <1>1, <1>2, <2>3
<1> QED
  BY <1>3, <1>4

-----------------------------------------------------------------------------
(* Answers                                                                  *)

Redirecting ==
  {"cgiRedirect", "cgiRedirectToHostname", "cgiLed", "cgiWiFiConnect", "cgiWiFiSetMode"}

\* A file beside a URL has a URL.
LEMMA NextToIsUrl ==
  ASSUME NEW url \in Url, NEW file \in UrlParts
  PROVE  NextTo(url, file) \in Url
<1>1. Len(url) \in Nat /\ \A k \in 1..Len(url) : url[k] \in UrlParts
  BY LenProperties, ElementOfSeq DEF Url
<1>2. SubSeq(url, 1, Len(url) - 1) \in Seq(UrlParts)
  BY <1>1, SubSeqProperties
<1> QED
  BY <1>2 DEF NextTo, Url

\* A redirect to a URL on the same host.
LEMMA RedirectParts ==
  ASSUME NEW url \in Url, NEW a, a = RedirectTo(url)
  PROVE  /\ IsReply(a) /\ a.status = 302 /\ DOMAIN a.shown = {}
<1>1. IsReply(a) /\ a.status = 302 /\ a.shown = Nothing
  BY ReplyParts DEF RedirectTo
<1> QED
  BY <1>1 DEF Nothing

\* What a page of a template shows for the LED is what the pin says.
LEMMA FilledShows ==
  ASSUME NEW tpl \in DOMAIN Tokens, NEW f \in Filled(tpl), "ledstate" \in DOMAIN f
  PROVE  tpl = "tplLed" /\ f["ledstate"] = tplLed("ledstate", led.pin)
<1>1. tpl \in {"tplCounter", "tplLed", "tplWlan"}
  BY DEF Tokens
<1>2. CASE tpl = "tplWlan"
  <2>1. DOMAIN f = Tokens[tpl]
    BY <1>2 DEF Filled
  <2> QED
    BY <1>2, <2>1 DEF Tokens
<1>3. CASE tpl = "tplCounter"
  <2>1. DOMAIN f = Tokens[tpl]
    BY <1>3 DEF Filled
  <2> QED
    BY <1>3, <2>1 DEF Tokens
<1>4. CASE tpl = "tplLed"
  <2>1. f = [token \in Tokens[tpl] |-> tplLed(token, led.pin)]
    BY <1>4 DEF Filled
  <2> QED
    BY <1>4, <2>1
<1> QED
  BY <1>1, <1>2, <1>3, <1>4

\* The status of an answer tells what kind of function gave it.
LEMMA AnswerShapes ==
  ASSUME NEW r, IsRoute(r), client.url \in Url, NEW a \in Answers(r)
  PROVE  /\ IsReply(a)
         /\ a.status = 401 <=> r.cgi = "authBasic"
         /\ a.status = 302 => r.cgi \in Redirecting
         /\ a.status = 200 => r.cgi \notin OnlyRedirect
         /\ "ledstate" \in DOMAIN a.shown
              => r.cgi = "cgiEspFsTemplate" /\ a.shown["ledstate"] = tplLed("ledstate", led.pin)
<1> USE DEF Redirecting, OnlyRedirect
<1>1. CASE r.cgi = "cgiRedirect"
  <2>1. r.arg \in Url /\ a = RedirectTo(r.arg)
    BY <1>1 DEF IsRoute, Answers
  <2> QED
    BY <1>1, <2>1, RedirectParts
<1>2. CASE r.cgi = "cgiRedirectToHostname"
  <2>1. r.arg \in HostName /\ a = RedirectToHost(r.arg, <<Slash>>)
    BY <1>2 DEF IsRoute, Answers
  <2>2. <<Slash>> \in Url
    BY UrlsAssumption DEF Slash, Url
  <2>3. IsReply(a) /\ a.status = 302 /\ a.shown = Nothing
    BY <2>1, <2>2, ReplyParts
  <2> QED
    BY <1>2, <2>3 DEF Nothing
<1>3. CASE r.cgi = "authBasic"
  <2>1. a = Page(401)
    BY <1>3 DEF Answers
  <2>2. IsReply(a) /\ a.status = 401 /\ a.shown = Nothing
    BY <2>1, ReplyParts
  <2> QED
    BY <1>3, <2>2 DEF Nothing
<1>4. CASE r.cgi = "cgiLed"
  <2>1. a = RedirectTo(NextTo(client.url, "led.tpl"))
    BY <1>4 DEF Answers
  <2>2. NextTo(client.url, "led.tpl") \in Url
    BY NextToIsUrl, UrlsAssumption
  <2> QED
    BY <1>4, <2>1, <2>2, RedirectParts
<1>5. CASE r.cgi = "cgiWiFiConnect"
  <2>1. a = RedirectTo(NextTo(client.url, "connecting.html"))
    BY <1>5 DEF Answers
  <2>2. NextTo(client.url, "connecting.html") \in Url
    BY NextToIsUrl, UrlsAssumption
  <2> QED
    BY <1>5, <2>1, <2>2, RedirectParts
<1>6. CASE r.cgi = "cgiWiFiSetMode"
  <2>1. a = RedirectTo(<<Slash, "wifi">>)
    BY <1>6 DEF Answers, SetModeAnswer
  <2>2. <<Slash, "wifi">> \in Url
    BY UrlsAssumption DEF Slash, Url
  <2> QED
    BY <1>6, <2>1, <2>2, RedirectParts
<1>7. CASE r.cgi = "cgiWiFiConnStatus"
  <2>1. PICK connected \in BOOLEAN :
          a = ShowsPage([status |-> ConnStatus(connTryStatus, connected)])
    BY <1>7 DEF Answers, StatusAnswers
  <2>2. IsReply(a) /\ a.status = 200 /\ a.shown = [status |-> ConnStatus(connTryStatus, connected)]
    BY <2>1, ReplyParts
  <2>3. "ledstate" \notin DOMAIN a.shown
    BY <2>2
  <2> QED
    BY <1>7, <2>2, <2>3
<1>8. CASE r.cgi = "cgiEspFsTemplate"
  <2>1. PICK f \in Filled(r.arg) : a = ShowsPage(f)
    BY <1>8 DEF Answers
  <2>2. IsReply(a) /\ a.status = 200 /\ a.shown = f
    BY <2>1, ReplyParts
  <2>3. r.arg \in DOMAIN Tokens
    BY <1>8 DEF IsRoute
  <2>4. "ledstate" \in DOMAIN f => f["ledstate"] = tplLed("ledstate", led.pin)
    BY <2>3, FilledShows
  <2> QED
    BY <1>8, <2>2, <2>4
<1>9. CASE r.cgi \notin Redirecting \cup {"authBasic", "cgiWiFiConnStatus", "cgiEspFsTemplate"}
  <2>1. a = Page(200)
    BY <1>9 DEF Answers
  <2>2. IsReply(a) /\ a.status = 200 /\ a.shown = Nothing
    BY <2>1, ReplyParts
  <2> QED
    BY <1>9, <2>2 DEF Nothing
<1> QED
  BY <1>1, <1>2, <1>3, <1>4, <1>5, <1>6, <1>7, <1>8, <1>9

\* Indices of routes are counted from 1.
LEMMA NextRoutePositive ==
  ASSUME TypeOK, NEW i \in Nat, NEW url
  PROVE  NextRoute(i + 1, url) \in Nat /\ NextRoute(i + 1, url) # 0
<1> DEFINE found == {k \in i + 1..Len(table) : Matches(table[k], url)}
<1>1. Len(table) \in Nat
  BY TablesAssumption DEF TypeOK
<1>2. CASE found = {}
  BY <1>1, <1>2 DEF NextRoute
<1>3. CASE found # {}
  <2>1. found \in SUBSET (Nat \ {0})
    BY <1>1
  <2>2. NextRoute(i + 1, url) = CHOOSE k \in found : \A j \in found : k <= j
    BY <1>3 DEF NextRoute
  <2>3. \E m \in found : \A j \in found : m <= j
    <3> HIDE DEF found
    <3> QED
      BY <1>3, <2>1, LeastOne
  <2> HIDE DEF found
  <2> QED
    BY <2>1, <2>2, <2>3
<1> QED
  BY <1>2, <1>3

\* The function that a route in the table names is one of those modelled.
LEMMA TheRoute ==
  ASSUME TypeOK, Routed
  PROVE  route \in DOMAIN table /\ IsRoute(table[route])
<1>1. Len(table) \in Nat /\ DOMAIN table = 1..Len(table)
      /\ \A k \in DOMAIN table : IsRoute(table[k])
  BY TablesAssumption DEF TypeOK
<1> QED
  BY <1>1 DEF Routed, TypeOK

\* What the LED is set to is a number and its level.
LEMMA LedIsSet ==
  ASSUME TypeOK, SetLed
  PROVE  \/ led' = led
         \/ led'.state \in Nat /\ led' = [state |-> led'.state, pin |-> ioLed(led'.state)]
<1>1. \A text : Atoi(text) \in Nat
  BY DEF Atoi
<1> DEFINE arg == Arg(LedName, ArgLen)
           values == CASE arg.len = -1 -> {0, 1}
                       [] arg.len = 0 -> {}
                       [] OTHER -> {Atoi(arg.text)}
<1>2. values \subseteq Nat
  BY <1>1
<1>3. led' \in IF values = {} THEN {led} ELSE {[state |-> v, pin |-> ioLed(v)] : v \in values}
  BY Zenon DEF SetLed
<1> HIDE DEF values
<1>4. CASE values = {}
  BY <1>3, <1>4
<1>5. CASE values # {}
  <2>1. PICK v \in values : led' = [state |-> v, pin |-> ioLed(v)]
    BY <1>3, <1>5
  <2> QED
    BY <1>2, <2>1
<1> QED
  BY <1>4, <1>5

\* The pin is low for any state but 0 (ioLed).
LEMMA Levels == \A n \in Nat : ioLed(n) \in {0, 1} /\ (ioLed(n) = 0 <=> n # 0)
BY DEF ioLed, LedOff

-----------------------------------------------------------------------------
(* The type invariant, and the order of the start                           *)

\* No request is looked up before the server listens, which is after all steps of the
\* start; from the third of them on the pin follows the state of the LED.
StartInv ==
  /\ start < 3 => led.state = 0
  /\ start >= 3 => led.pin = ioLed(led.state)
  /\ http > 0 => start = 6
  /\ client.phase \in {"routing", "answered", "unanswered"} => http = 4

\* The types hold at the start.
LEMMA StartType == Init => TypeOK /\ StartInv
<1> SUFFICES ASSUME Init PROVE TypeOK /\ StartInv
  OBVIOUS
<1>1. PICK v \in Visits :
        client = [phase |-> "resolve", method |-> v.method, host |-> v.host,
                  url |-> v.url, form |-> v.form, cred |-> v.cred]
  BY DEF Init
<1>2. client \in Client /\ client.phase = "resolve"
  BY <1>1, VisitsAssumption DEF Client, Phase
<1>3. PICK level \in {0, 1} : led = [state |-> 0, pin |-> level]
  BY DEF Init
<1>4. led \in [state : Nat, pin : {0, 1}] /\ led.state = 0
  BY <1>3
<1>5. IsReply(reply)
  BY ReplyParts DEF Init, NoAnswer
<1>6. /\ start = 0 /\ http = 0 /\ mounted \in BOOLEAN /\ table \in Tables /\ dns = "none"
      /\ route = 0
  BY DEF Init
<1>7. TypeOK
  BY <1>2, <1>4, <1>5, <1>6 DEF TypeOK
<1> QED
  BY <1>2, <1>4, <1>6, <1>7 DEF StartInv

\* A page that is answered; the phase is the only thing that changes about the client.
LEMMA AnsweredType ==
  ASSUME TypeOK, NEW r, IsReply(r), Answered(r)
  PROVE  /\ client' \in Client /\ client'.phase = "answered" /\ IsReply(reply')
         /\ client'.method = client.method /\ client'.host = client.host
         /\ client'.url = client.url /\ client'.form = client.form /\ client'.cred = client.cred
<1>1. client' = [client EXCEPT !.phase = "answered"] /\ reply' = r /\ client \in Client
  BY DEF Answered, TypeOK
<1> QED
  BY <1>1 DEF Client, Phase, IsReply

\* What a function does besides answering.
LEMMA RunCgiParts ==
  ASSUME TypeOK, RunCgi
  PROVE  /\ route \in DOMAIN table /\ IsRoute(table[route]) /\ ~PassesOn(table[route])
         /\ \E r \in Answers(table[route]) : IsReply(r) /\ Answered(r)
         /\ IF table[route].cgi = "cgiLed" THEN SetLed ELSE UNCHANGED led
         /\ IF table[route].cgi = "cgiWiFiConnect" THEN SetStation ELSE UNCHANGED stconf
         /\ UNCHANGED <<network, route>>
<1>1. /\ Routed /\ ~PassesOn(table[route])
      /\ \E r \in Answers(table[route]) : Answered(r)
      /\ IF table[route].cgi = "cgiLed" THEN SetLed ELSE UNCHANGED led
      /\ IF table[route].cgi = "cgiWiFiConnect" THEN SetStation ELSE UNCHANGED stconf
      /\ UNCHANGED <<network, route>>
  BY Zenon DEF RunCgi
<1>2. route \in DOMAIN table /\ IsRoute(table[route])
  BY <1>1, TheRoute
<1>3. client.url \in Url
  BY DEF TypeOK, Client
<1>4. ASSUME NEW r \in Answers(table[route]) PROVE IsReply(r)
  <2>1. IsRoute(table[route])
    BY <1>2
  <2> QED
    BY <1>3, <2>1, AnswerShapes
<1> QED
  BY <1>1, <1>2, <1>4, Zenon

\* Every step keeps the types.
LEMMA TypeStep == TypeOK /\ StartInv /\ [Next]_vars => TypeOK' /\ StartInv'
<1> SUFFICES ASSUME TypeOK, StartInv, [Next]_vars
             PROVE  TypeOK' /\ StartInv'
  OBVIOUS
<1>0. /\ start \in 0..6 /\ http \in 0..4 /\ client \in Client /\ IsReply(reply)
      /\ led \in [state : Nat, pin : {0, 1}]
      /\ Len(StartSteps) = 6 /\ Len(HttpSteps) = 4
  BY StepsCounted DEF TypeOK
<1>1. CASE StartUp
  <2>1. /\ start' \in 0..6 /\ start' = start + 1 /\ start < 6
        /\ led' = IF StartSteps[start'] = "gpio_init" THEN [led EXCEPT !.pin = LedOff] ELSE led
        /\ UNCHANGED <<http, mounted, table, dns, client, route, reply>>
    BY <1>0, <1>1 DEF StartUp
  <2>2. StartSteps[start'] = "gpio_init" <=> start' = 3
    <3>1. start' \in 1..6
      BY <1>0, <2>1
    <3> QED
      BY <3>1, ThirdStep
  <2>3. led' \in [state : Nat, pin : {0, 1}] /\ led'.state = led.state
        /\ (start' = 3 => led'.pin = 1) /\ (start' # 3 => led' = led)
    BY <1>0, <2>1, <2>2 DEF LedOff
  <2>4. TypeOK'
    BY <2>1, <2>3 DEF TypeOK, IsReply
  <2>5. StartInv'
    BY <1>0, <2>1, <2>3 DEF StartInv, ioLed, LedOff
  <2> QED
    BY <2>4, <2>5
<1>2. CASE HttpTaskStep
  <2>1. /\ http' \in 0..4 /\ http < 4
        /\ \E k \in 1..start : StartSteps[k] = "httpdInit"
        /\ UNCHANGED <<start, mounted, table, dns, client, route, reply, led>>
    BY <1>0, <1>2 DEF HttpTaskStep, Started
  <2>2. start = 6
    BY <1>0, <2>1 DEF StartSteps
  <2> QED
    BY <1>0, <2>1, <2>2 DEF TypeOK, StartInv, IsReply
<1>3. CASE CreateSocket \/ BindSocket \/ CaptdnsRecv \/ Lost \/ SendQuery
  <2>1. UNCHANGED <<web, client>> /\ dns' \in {"none", "socket", "bound"}
    BY <1>3 DEF CreateSocket, BindSocket, CaptdnsRecv, Lost, SendQuery, TypeOK
  <2> QED
    BY <2>1 DEF web, TypeOK, StartInv, IsReply
<1>4. CASE Resolved
  <2>1. UNCHANGED <<web, dns>> /\ client' = [client EXCEPT !.phase = "request"]
    BY <1>4 DEF Resolved
  <2>2. client' \in Client /\ client'.phase = "request"
    BY <1>0, <2>1 DEF Client, Phase
  <2> QED
    BY <2>1, <2>2 DEF web, TypeOK, StartInv, IsReply
<1>5. CASE Follow
  <2>1. UNCHANGED <<web, dns>> /\ reply.location # None
    BY <1>5 DEF Follow
  <2>2. PICK to \in [host : {None} \cup HostName, url : Url] : to = reply.location
    BY <1>0, <2>1 DEF IsReply, Location
  <2>3. PICK phase \in {"request", "resolve"}, host \in HostName :
          client' = [client EXCEPT !.phase = phase, !.host = host, !.url = to.url,
                                   !.form = None, !.method = "GET"]
    <3>1. client.host \in HostName
      BY <1>0 DEF Client
    <3>2. client' = [client EXCEPT !.phase = IF to.host = None THEN "request" ELSE "resolve",
                                 !.host = IF to.host = None THEN client.host ELSE to.host,
                                 !.url = to.url, !.form = None, !.method = "GET"]
      BY <1>0, <1>5, <2>2 DEF Follow, Client
    <3>3. (IF to.host = None THEN "request" ELSE "resolve") \in {"request", "resolve"}
      OBVIOUS
    <3>4. (IF to.host = None THEN client.host ELSE to.host) \in HostName
      BY <2>2, <3>1
    <3> QED
      BY <3>2, <3>3, <3>4, Zenon
  <2>4. client' \in Client /\ client'.phase \in {"request", "resolve"}
    <3>1. to.url \in Url /\ phase \in Phase
      BY DEF Phase
    <3>2. client' \in Client
      BY <1>0, <2>3, <3>1, ClientStep
    <3> QED
      BY <1>0, <2>3, <3>2 DEF Client
  <2> QED
    BY <2>1, <2>4 DEF web, TypeOK, StartInv, IsReply
<1>6. CASE Preflight \/ CgiNotFound
  <2>1. PICK n \in {200, 404} : Answered(Page(n))
    BY <1>6 DEF Preflight, CgiNotFound
  <2>2. IsReply(Page(n))
    BY ReplyParts
  <2>3. client' \in Client /\ client'.phase = "answered" /\ IsReply(reply')
    BY <2>1, <2>2, AnsweredType
  <2>4. UNCHANGED <<start, http, mounted, table, dns, route, led>> /\ http = 4
    BY <1>0, <1>6 DEF Preflight, CgiNotFound, network, Listening, StartInv
  <2> QED
    BY <2>3, <2>4 DEF TypeOK, StartInv
<1>7. CASE StartRouting
  <2>1. /\ client' = [client EXCEPT !.phase = "routing"]
        /\ route' = NextRoute(1, client.url)
        /\ UNCHANGED <<start, http, mounted, table, dns, reply, led>> /\ http = 4
    BY <1>0, <1>7 DEF StartRouting, network, Listening
  <2>2. client' \in Client
    BY <1>0, <2>1 DEF Client, Phase
  <2>3. route' \in Nat /\ route' # 0
    BY <2>1, NextRoutePositive
  <2> QED
    BY <2>1, <2>2, <2>3 DEF TypeOK, StartInv, IsReply
<1>8. CASE TryNextRoute
  <2>1. /\ route' = NextRoute(route + 1, client.url) /\ route \in Nat
        /\ UNCHANGED <<start, http, mounted, table, dns, client, reply, led>>
    BY <1>8 DEF TryNextRoute, network, TypeOK
  <2>2. route' \in Nat /\ route' # 0
    BY <2>1, NextRoutePositive
  <2> QED
    BY <2>1, <2>2 DEF TypeOK, StartInv, IsReply
<1>9. CASE RunCgi
  <2>1. /\ \E r \in Answers(table[route]) : IsReply(r) /\ Answered(r)
        /\ UNCHANGED <<start, http, mounted, table, dns, route>>
        /\ led' = led \/ SetLed
    BY <1>9, RunCgiParts DEF network
  <2>2. PICK r : IsReply(r) /\ Answered(r)
    BY <2>1
  <2>3. client' \in Client /\ client'.phase = "answered" /\ IsReply(reply')
    BY <2>2, AnsweredType
  <2>4. http = 4 /\ start = 6
    BY <1>9 DEF RunCgi, Routed, StartInv
  <2>5. led' \in [state : Nat, pin : {0, 1}] /\ led'.pin = ioLed(led'.state)
    <3>1. CASE led' = led
      BY <1>0, <2>4, <3>1 DEF StartInv
    <3>2. CASE SetLed
      <4>1. CASE led' = led
        BY <1>0, <2>4, <4>1 DEF StartInv
      <4>2. CASE led'.state \in Nat /\ led' = [state |-> led'.state, pin |-> ioLed(led'.state)]
        <5>1. PICK n \in Nat : n = led'.state /\ led' = [state |-> n, pin |-> ioLed(n)]
          BY <4>2, Zenon
        <5>2. ioLed(n) \in {0, 1}
          BY Levels
        <5> QED
          BY <5>1, <5>2
      <4> QED
        BY <3>2, <4>1, <4>2, LedIsSet
    <3> QED
      BY <2>1, <3>1, <3>2
  <2>6. TypeOK'
    BY <2>1, <2>3, <2>5 DEF TypeOK
  <2>7. StartInv'
    BY <2>1, <2>3, <2>4, <2>5 DEF StartInv
  <2> QED
    BY <2>6, <2>7
<1>10. CASE UNCHANGED vars
  BY <1>10 DEF vars, TypeOK, StartInv, IsReply
<1>11. CASE CgiNoMemory
  <2>1. /\ client' = [client EXCEPT !.phase = "unanswered"] /\ http = 4
        /\ UNCHANGED <<start, http, mounted, table, dns, route, reply, led>>
    BY <1>0, <1>11 DEF CgiNoMemory, network, Routed, StartInv
  <2>2. client' \in Client /\ client'.phase = "unanswered"
    BY <1>0, <2>1 DEF Client, Phase
  <2> QED
    BY <2>1, <2>2 DEF TypeOK, StartInv, IsReply
<1> QED
  BY <1>1, <1>2, <1>3, <1>4, <1>5, <1>6, <1>7, <1>8, <1>9, <1>10, <1>11 DEF Next, ServerStep

\* The variables of a visit keep their types, for all tables, users and visits; a reply
\* always has a place to go to or none.
THEOREM VisitTypes == Spec => []TypeOK
<1>1. TypeOK /\ StartInv /\ [Next]_vars => TypeOK' /\ StartInv'
  BY TypeStep
<1> QED
  BY <1>1, StartType, PTL DEF Spec

-----------------------------------------------------------------------------
(* Kinds of steps                                                           *)

\* What matters of a step that answers nothing and takes no request further.
Aside ==
  /\ UNCHANGED <<table, client, route, reply, stconf>>
  /\ led' = led \/ client.phase \in {"resolve", "request"}

\* The client goes on, in the place of a redirect or with the address it got, or waits for an
\* answer that does not come.
GoesOn ==
  /\ client'.phase \in {"resolve", "request", "unanswered"} /\ client'.cred = client.cred
  /\ \/ client'.form = None
     \/ client'.form = client.form /\ client'.host = client.host /\ client'.url = client.url
  /\ \/ client'.host = client.host
     \/ /\ reply.location # None /\ reply.location.host # None
        /\ client'.host = reply.location.host
  /\ UNCHANGED <<table, route, reply, led, stconf>>

\* An answer without a function: a preflight, or no route.
PlainAnswer ==
  /\ client'.phase = "answered" /\ UNCHANGED <<table, route, led, stconf>>
  /\ client'.method = client.method /\ client'.host = client.host
  /\ client'.url = client.url /\ client'.form = client.form /\ client'.cred = client.cred
  /\ reply'.location = None /\ reply'.shown = Nothing
  /\ \/ reply'.status = 404
     \/ reply'.status = 200 /\ client.method = "OPTIONS"

\* A route is looked up, from the next on.
LooksUp(next) ==
  /\ next \in Nat \ {0} /\ route' = NextRoute(next, client.url)
  /\ client'.phase = "routing" /\ client'.method = client.method /\ client'.host = client.host
  /\ client'.url = client.url /\ client'.form = client.form /\ client'.cred = client.cred
  /\ UNCHANGED <<table, reply, led, stconf>>

\* The function of a route answers.
CgiAnswers ==
  /\ client.phase = "routing" /\ route \in DOMAIN table /\ IsRoute(table[route])
  /\ route <= Len(table) /\ ~PassesOn(table[route])
  /\ client'.phase = "answered" /\ reply' \in Answers(table[route])
  /\ client'.method = client.method /\ client'.host = client.host
  /\ client'.url = client.url /\ client'.form = client.form /\ client'.cred = client.cred
  /\ UNCHANGED <<table, route>>
  /\ IF table[route].cgi = "cgiLed" THEN SetLed ELSE UNCHANGED led
  /\ IF table[route].cgi = "cgiWiFiConnect" THEN SetStation ELSE UNCHANGED stconf

\* What a step does to a visit: nothing, it looks up a route, or it answers.
LEMMA StepKinds ==
  ASSUME TypeOK, StartInv, [Next]_vars
  PROVE  \/ Aside
         \/ GoesOn
         \/ PlainAnswer
         \/ client.phase = "request" /\ LooksUp(1)
         \/ /\ Routed /\ LooksUp(route + 1)
            /\ PassesOn(table[route]) \/ table[route].cgi \in {"cgiEspFsHook", "cgiEspFsTemplate"}
         \/ CgiAnswers
<1>0. start \in 0..6 /\ http \in 0..4 /\ client \in Client /\ Len(StartSteps) = 6
      /\ route \in Nat /\ Len(HttpSteps) = 4
  BY StepsCounted DEF TypeOK
<1>1. CASE StartUp
  <2>1. start < 6 /\ UNCHANGED <<table, client, route, reply, stconf>>
    BY <1>0, <1>1 DEF StartUp
  <2>2. client.phase \in {"resolve", "request"}
    BY <1>0, <2>1 DEF StartInv, Client, Phase
  <2> QED
    BY <2>1, <2>2 DEF Aside
<1>2. CASE HttpTaskStep
  BY <1>2 DEF HttpTaskStep, Aside
<1>3. CASE CreateSocket \/ BindSocket \/ CaptdnsRecv \/ Lost \/ SendQuery
  BY <1>3 DEF CreateSocket, BindSocket, CaptdnsRecv, Lost, SendQuery, Aside, web
<1>4. CASE Resolved
  <2>1. client' = [client EXCEPT !.phase = "request"] /\ UNCHANGED web
    BY <1>4 DEF Resolved
  <2> QED
    BY <1>0, <2>1 DEF GoesOn, web, Client
<1>5. CASE Follow
  <2>1. UNCHANGED web
    BY <1>5 DEF Follow
  <2>2. /\ client'.phase \in {"resolve", "request"} /\ client'.cred = client.cred
        /\ client'.form = None
    BY <1>0, <1>5 DEF Follow, Client
  <2>3. /\ reply.location # None
        /\ client'.host = IF reply.location.host = None THEN client.host ELSE reply.location.host
    BY <1>0, <1>5 DEF Follow, Client
  <2> QED
    BY <2>1, <2>2, <2>3 DEF GoesOn, web
<1>6. CASE Preflight \/ CgiNotFound
  <2>1. PICK n \in {200, 404} :
          Answered(Page(n)) /\ (n = 200 => client.method = "OPTIONS")
    BY <1>6 DEF Preflight, CgiNotFound
  <2>2. /\ reply'.status = n /\ reply'.location = None /\ reply'.shown = Nothing
    BY <2>1, ReplyParts DEF Answered
  <2>3. client' = [client EXCEPT !.phase = "answered"]
    BY <2>1 DEF Answered
  <2>4. UNCHANGED <<table, route, led, stconf>>
    BY <1>6 DEF Preflight, CgiNotFound, network
  <2> QED
    BY <1>0, <2>1, <2>2, <2>3, <2>4 DEF PlainAnswer, Client
<1>7. CASE StartRouting
  <2>1. /\ client' = [client EXCEPT !.phase = "routing"] /\ client.phase = "request"
        /\ route' = NextRoute(1, client.url)
        /\ UNCHANGED <<table, reply, led, stconf>>
    BY <1>7 DEF StartRouting, network
  <2> QED
    BY <1>0, <2>1 DEF LooksUp, Client
<1>8. CASE TryNextRoute
  <2>1. /\ Routed /\ route' = NextRoute(route + 1, client.url)
        /\ PassesOn(table[route]) \/ table[route].cgi \in {"cgiEspFsHook", "cgiEspFsTemplate"}
        /\ UNCHANGED <<table, client, reply, led, stconf>>
    BY <1>8 DEF TryNextRoute, network
  <2>2. LooksUp(route + 1)
    BY <1>0, <2>1 DEF LooksUp, Routed
  <2> QED
    BY <2>1, <2>2
<1>9. CASE RunCgi
  <2>1. /\ route \in DOMAIN table /\ IsRoute(table[route]) /\ ~PassesOn(table[route])
        /\ UNCHANGED <<table, route>>
        /\ IF table[route].cgi = "cgiLed" THEN SetLed ELSE UNCHANGED led
        /\ IF table[route].cgi = "cgiWiFiConnect" THEN SetStation ELSE UNCHANGED stconf
    BY <1>9, RunCgiParts DEF network
  <2>2. PICK r \in Answers(table[route]) : IsReply(r) /\ Answered(r)
    BY <1>9, RunCgiParts
  <2>3. client' = [client EXCEPT !.phase = "answered"] /\ reply' \in Answers(table[route])
    BY <2>2 DEF Answered
  <2>4. /\ client'.phase = "answered"
        /\ client'.method = client.method /\ client'.host = client.host
        /\ client'.url = client.url /\ client'.form = client.form /\ client'.cred = client.cred
    BY <1>0, <2>3 DEF Client
  <2>5. client.phase = "routing" /\ route <= Len(table)
    BY <1>9 DEF RunCgi, Routed
  <2> QED
    BY <2>1, <2>3, <2>4, <2>5 DEF CgiAnswers
<1>10. CASE UNCHANGED vars
  BY <1>10 DEF vars, Aside
<1>11. CASE CgiNoMemory
  <2>1. /\ client' = [client EXCEPT !.phase = "unanswered"]
        /\ UNCHANGED <<table, route, reply, led, stconf>>
    BY <1>11 DEF CgiNoMemory, network
  <2> QED
    BY <1>0, <2>1 DEF GoesOn, Client
<1> QED
  BY <1>1, <1>2, <1>3, <1>4, <1>5, <1>6, <1>7, <1>8, <1>9, <1>10, <1>11 DEF Next, ServerStep

-----------------------------------------------------------------------------
(* The page of the LED                                                      *)

\* The state that is shown cannot change any more while the page is.
LEMMA LedStep ==
  TypeOK /\ StartInv /\ LedPageShows /\ [Next]_vars => LedPageShows'
<1> SUFFICES ASSUME TypeOK, StartInv, LedPageShows, [Next]_vars,
                    client'.phase = "answered", "ledstate" \in DOMAIN reply'.shown
             PROVE  reply'.shown["ledstate"] = IF led'.state # 0 THEN "on" ELSE "off"
  BY DEF LedPageShows
<1>1. CASE Aside
  BY <1>1 DEF Aside, LedPageShows
<1>2. CASE PlainAnswer
  BY <1>2 DEF PlainAnswer, Nothing
<1>3. CASE CgiAnswers
  <2>1. client.url \in Url /\ IsRoute(table[route]) /\ reply' \in Answers(table[route])
    BY <1>3 DEF CgiAnswers, TypeOK, Client
  <2>2. IsRoute(table[route])
    BY <2>1
  <2>3. table[route].cgi = "cgiEspFsTemplate"
        /\ reply'.shown["ledstate"] = tplLed("ledstate", led.pin)
    BY <2>1, <2>2, AnswerShapes
  <2>4. led' = led /\ led.pin = ioLed(led.state) /\ led.state \in Nat
    BY <1>3, <2>3 DEF CgiAnswers, StartInv, TypeOK
  <2>5. led.pin = 0 <=> led.state # 0
    BY <2>4, Levels
  <2> QED
    BY <2>3, <2>4, <2>5 DEF tplLed
<1>4. GoesOn \/ LooksUp(1) \/ LooksUp(route + 1) => FALSE
  BY DEF GoesOn, LooksUp
<1> QED
  BY <1>1, <1>2, <1>3, <1>4, StepKinds

\* A page of the LED that a client was answered with shows the state that was last set, off
\* after the start, for every table and whatever was set before: the page asks the pin, which
\* the start and cgiLed keep in step with the state (tplLed, ioLed, cgiLed, user_start).
THEOREM LedPageIsRight == Spec => []LedPageShows
<1>1. Init => LedPageShows
  BY DEF Init, LedPageShows
<1>2. TypeOK /\ StartInv /\ [Next]_vars => TypeOK' /\ StartInv'
  BY TypeStep
<1>3. TypeOK /\ StartInv /\ LedPageShows /\ [Next]_vars => LedPageShows'
  BY LedStep
<1> QED
  BY <1>1, <1>2, <1>3, StartType, PTL DEF Spec

-----------------------------------------------------------------------------
(* base64                                                                   *)

\* What holds at the start of a loop and is kept by each pass holds all along. T is the set
\* of the passes after which it holds.
LEMMA AllPasses ==
  ASSUME NEW N \in Nat, NEW T, 0 \in T, \A n \in 1..N : n - 1 \in T => n \in T
  PROVE  \A n \in 0..N : n \in T
<1> DEFINE S == {n \in 0..N : n \notin T}
<1>1. SUFFICES ASSUME S # {} PROVE FALSE
  OBVIOUS
<1>2. PICK m \in S : \A j \in S : m <= j
  <2>1. S \in SUBSET Nat
    OBVIOUS
  <2> HIDE DEF S
  <2> QED BY <1>1, <2>1, LeastOne
<1>3. m \in 1..N /\ m - 1 \in 0..N /\ ~(m <= m - 1)
  BY <1>2
<1>4. m - 1 \in T
  BY <1>2, <1>3
<1> QED
  BY <1>2, <1>3, <1>4

Unfolds(f, step, s0, text) ==
  f = [n \in 0..Len(text) |-> IF n = 0 THEN s0 ELSE step[text[n]][f[n - 1]]]

\* A loop has the states that its definition names, one after each pass.
LEMMA LoopRuns ==
  ASSUME NEW step, NEW s0, NEW text, Len(text) \in Nat
  PROVE  \E f : /\ f[0] = s0
                /\ \A n \in 1..Len(text) : f[n] = step[text[n]][f[n - 1]]
                /\ Loop(step, s0, text) = f[Len(text)]
<1> DEFINE N == Len(text)
           T == {m \in 0..N : \E f : f = [n \in 0..m |-> IF n = 0 THEN s0 ELSE step[text[n]][f[n - 1]]]}
<1>1. 0 \in T
  <2> DEFINE f == [n \in 0..0 |-> s0]
  <2>1. f = [n \in 0..0 |-> IF n = 0 THEN s0 ELSE step[text[n]][f[n - 1]]]
    OBVIOUS
  <2>2. 0 \in 0..N
    OBVIOUS
  <2> HIDE DEF f
  <2> QED BY <2>1, <2>2
<1>2. ASSUME NEW m \in 1..N, m - 1 \in T PROVE m \in T
  <2>1. PICK g : g = [n \in 0..m - 1 |-> IF n = 0 THEN s0 ELSE step[text[n]][g[n - 1]]]
    BY <1>2
  <2> DEFINE f == [n \in 0..m |-> IF n = m THEN step[text[n]][g[m - 1]] ELSE g[n]]
  <2>2. ASSUME NEW n \in 0..m PROVE f[n] = IF n = 0 THEN s0 ELSE step[text[n]][f[n - 1]]
    <3>1. CASE n = m
      <4>1. f[n] = step[text[n]][g[m - 1]]
        BY <3>1
      <4>2. f[n - 1] = g[m - 1]
        BY <3>1
      <4> QED BY <3>1, <4>1, <4>2
    <3>2. CASE n # m
      <4>1. f[n] = g[n] /\ n \in 0..m - 1
        BY <3>2
      <4>2. n # 0 => f[n - 1] = g[n - 1]
        BY <3>2
      <4> QED BY <2>1, <4>1, <4>2
    <3> QED BY <3>1, <3>2
  <2>3. f = [n \in 0..m |-> IF n = 0 THEN s0 ELSE step[text[n]][f[n - 1]]]
    BY <2>2
  <2>4. m \in 0..N
    OBVIOUS
  <2> HIDE DEF f
  <2> QED BY <2>3, <2>4
<1>3. \E f : Unfolds(f, step, s0, text)
  <2>1. N \in T
    <3>1. N \in Nat /\ N \in 0..N
      OBVIOUS
    <3>2. \A m \in 1..N : m - 1 \in T => m \in T
      BY <1>2
    <3> HIDE DEF T, N
    <3> QED BY <1>1, <3>1, <3>2, AllPasses
  <2> QED BY <2>1 DEF Unfolds
<1> DEFINE state[n \in 0..Len(text)] == IF n = 0 THEN s0 ELSE step[text[n]][state[n - 1]]
<1>4. Loop(step, s0, text) = state[Len(text)]
  BY DEF Loop
<1>5. state = CHOOSE f : Unfolds(f, step, s0, text)
  BY DEF Unfolds
<1>6. Unfolds(state, step, s0, text)
  <2> HIDE DEF state
  <2> QED BY <1>3, <1>5, Zenon
<1> HIDE DEF state
<1>7. /\ state[0] = s0
      /\ \A n \in 1..Len(text) : state[n] = step[text[n]][state[n - 1]]
  <2>1. PICK g : g = [n \in 0..Len(text) |-> IF n = 0 THEN s0 ELSE step[text[n]][state[n - 1]]]
    OBVIOUS
  <2>2. state = g
    BY <1>6, <2>1, Zenon DEF Unfolds
  <2>3. /\ g[0] = s0
        /\ \A n \in 1..Len(text) : g[n] = step[text[n]][state[n - 1]]
    BY <2>1
  <2> QED BY <2>2, <2>3, Zenon
<1> QED BY <1>4, <1>7

Base64Chars == (33..126) \ {EqualsSign}

\* A character of base64 is none that ends the text or is skipped, and stands for one value.
LEMMA Sextets ==
  \A x \in 0..63 : /\ EncTab(x) \in Base64Chars
                   /\ EncTab(x) \in Byte
                   /\ DecTab(EncTab(x)) = x
                   /\ EncTab(x) \notin {9, 10, 11, 12, 13, Space}
<1>1. ASSUME NEW x \in 0..63 PROVE EncTab(x) \in 33..126 /\ EncTab(x) # 61
  BY DEF EncTab
<1>2. ASSUME NEW x \in 0..63, NEW y \in 0..63, EncTab(x) = EncTab(y) PROVE x = y
  BY <1>2 DEF EncTab
<1>3. ASSUME NEW x \in 0..63 PROVE DecTab(EncTab(x)) = x
  <2> DEFINE P(n) == n \in 0..63 /\ EncTab(n) = EncTab(x)
  <2>1. P(x)
    OBVIOUS
  <2>2. \A n : P(n) => n = x
    BY <1>2
  <2> QED BY <2>1, <2>2 DEF DecTab
<1>4. \A c \in 33..126 : c # 61 =>
        c \in Base64Chars /\ c \in Byte /\ c \notin {9, 10, 11, 12, 13, Space}
  BY DEF Base64Chars, EqualsSign, Byte, Space
<1> QED
  <2>1. TAKE x \in 0..63
  <2>2. PICK c \in 33..126 : c = EncTab(x) /\ c # 61
    BY <1>1, Zenon
  <2>3. c \in Base64Chars /\ c \in Byte /\ c \notin {9, 10, 11, 12, 13, Space}
    BY <1>4, <2>2, Zenon
  <2>4. DecTab(EncTab(x)) = x
    BY <1>3
  <2> QED BY <2>2, <2>3, <2>4, Zenon

\* The parts of a byte.
LEMMA BytesHalve ==
  \A b \in 0..255 : /\ b % 4 \in 0..3 /\ b % 16 \in 0..15 /\ b % 64 \in 0..63
                    /\ b % 4 \in 0..15 /\ b \div 4 \in 0..63
                    /\ \A v \in 0..3 : v * 16 + b \div 16 \in 0..63
                    /\ \A v \in 0..15 : v * 4 + b \div 64 \in 0..63
<1>1. ASSUME NEW b \in 0..255
      PROVE  b % 4 \in 0..3 /\ b % 16 \in 0..15 /\ b % 64 \in 0..63
  OBVIOUS
<1>2. ASSUME NEW b \in 0..255 PROVE b % 4 \in 0..15 /\ b \div 4 \in 0..63
  OBVIOUS
<1>3. ASSUME NEW b \in 0..255, NEW v \in 0..3 PROVE v * 16 + b \div 16 \in 0..63
  OBVIOUS
<1>4. ASSUME NEW b \in 0..255, NEW v \in 0..15 PROVE v * 4 + b \div 64 \in 0..63
  OBVIOUS
<1> QED BY <1>1, <1>2, <1>3, <1>4, Zenon

\* The states of the encoder after n bytes of text: the last bits of byte n are left.
EncoderAt(s, n, text) ==
  /\ s \in EncoderState /\ s.out \in Seq(Base64Chars)
  /\ 6 * Len(s.out) + s.rem = 8 * n
  /\ s.rem = 0 => s.v = 0
  /\ s.rem = 2 => n > 0 /\ s.v = text[n] % 4
  /\ s.rem = 4 => n > 0 /\ s.v = text[n] % 16

\* What the encoder is after the byte b, by the number of bits it had left over.
CodedAs(t, s, b) ==
  /\ s.rem = 0 => t = [v |-> b % 4, rem |-> 2, out |-> Append(s.out, EncTab(b \div 4))]
  /\ s.rem = 2 => t = [v |-> b % 16, rem |-> 4, out |-> Append(s.out, EncTab(s.v * 16 + b \div 16))]
  /\ s.rem = 4 =>
       t = [v |-> 0, rem |-> 0,
            out |-> Append(Append(s.out, EncTab(s.v * 4 + b \div 64)), EncTab(b % 64))]

\* What the encoder does with one byte, by how many bits are left over from the last.
LEMMA EncodeByteIs ==
  ASSUME NEW s \in EncoderState, NEW b \in Byte,
         s.rem = 0 => s.v = 0, s.rem = 2 => s.v \in 0..3
  PROVE  CodedAs(EncodeByte(s, b), s, b)
<1> DEFINE v == s.v * 256 + b
<1>1. s.v \in 0..15 /\ s.rem \in {0, 2, 4} /\ b \in 0..255
  BY DEF EncoderState, Byte
<1>2. CASE s.rem = 0
  <2>1. v % 4 = b % 4 /\ v \div 4 = b \div 4
    BY <1>1, <1>2
  <2>2. Power(s.rem + 2) = 4 /\ s.rem < 4 /\ s.rem + 2 = 2
    BY <1>2 DEF Power
  <2>3. s.rem # 2 /\ s.rem # 4
    BY <1>2
  <2>4. EncodeByte(s, b) = [v |-> b % 4, rem |-> 2, out |-> Append(s.out, EncTab(b \div 4))]
    BY <2>1, <2>2, ZenonT(60) DEF EncodeByte
  <2> QED BY <2>3, <2>4, Zenon DEF CodedAs
<1>3. CASE s.rem = 2
  <2>1. v % 16 = b % 16 /\ v \div 16 = s.v * 16 + b \div 16
    BY <1>1
  <2>2. Power(s.rem + 2) = 16 /\ s.rem < 4 /\ s.rem + 2 = 4
    BY <1>3 DEF Power
  <2>3. s.rem # 0 /\ s.rem # 4
    BY <1>3
  <2>4. EncodeByte(s, b) = [v |-> b % 16, rem |-> 4, out |-> Append(s.out, EncTab(s.v * 16 + b \div 16))]
    BY <2>1, <2>2, ZenonT(60) DEF EncodeByte
  <2> QED BY <2>3, <2>4, Zenon DEF CodedAs
<1>4. CASE s.rem = 4
  <2>1. v % 64 = b % 64 /\ v \div 64 = s.v * 4 + b \div 64
    BY <1>1
  <2>2. Power(s.rem + 2) = 64 /\ ~(s.rem < 4)
    BY <1>4 DEF Power
  <2>3. s.rem # 0 /\ s.rem # 2
    BY <1>4
  <2>4. EncodeByte(s, b) =
          [v |-> 0, rem |-> 0,
           out |-> Append(Append(s.out, EncTab(s.v * 4 + b \div 64)), EncTab(b % 64))]
    BY <2>1, <2>2, ZenonT(60) DEF EncodeByte
  <2> QED BY <2>3, <2>4, Zenon DEF CodedAs
<1> QED BY <1>1, <1>2, <1>3, <1>4

\* What one byte adds to the code.
LEMMA EncodeStep ==
  ASSUME NEW text \in Seq(Byte), NEW n \in 1..Len(text), NEW s, EncoderAt(s, n - 1, text)
  PROVE  EncoderAt(EncodeByte(s, text[n]), n, text)
<1>1. PICK b \in 0..255 : b = text[n] /\ n \in Nat /\ n > 0
  <2>1. text[n] \in Byte
    BY ElementOfSeq, LenProperties
  <2> QED BY <2>1, LenProperties DEF Byte
<1> DEFINE t == EncodeByte(s, b)
<1>11. \A l \in Nat, m \in Nat, k \in Nat : 6 * l + 2 = 8 * (k - 1) /\ m = l + 1 => 6 * m + 4 = 8 * k
  OBVIOUS
<1>2. /\ s \in EncoderState /\ s.out \in Seq(Base64Chars) /\ s.v \in 0..15 /\ s.rem \in {0, 2, 4}
      /\ Len(s.out) \in Nat /\ 6 * Len(s.out) + s.rem = 8 * (n - 1)
      /\ s.out \in Seq(Byte)
  BY LenProperties DEF EncoderAt, EncoderState
<1>3. (s.rem = 0 => s.v = 0) /\ (s.rem = 2 => s.v \in 0..3)
  <2>1. CASE s.rem = 2
    <3>1. n - 1 \in 1..Len(text) /\ s.v = text[n - 1] % 4
      BY <1>1, <2>1, LenProperties DEF EncoderAt
    <3>2. text[n - 1] \in 0..255
      BY <3>1, ElementOfSeq DEF Byte
    <3>3. s.v \in 0..3
      BY <3>1, <3>2, BytesHalve, ZenonT(60)
    <3> QED BY <2>1, <3>3
  <2> QED BY <2>1 DEF EncoderAt
<1>4. \A x \in 0..63 : /\ Append(s.out, EncTab(x)) \in Seq(Base64Chars)
                       /\ Append(s.out, EncTab(x)) \in Seq(Byte)
                       /\ Len(Append(s.out, EncTab(x))) = Len(s.out) + 1
  <2>1. TAKE x \in 0..63
  <2>2. EncTab(x) \in Base64Chars /\ EncTab(x) \in Byte
    BY Sextets
  <2> QED BY <1>2, <2>2, AppendProperties
<1>12. CodedAs(t, s, b)
  <2>1. b \in Byte
    BY DEF Byte
  <2>2. CodedAs(EncodeByte(s, b), s, b)
    BY <1>2, <1>3, <2>1, EncodeByteIs
  <2> QED BY <2>2
<1>5. CASE s.rem = 0
  <2>1. t = [v |-> b % 4, rem |-> 2, out |-> Append(s.out, EncTab(b \div 4))]
    BY <1>12, <1>5, Zenon DEF CodedAs
  <2>2. b \div 4 \in 0..63 /\ b % 4 \in 0..15
    BY BytesHalve, Zenon
  <2>3. PICK w \in 0..15, o \in Seq(Base64Chars) :
          w = b % 4 /\ o = Append(s.out, EncTab(b \div 4)) /\ o \in Seq(Byte) /\ Len(o) = Len(s.out) + 1
    BY <1>4, <2>2, Zenon
  <2>4. 6 * Len(o) + 2 = 8 * n
    <3>1. 6 * Len(s.out) + 0 = 8 * (n - 1)
      BY <1>2, <1>5, Zenon
    <3>2. Len(o) \in Nat /\ Len(s.out) \in Nat /\ n \in Nat
      BY <1>1, <1>2, <2>3, LenProperties
    <3>3. Len(o) = Len(s.out) + 1
      BY <2>3
    <3> QED BY <3>1, <3>2, <3>3
  <2>5. EncoderAt([v |-> w, rem |-> 2, out |-> o], n, text)
    <3> DEFINE e == [v |-> w, rem |-> 2, out |-> o]
    <3>1. e \in EncoderState /\ e.v = w /\ e.rem = 2 /\ e.out = o
      BY <2>3, <2>4 DEF EncoderState
    <3> HIDE DEF e
    <3>2. EncoderAt(e, n, text)
      BY <1>1, <2>3, <2>4, <3>1 DEF EncoderAt
    <3> QED BY <3>2 DEF e
  <2> QED BY <1>1, <2>1, <2>3, <2>5, Zenon
<1>6. CASE s.rem = 2
  <2>1. t = [v |-> b % 16, rem |-> 4, out |-> Append(s.out, EncTab(s.v * 16 + b \div 16))]
    BY <1>12, <1>6, Zenon DEF CodedAs
  <2>2. s.v * 16 + b \div 16 \in 0..63 /\ b % 16 \in 0..15
    <3> QED BY <1>3, <1>6, BytesHalve, Zenon
  <2>3. PICK w \in 0..15, o \in Seq(Base64Chars) :
          w = b % 16 /\ o = Append(s.out, EncTab(s.v * 16 + b \div 16)) /\ o \in Seq(Byte) /\ Len(o) = Len(s.out) + 1
    BY <1>4, <2>2, Zenon
  <2>4. 6 * Len(o) + 4 = 8 * n
    <3>1. 6 * Len(s.out) + 2 = 8 * (n - 1)
      BY <1>2, <1>6, Zenon
    <3>2. Len(o) \in Nat /\ Len(s.out) \in Nat /\ n \in Nat
      BY <1>1, <1>2, <2>3, LenProperties
    <3>3. Len(o) = Len(s.out) + 1
      BY <2>3
    <3> QED BY <1>11, <3>1, <3>2, <3>3, ZenonT(60)
  <2>5. EncoderAt([v |-> w, rem |-> 4, out |-> o], n, text)
    <3> DEFINE e == [v |-> w, rem |-> 4, out |-> o]
    <3>1. e \in EncoderState /\ e.v = w /\ e.rem = 4 /\ e.out = o
      BY <2>3, <2>4 DEF EncoderState
    <3> HIDE DEF e
    <3>2. EncoderAt(e, n, text)
      BY <1>1, <2>3, <2>4, <3>1 DEF EncoderAt
    <3> QED BY <3>2 DEF e
  <2> QED BY <1>1, <2>1, <2>3, <2>5, Zenon
<1>7. CASE s.rem = 4
  <2>1. t = [v |-> 0, rem |-> 0,
             out |-> Append(Append(s.out, EncTab(s.v * 4 + b \div 64)), EncTab(b % 64))]
    BY <1>12, <1>7, Zenon DEF CodedAs
  <2>2. s.v * 4 + b \div 64 \in 0..63 /\ b % 64 \in 0..63
    BY <1>2, BytesHalve, Zenon
  <2>3. PICK o : o = Append(s.out, EncTab(s.v * 4 + b \div 64))
    OBVIOUS
  <2>4. o \in Seq(Base64Chars) /\ o \in Seq(Byte) /\ Len(o) = Len(s.out) + 1
    BY <1>4, <2>2, <2>3
  <2>5. /\ Append(o, EncTab(b % 64)) \in Seq(Base64Chars) /\ Append(o, EncTab(b % 64)) \in Seq(Byte)
        /\ Len(Append(o, EncTab(b % 64))) = Len(o) + 1
    <3>1. EncTab(b % 64) \in Base64Chars /\ EncTab(b % 64) \in Byte
      BY <2>2, Sextets
    <3> QED BY <2>4, <3>1, AppendProperties
  <2>6. t = [v |-> 0, rem |-> 0, out |-> Append(o, EncTab(b % 64))]
    BY <2>1, <2>3
  <2>7. PICK p \in Seq(Base64Chars) :
          p = Append(o, EncTab(b % 64)) /\ p \in Seq(Byte) /\ Len(p) = Len(s.out) + 2
    <3>1. Len(s.out) \in Nat
      BY <1>2
    <3>2. Len(Append(o, EncTab(b % 64))) = Len(s.out) + 2
      BY <2>4, <2>5, <3>1
    <3> QED BY <2>5, <3>2, Zenon
  <2>8. 6 * Len(p) + 0 = 8 * n
    <3>1. 6 * Len(s.out) + 4 = 8 * (n - 1)
      BY <1>2, <1>7, Zenon
    <3>2. Len(p) \in Nat /\ Len(s.out) \in Nat /\ n \in Nat
      BY <1>1, <1>2, <2>7, LenProperties
    <3>3. Len(p) = Len(s.out) + 2
      BY <2>7
    <3> QED BY <3>1, <3>2, <3>3
  <2>9. EncoderAt([v |-> 0, rem |-> 0, out |-> p], n, text)
    <3> DEFINE e == [v |-> 0, rem |-> 0, out |-> p]
    <3>1. e \in EncoderState /\ e.v = 0 /\ e.rem = 0 /\ e.out = p
      BY <2>7, <2>8 DEF EncoderState
    <3> HIDE DEF e
    <3>2. EncoderAt(e, n, text)
      BY <1>1, <2>7, <2>8, <3>1 DEF EncoderAt
    <3> QED BY <3>2 DEF e
  <2> QED BY <1>1, <2>6, <2>7, <2>9, Zenon
<1> QED BY <1>2, <1>5, <1>6, <1>7

\* Decoding one character.
DecoderIs(s, v, rem, out) ==
  s \in DecoderState /\ s.v = v /\ s.rem = rem /\ s.out = out /\ ~s.stop /\ ~s.fail
DecoderFailed(s) == s \in DecoderState /\ s.stop /\ s.fail

DecodesTo(t, s, v, rem, out, x, room) ==
  t = IF rem = 0 THEN [s EXCEPT !.v = v * 64 + x, !.rem = 6]
      ELSE IF Len(out) >= room THEN [s EXCEPT !.stop = TRUE, !.fail = TRUE]
      ELSE [s EXCEPT !.v = (v * 64 + x) % Power(rem - 2), !.rem = rem - 2,
                     !.out = Append(out, (v * 64 + x) \div Power(rem - 2))]

\* What base64_decode does with one character.
LEMMA DecodeCases ==
  ASSUME NEW x \in 0..63, NEW v, NEW out, NEW room, NEW rem, NEW s, DecoderIs(s, v, rem, out)
  PROVE  DecodesTo(DecodeSextet(s, EncTab(x), room), s, v, rem, out, x, room)
<1>1. /\ DecTab(EncTab(x)) = x /\ EncTab(x) \notin {9, 10, 11, 12, 13, Space}
      /\ EncTab(x) # EqualsSign /\ x # 255
  <2>1. DecTab(EncTab(x)) = x /\ EncTab(x) \notin {9, 10, 11, 12, 13, Space} /\ EncTab(x) \in Base64Chars
    BY Sextets
  <2>2. \A c \in Base64Chars : c # EqualsSign
    BY DEF Base64Chars
  <2>3. x # 255
    OBVIOUS
  <2> QED BY <2>1, <2>2, <2>3, Zenon
<1>2. s \in DecoderState /\ s.v = v /\ s.rem = rem /\ s.out = out /\ ~s.stop /\ ~s.fail
  BY DEF DecoderIs
<1> QED BY <1>1, <1>2, Zenon DEF DecodeSextet, DecodesTo

\* Where there is no room for the byte it fails.
LEMMA DecodeFails ==
  ASSUME NEW x \in 0..63, NEW v, NEW out, NEW room, NEW rem, NEW s, DecoderIs(s, v, rem, out),
         rem # 0, Len(out) >= room
  PROVE  DecoderFailed(DecodeSextet(s, EncTab(x), room))
<1>3. DecodesTo(DecodeSextet(s, EncTab(x), room), s, v, rem, out, x, room)
  BY DecodeCases, Zenon
<1>4. rem # 0 /\ Len(out) >= room
  OBVIOUS
<1>1. DecodeSextet(s, EncTab(x), room) = [s EXCEPT !.stop = TRUE, !.fail = TRUE]
  BY <1>3, <1>4, Zenon DEF DecodesTo
<1>2. DecoderFailed([s EXCEPT !.stop = TRUE, !.fail = TRUE])
  BY DEF DecoderIs, DecoderFailed, DecoderState
<1> QED BY <1>1, <1>2

\* The same, with the numbers as the proofs below need them.
LEMMA DecodeStep ==
  ASSUME NEW x \in 0..63, NEW v \in 0..63, NEW out \in Seq(Byte), NEW room,
         NEW rem, NEW s, DecoderIs(s, v, rem, out)
  PROVE  /\ v = 0 /\ rem = 0 => DecoderIs(DecodeSextet(s, EncTab(x), room), x, 6, out)
         /\ ~(Len(out) >= room) =>
              \A w, b, unit : /\ rem # 0 /\ unit = Power(rem - 2)
                              /\ w \in 0..63 /\ w = (v * 64 + x) % unit
                              /\ b \in Byte /\ b = (v * 64 + x) \div unit
                   => DecoderIs(DecodeSextet(s, EncTab(x), room), w, rem - 2, Append(out, b))
<1>2. s \in DecoderState /\ s.v = v /\ s.rem = rem /\ s.out = out /\ ~s.stop /\ ~s.fail
  BY DEF DecoderIs
<1>3. DecodesTo(DecodeSextet(s, EncTab(x), room), s, v, rem, out, x, room)
  BY DecodeCases, Zenon
<1>4. ASSUME v = 0, rem = 0 PROVE DecoderIs([s EXCEPT !.v = v * 64 + x, !.rem = 6], x, 6, out)
  <2>1. v * 64 + x = x
    BY <1>4
  <2>2. [s EXCEPT !.v = x, !.rem = 6] \in DecoderState
    BY <1>2 DEF DecoderState
  <2>3. DecoderIs([s EXCEPT !.v = x, !.rem = 6], x, 6, out)
    BY <1>2, <2>2 DEF DecoderState, DecoderIs
  <2> QED BY <2>1, <2>3
<1>6. ASSUME NEW w \in 0..63, NEW b \in Byte, rem # 0
      PROVE  DecoderIs([s EXCEPT !.v = w, !.rem = rem - 2, !.out = Append(out, b)],
                       w, rem - 2, Append(out, b))
  <2>1. PICK o \in Seq(Byte) : o = Append(out, b)
    BY AppendProperties
  <2>2. PICK q \in {0, 2, 4, 6} : q = rem - 2
    <3>1. rem \in {0, 2, 4, 6}
      BY <1>2 DEF DecoderState
    <3> QED BY <1>6, <3>1
  <2>3. [s EXCEPT !.v = w, !.rem = q, !.out = o] \in DecoderState
    BY <1>2 DEF DecoderState
  <2>4. DecoderIs([s EXCEPT !.v = w, !.rem = q, !.out = o], w, q, o)
    BY <1>2, <2>3 DEF DecoderState, DecoderIs
  <2> QED BY <2>1, <2>2, <2>4, Zenon
<1>7. ASSUME v = 0, rem = 0 PROVE DecoderIs(DecodeSextet(s, EncTab(x), room), x, 6, out)
  BY <1>3, <1>4, <1>7, Zenon DEF DecodesTo
<1>9. ASSUME ~(Len(out) >= room), rem # 0, NEW w, NEW b, NEW unit, unit = Power(rem - 2),
             w \in 0..63, w = (v * 64 + x) % unit, b \in Byte, b = (v * 64 + x) \div unit
      PROVE  DecoderIs(DecodeSextet(s, EncTab(x), room), w, rem - 2, Append(out, b))
  BY <1>3, <1>6, <1>9, Zenon DEF DecodesTo
<1> QED BY <1>7, <1>9, Zenon

\* The decoder has made the first k bytes of text, or failed at byte room + 1.
Decoded(s, v, rem, k, text, room) ==
  /\ k <= room => DecoderIs(s, v, rem, SubSeq(text, 1, k))
  /\ k > room => DecoderFailed(s)

\* Once it has failed it stays so.
LEMMA FailedStays ==
  ASSUME NEW s, DecoderFailed(s), NEW c, NEW room
  PROVE  DecodeSextet(s, c, room) = s
BY DEF DecoderFailed, DecodeSextet

\* A prefix of a sequence, and the one that is longer by one.
LEMMA PrefixParts ==
  ASSUME NEW S, NEW text \in Seq(S), NEW k \in 0..Len(text)
  PROVE  /\ SubSeq(text, 1, k) \in Seq(S) /\ Len(SubSeq(text, 1, k)) = k
         /\ k < Len(text) => SubSeq(text, 1, k + 1) = Append(SubSeq(text, 1, k), text[k + 1])
<1>1. Len(text) \in Nat /\ \A i \in 1..Len(text) : text[i] \in S
  BY LenProperties, ElementOfSeq
<1>2. ASSUME NEW j \in 0..Len(text)
      PROVE  /\ SubSeq(text, 1, j) \in Seq(S) /\ Len(SubSeq(text, 1, j)) = j
             /\ \A i \in 1..j : SubSeq(text, 1, j)[i] = text[i]
  <2>1. \A i \in 1..j : text[i] \in S
    BY <1>1
  <2>2. /\ SubSeq(text, 1, j) \in Seq(S)
        /\ Len(SubSeq(text, 1, j)) = IF 1 <= j THEN j - 1 + 1 ELSE 0
        /\ \A i \in 1..j - 1 + 1 : SubSeq(text, 1, j)[i] = text[1 + i - 1]
    BY <1>1, <2>1, SubSeqProperties
  <2>3. \A i \in 1..j : SubSeq(text, 1, j)[i] = text[i]
    <3>1. TAKE i \in 1..j
    <3>2. i \in 1..j - 1 + 1 /\ 1 + i - 1 = i
      OBVIOUS
    <3> QED BY <2>2, <3>2
  <2>4. Len(SubSeq(text, 1, j)) = j
    BY <2>2
  <2> QED BY <2>2, <2>3, <2>4
<1>3. ASSUME k < Len(text)
      PROVE  SubSeq(text, 1, k + 1) = Append(SubSeq(text, 1, k), text[k + 1])
  <2>1. k \in Nat /\ k + 1 \in 0..Len(text) /\ k + 1 \in 1..Len(text) /\ text[k + 1] \in S
    BY <1>1, <1>3
  <2>2. PICK a \in Seq(S) : a = SubSeq(text, 1, k) /\ Len(a) = k /\ \A i \in 1..k : a[i] = text[i]
    BY <1>2
  <2>3. PICK b \in Seq(S) :
          b = SubSeq(text, 1, k + 1) /\ Len(b) = k + 1 /\ \A i \in 1..k + 1 : b[i] = text[i]
    BY <1>2, <2>1
  <2>4. PICK c \in Seq(S) :
          /\ c = Append(a, text[k + 1]) /\ Len(c) = k + 1
          /\ \A i \in 1..k : c[i] = a[i]
          /\ c[k + 1] = text[k + 1]
    <3>1. /\ Append(a, text[k + 1]) \in Seq(S) /\ Len(Append(a, text[k + 1])) = Len(a) + 1
          /\ \A i \in 1..Len(a) : Append(a, text[k + 1])[i] = a[i]
          /\ Append(a, text[k + 1])[Len(a) + 1] = text[k + 1]
      BY <2>1, AppendProperties
    <3> QED BY <2>2, <3>1, Zenon
  <2>5. \A i \in 1..k + 1 : b[i] = c[i]
    <3>1. TAKE i \in 1..k + 1
    <3>2. i \in 1..k \/ i = k + 1
      BY <2>1
    <3> QED BY <2>2, <2>3, <2>4, <3>2
  <2>6. b = c
    BY <2>3, <2>4, <2>5, SeqEqual
  <2> QED BY <2>2, <2>3, <2>4, <2>6
<1> QED BY <1>2, <1>3

\* The first character of a group of four gives six bits and no byte.
LEMMA DecodeFirst ==
  ASSUME NEW text \in Seq(Byte), NEW k \in 0..Len(text), NEW room \in Nat, NEW x \in 0..63,
         NEW s, Decoded(s, 0, 0, k, text, room)
  PROVE  Decoded(DecodeSextet(s, EncTab(x), room), x, 6, k, text, room)
<1>1. PICK out \in Seq(Byte) : out = SubSeq(text, 1, k)
  <2>1. SubSeq(text, 1, k) \in Seq(Byte)
    BY PrefixParts, Zenon
  <2> QED BY <2>1
<1>2. ASSUME k <= room PROVE DecoderIs(DecodeSextet(s, EncTab(x), room), x, 6, out)
  <2>1. DecoderIs(s, 0, 0, out)
    BY <1>1, <1>2 DEF Decoded
  <2>2. 0 \in 0..63
    OBVIOUS
  <2> QED BY <2>1, <2>2, DecodeStep, Zenon
<1>3. ASSUME k > room PROVE DecoderFailed(DecodeSextet(s, EncTab(x), room))
  <2>1. DecoderFailed(s)
    BY <1>3 DEF Decoded
  <2> QED BY <2>1, FailedStays
<1> QED BY <1>1, <1>2, <1>3, Zenon DEF Decoded

\* Every other one completes a byte.
LEMMA DecodeMore ==
  ASSUME NEW text \in Seq(Byte), NEW k \in 0..Len(text), k < Len(text), NEW room \in Nat,
         NEW x \in 0..63, NEW v \in 0..63, NEW rem, rem # 0,
         NEW s, Decoded(s, v, rem, k, text, room),
         NEW unit, unit = Power(rem - 2), NEW w \in 0..63, w = (v * 64 + x) % unit,
         text[k + 1] = (v * 64 + x) \div unit
  PROVE  Decoded(DecodeSextet(s, EncTab(x), room), w, rem - 2, k + 1, text, room)
<1> DEFINE t == DecodeSextet(s, EncTab(x), room)
<1>1. PICK out \in Seq(Byte) : out = SubSeq(text, 1, k) /\ Len(out) = k
  <2>1. SubSeq(text, 1, k) \in Seq(Byte) /\ Len(SubSeq(text, 1, k)) = k
    BY PrefixParts, Zenon
  <2> QED BY <2>1, Zenon
<1>2. Append(out, text[k + 1]) = SubSeq(text, 1, k + 1) /\ text[k + 1] \in Byte
  <2>1. k + 1 \in 1..Len(text)
    BY LenProperties
  <2>2. SubSeq(text, 1, k + 1) = Append(SubSeq(text, 1, k), text[k + 1])
    BY PrefixParts, Zenon
  <2>3. text[k + 1] \in Byte
    BY <2>1, ElementOfSeq
  <2> QED BY <1>1, <2>2, <2>3, Zenon
<1>3. ASSUME k < room PROVE DecoderIs(t, w, rem - 2, SubSeq(text, 1, k + 1))
  <2>1. k <= room /\ ~(Len(out) >= room)
    BY <1>1, <1>3
  <2>2. DecoderIs(s, v, rem, out)
    BY <1>1, <2>1, Zenon DEF Decoded
  <2> HIDE DEF t
  <2>3. /\ rem # 0 /\ unit = Power(rem - 2) /\ w \in 0..63 /\ w = (v * 64 + x) % unit
        /\ text[k + 1] \in Byte /\ text[k + 1] = (v * 64 + x) \div unit
    BY <1>2
  <2>4. DecoderIs(t, w, rem - 2, Append(out, text[k + 1]))
    BY <2>1, <2>2, <2>3, DecodeStep, Zenon DEF t
  <2> QED BY <1>2, <2>4
<1>4. ASSUME k = room PROVE DecoderFailed(t)
  <2>1. k <= room /\ Len(out) >= room
    BY <1>1, <1>4
  <2>2. DecoderIs(s, v, rem, out)
    BY <1>1, <2>1, Zenon DEF Decoded
  <2>3. rem # 0 /\ Len(out) >= room
    BY <2>1
  <2> QED BY <2>2, <2>3, DecodeFails
<1>5. ASSUME k > room PROVE DecoderFailed(t)
  <2>1. DecoderFailed(s)
    BY <1>5 DEF Decoded
  <2> QED BY <2>1, FailedStays
<1>6. /\ k + 1 <= room => k < room
      /\ k + 1 > room => k = room \/ k > room
  BY LenProperties
<1> QED BY <1>3, <1>4, <1>5, <1>6, Zenon DEF Decoded

StartsWith(b, a) == Len(a) <= Len(b) /\ \A i \in 1..Len(a) : b[i] = a[i]

\* Texts that only grow have each other at their start.
LEMMA Grows ==
  ASSUME NEW S, NEW N \in Nat, NEW F, \A n \in 0..N : F[n] \in Seq(S),
         \A n \in 1..N : StartsWith(F[n], F[n - 1])
  PROVE  \A n \in 0..N : StartsWith(F[N], F[n])
<1>1. ASSUME NEW n \in 0..N PROVE \A m \in 0..N : n <= m => StartsWith(F[m], F[n])
  <2> DEFINE T == {m \in 0..N : n <= m => StartsWith(F[m], F[n])}
  <2>1. Len(F[n]) \in Nat
    BY LenProperties
  <2>2. StartsWith(F[n], F[n])
    BY <2>1 DEF StartsWith
  <2>3. 0 \in T
    BY <2>2
  <2>4. ASSUME NEW m \in 1..N, m - 1 \in T PROVE m \in T
    <3>1. CASE n <= m - 1
      <4>1. StartsWith(F[m - 1], F[n]) /\ StartsWith(F[m], F[m - 1])
        BY <2>4, <3>1
      <4>2. Len(F[m - 1]) \in Nat /\ Len(F[m]) \in Nat
        BY LenProperties
      <4>3. StartsWith(F[m], F[n])
        BY <2>1, <4>1, <4>2 DEF StartsWith
      <4> QED BY <4>3
    <3>2. CASE ~(n <= m - 1)
      <4>1. n <= m => n = m
        BY <3>2
      <4> QED BY <2>2, <4>1
    <3> QED BY <3>1, <3>2
  <2>5. \A m \in 0..N : m \in T
    <3> HIDE DEF T
    <3> QED BY <2>3, <2>4, AllPasses
  <2> QED BY <2>5
<1> QED BY <1>1

EncoderStart == [v |-> 0, rem |-> 0, out |-> <<>>]

Encodes(E, text) ==
  /\ E[0] = EncoderStart
  /\ \A n \in 1..Len(text) : E[n] = EncodeByte(E[n - 1], text[n])
  /\ \A n \in 0..Len(text) : EncoderAt(E[n], n, text)

WithLast(s) == IF s.rem = 0 THEN s.out ELSE Append(s.out, EncTab(s.v * Power(6 - s.rem)))
Padding(code) == [k \in 1..((4 - (Len(code) % 4)) % 4) |-> EqualsSign]

\* The passes of the encoder.
LEMMA EncodeRuns ==
  ASSUME NEW text \in Seq(Byte)
  PROVE  \E E : /\ Encodes(E, text)
                /\ Base64Encode(text) =
                     WithLast(E[Len(text)]) \o Padding(WithLast(E[Len(text)]))
<1> DEFINE step == [b \in Byte |-> [s \in EncoderState |-> EncodeByte(s, b)]]
<1>1. Len(text) \in Nat /\ \A n \in 1..Len(text) : text[n] \in Byte
  BY LenProperties, ElementOfSeq
<1>2. PICK E : /\ E[0] = EncoderStart
               /\ \A n \in 1..Len(text) : E[n] = step[text[n]][E[n - 1]]
               /\ Loop(step, EncoderStart, text) = E[Len(text)]
  <2> HIDE DEF step
  <2> QED BY <1>1, LoopRuns
<1> DEFINE T == {n \in 0..Len(text) : EncoderAt(E[n], n, text)}
<1>3. 0 \in T
  <2>1. EncoderStart \in EncoderState /\ Len(EncoderStart.out) = 0
        /\ EncoderStart.out \in Seq(Base64Chars) /\ EncoderStart.rem = 0 /\ EncoderStart.v = 0
    BY DEF EncoderStart, EncoderState
  <2>2. EncoderAt(EncoderStart, 0, text)
    BY <2>1 DEF EncoderAt
  <2> QED BY <1>1, <1>2, <2>2
<1>4. ASSUME NEW n \in 1..Len(text), EncoderAt(E[n - 1], n - 1, text)
      PROVE  E[n] = EncodeByte(E[n - 1], text[n])
  <2>1. E[n - 1] \in EncoderState /\ text[n] \in Byte
    BY <1>1, <1>4 DEF EncoderAt
  <2>2. step[text[n]][E[n - 1]] = EncodeByte(E[n - 1], text[n])
    BY <2>1
  <2> HIDE DEF step
  <2> QED BY <1>2, <2>2
<1>5. ASSUME NEW n \in 1..Len(text), n - 1 \in T PROVE n \in T
  <2>1. EncoderAt(E[n - 1], n - 1, text)
    BY <1>5
  <2>2. EncoderAt(E[n], n, text)
    BY <1>4, <2>1, EncodeStep
  <2> QED BY <2>2
<1>6. \A n \in 0..Len(text) : EncoderAt(E[n], n, text)
  <2>1. \A n \in 0..Len(text) : n \in T
    <3> HIDE DEF T, step
    <3> QED BY <1>1, <1>3, <1>5, AllPasses
  <2> QED BY <2>1
<1>7. Encodes(E, text)
  <2>1. ASSUME NEW n \in 1..Len(text) PROVE E[n] = EncodeByte(E[n - 1], text[n])
    <3>1. n - 1 \in 0..Len(text)
      BY <1>1
    <3> HIDE DEF step
    <3> QED BY <1>4, <1>6, <3>1
  <2> HIDE DEF step
  <2> QED BY <1>2, <1>6, <2>1 DEF Encodes
<1>8. Base64Encode(text) = WithLast(E[Len(text)]) \o Padding(WithLast(E[Len(text)]))
  BY <1>2, Zenon DEF Base64Encode, WithLast, Padding, EncoderStart
<1> QED
  <2> HIDE DEF step
  <2> QED BY <1>7, <1>8

\* The characters that byte b adds to the code, which has l characters so far.
Adds(text, n, s, t, b, l) ==
  /\ StartsWith(t.out, s.out) /\ s.rem \in {0, 2, 4} /\ n - 1 \in 0..Len(text) /\ b \in 0..255
  /\ s.rem = 0 => t.rem = 2 /\ Len(t.out) = l + 1 /\ t.out[l + 1] = EncTab(b \div 4)
  /\ s.rem = 2 =>
       /\ t.rem = 4 /\ Len(t.out) = l + 1 /\ n - 1 \in 1..Len(text)
       /\ t.out[l + 1] = EncTab((text[n - 1] % 4) * 16 + b \div 16)
  /\ s.rem = 4 =>
       /\ t.rem = 0 /\ Len(t.out) = l + 2 /\ n - 1 \in 1..Len(text)
       /\ t.out[l + 1] = EncTab((text[n - 1] % 16) * 4 + b \div 64)
       /\ t.out[l + 2] = EncTab(b % 64)

\* Each byte adds the characters that stand for its bits.
LEMMA EncodedChars ==
  ASSUME NEW text \in Seq(Byte), NEW E, Encodes(E, text), NEW n \in 1..Len(text)
  PROVE  /\ Len(E[n - 1].out) \in Nat
         /\ Adds(text, n, E[n - 1], E[n], text[n], Len(E[n - 1].out))
<1>0. PICK s, t, b, l : s = E[n - 1] /\ t = E[n] /\ b = text[n] /\ l = Len(s.out)
  OBVIOUS
<1>1. /\ Len(text) \in Nat /\ n - 1 \in 0..Len(text) /\ (n - 1 > 0 => n - 1 \in 1..Len(text))
      /\ b \in Byte
  BY <1>0, LenProperties, ElementOfSeq
<1>2. EncoderAt(s, n - 1, text) /\ t = EncodeByte(s, b)
  BY <1>0, <1>1, Zenon DEF Encodes
<1>3. /\ s \in EncoderState /\ s.rem \in {0, 2, 4} /\ s.out \in Seq(Byte)
      /\ l \in Nat /\ l = Len(s.out)
  BY <1>0, <1>2, LenProperties DEF EncoderAt, EncoderState
<1>4. /\ s.rem = 0 => s.v = 0
      /\ s.rem = 2 => n - 1 \in 1..Len(text) /\ s.v = text[n - 1] % 4
      /\ s.rem = 4 => n - 1 \in 1..Len(text) /\ s.v = text[n - 1] % 16
  BY <1>1, <1>2 DEF EncoderAt
<1>5. s.rem = 2 => s.v \in 0..3
  <2>1. n - 1 \in 1..Len(text) => text[n - 1] \in 0..255
    BY ElementOfSeq DEF Byte
  <2> QED BY <1>4, <2>1, BytesHalve, ZenonT(60)
<1>6. \A c : /\ Len(Append(s.out, c)) = l + 1 /\ Append(s.out, c)[l + 1] = c
             /\ \A i \in 1..l : Append(s.out, c)[i] = s.out[i]
  BY <1>3, AppendProperties
<1>A. CodedAs(t, s, b)
  <2>1. CodedAs(EncodeByte(s, b), s, b)
    BY <1>1, <1>3, <1>4, <1>5, EncodeByteIs
  <2> QED BY <1>2, <2>1, Zenon
<1>7. ASSUME s.rem = 0 PROVE Adds(text, n, s, t, b, l)
  <2>1. t = [v |-> b % 4, rem |-> 2, out |-> Append(s.out, EncTab(b \div 4))]
    BY <1>A, <1>7, Zenon DEF CodedAs
  <2>2. t.rem = 2 /\ t.out = Append(s.out, EncTab(b \div 4))
    BY <2>1
  <2>3. StartsWith(t.out, s.out) /\ Len(t.out) = l + 1 /\ t.out[l + 1] = EncTab(b \div 4)
    BY <1>6, <2>2 DEF StartsWith
  <2> QED BY <1>1, <1>7, <2>2, <2>3 DEF Byte, Adds
<1>8. ASSUME s.rem = 2 PROVE Adds(text, n, s, t, b, l)
  <2>1. t = [v |-> b % 16, rem |-> 4, out |-> Append(s.out, EncTab(s.v * 16 + b \div 16))]
    BY <1>A, <1>8, Zenon DEF CodedAs
  <2>2. t.rem = 4 /\ t.out = Append(s.out, EncTab(s.v * 16 + b \div 16))
    BY <2>1
  <2>3. StartsWith(t.out, s.out) /\ Len(t.out) = l + 1 /\ t.out[l + 1] = EncTab(s.v * 16 + b \div 16)
    BY <1>6, <2>2 DEF StartsWith
  <2> QED BY <1>1, <1>4, <1>8, <2>2, <2>3 DEF Byte, Adds
<1>9. ASSUME s.rem = 4 PROVE Adds(text, n, s, t, b, l)
  <2>1. t = [v |-> 0, rem |-> 0,
             out |-> Append(Append(s.out, EncTab(s.v * 4 + b \div 64)), EncTab(b % 64))]
    BY <1>A, <1>9, Zenon DEF CodedAs
  <2>2. PICK o : o = Append(s.out, EncTab(s.v * 4 + b \div 64))
    OBVIOUS
  <2>3. t.rem = 0 /\ t.out = Append(o, EncTab(b % 64))
    BY <2>1, <2>2
  <2>4. /\ Len(o) = l + 1 /\ o[l + 1] = EncTab(s.v * 4 + b \div 64)
        /\ \A i \in 1..l : o[i] = s.out[i]
    BY <1>6, <2>2
  <2>5. o \in Seq(Byte)
    <3>1. s.v \in 0..15 /\ b \in 0..255
      BY <1>1, <1>3 DEF EncoderState, Byte
    <3>2. EncTab(s.v * 4 + b \div 64) \in Byte
      BY <3>1, BytesHalve, Sextets, Zenon
    <3> QED BY <1>3, <2>2, <3>2, AppendProperties
  <2>6. /\ Len(t.out) = l + 2 /\ t.out[l + 2] = EncTab(b % 64)
        /\ \A i \in 1..l + 1 : t.out[i] = o[i]
    <3>1. /\ Len(t.out) = Len(o) + 1 /\ t.out[Len(o) + 1] = EncTab(b % 64)
          /\ \A i \in 1..Len(o) : t.out[i] = o[i]
      BY <2>3, <2>5, AppendProperties
    <3>2. l + 1 + 1 = l + 2
      BY <1>3
    <3> QED BY <2>4, <3>1, <3>2, Zenon
  <2>7. StartsWith(t.out, s.out) /\ t.out[l + 1] = EncTab(s.v * 4 + b \div 64)
    <3>1. \A i \in 1..l : i \in 1..l + 1
      BY <1>3
    <3>2. \A i \in 1..l : t.out[i] = s.out[i]
      BY <2>4, <2>6, <3>1, Zenon
    <3>3. l + 1 \in 1..l + 1 /\ l <= l + 2
      BY <1>3
    <3>4. t.out[l + 1] = EncTab(s.v * 4 + b \div 64)
      BY <2>4, <2>6, <3>3, Zenon
    <3> QED BY <1>3, <2>6, <3>2, <3>3, <3>4, Zenon DEF StartsWith
  <2>8. n - 1 \in 1..Len(text) /\ s.v = text[n - 1] % 16
    BY <1>4, <1>9, Zenon
  <2>9. 4 # 0 /\ 4 # 2 /\ b \in 0..255
    BY <1>1 DEF Byte
  <2> QED BY <1>1, <1>3, <1>9, <2>3, <2>6, <2>7, <2>8, <2>9, Zenon DEF Adds
<1>10. Adds(text, n, s, t, b, l)
  BY <1>3, <1>7, <1>8, <1>9, Zenon
<1> QED BY <1>0, <1>3, <1>10, Zenon

\* The decoder before its first character.
DecoderStart == [v |-> 0, rem |-> 0, out |-> <<>>, stop |-> FALSE, fail |-> FALSE]

Decodes(D, in, room) ==
  /\ D[0] = DecoderStart
  /\ \A n \in 1..Len(in) : D[n - 1] \in DecoderState => D[n] = DecodeSextet(D[n - 1], in[n], room)

\* The passes of base64_decode.
LEMMA DecodeRuns ==
  ASSUME NEW in \in Seq(Byte), NEW room
  PROVE  \E D : /\ Decodes(D, in, room)
                /\ Base64Decode(in, room) =
                     IF D[Len(in)].fail THEN NotFoundText
                     ELSE [len |-> Len(D[Len(in)].out), text |-> D[Len(in)].out]
<1> DEFINE step == [c \in Byte |-> [s \in DecoderState |-> DecodeSextet(s, c, room)]]
<1>1. Len(in) \in Nat /\ \A n \in 1..Len(in) : in[n] \in Byte
  BY LenProperties, ElementOfSeq
<1>2. PICK D : /\ D[0] = DecoderStart
               /\ \A n \in 1..Len(in) : D[n] = step[in[n]][D[n - 1]]
               /\ Loop(step, DecoderStart, in) = D[Len(in)]
  <2> HIDE DEF step
  <2> QED BY <1>1, LoopRuns
<1>3. ASSUME NEW n \in 1..Len(in), D[n - 1] \in DecoderState
      PROVE  D[n] = DecodeSextet(D[n - 1], in[n], room)
  <2>1. in[n] \in Byte
    BY <1>1
  <2>2. step[in[n]][D[n - 1]] = DecodeSextet(D[n - 1], in[n], room)
    BY <1>3, <2>1
  <2> HIDE DEF step
  <2> QED BY <1>2, <2>2
<1>4. Decodes(D, in, room)
  <2> HIDE DEF step
  <2> QED BY <1>2, <1>3 DEF Decodes
<1>5. Base64Decode(in, room) =
        IF D[Len(in)].fail THEN NotFoundText
        ELSE [len |-> Len(D[Len(in)].out), text |-> D[Len(in)].out]
  BY <1>2, Zenon DEF Base64Decode, DecoderStart
<1> QED
  <2> HIDE DEF step
  <2> QED BY <1>4, <1>5

\* What the decoder makes of two neighbouring bytes a and b.
Joins6(a, b) ==
  /\ ((a \div 4) * 64 + ((a % 4) * 16 + b \div 16)) % 16 = b \div 16
  /\ ((a \div 4) * 64 + ((a % 4) * 16 + b \div 16)) \div 16 = a
Joins4(a, b) ==
  /\ ((a \div 16) * 64 + ((a % 16) * 4 + b \div 64)) % 4 = b \div 64
  /\ ((a \div 16) * 64 + ((a % 16) * 4 + b \div 64)) \div 4 = a
Joins2(b) ==
  /\ ((b \div 64) * 64 + (b % 64)) % 1 = 0
  /\ ((b \div 64) * 64 + (b % 64)) \div 1 = b

\* Bits that are taken apart and put together again are the same byte.
LEMMA BytesJoin == \A a \in 0..255, b \in 0..255 : Joins6(a, b) /\ Joins4(a, b) /\ Joins2(b)
<1>1. ASSUME NEW a \in 0..255, NEW b \in 0..255
      PROVE  /\ ((a \div 4) * 64 + ((a % 4) * 16 + b \div 16)) % 16 = b \div 16
             /\ ((a \div 4) * 64 + ((a % 4) * 16 + b \div 16)) \div 16 = a
  <2>1. PICK p \in 0..63, q \in 0..3 : a = 4 * p + q /\ p = a \div 4 /\ q = a % 4
    OBVIOUS
  <2>2. PICK r \in 0..15 : r = b \div 16
    OBVIOUS
  <2>3. p * 64 + (q * 16 + r) = 16 * (4 * p + q) + r
    OBVIOUS
  <2>4. (16 * a + r) % 16 = r /\ (16 * a + r) \div 16 = a
    OBVIOUS
  <2> QED BY <2>1, <2>2, <2>3, <2>4, Zenon
<1>2. ASSUME NEW a \in 0..255, NEW b \in 0..255
      PROVE  /\ ((a \div 16) * 64 + ((a % 16) * 4 + b \div 64)) % 4 = b \div 64
             /\ ((a \div 16) * 64 + ((a % 16) * 4 + b \div 64)) \div 4 = a
  <2>1. PICK p \in 0..15, q \in 0..15 : a = 16 * p + q /\ p = a \div 16 /\ q = a % 16
    OBVIOUS
  <2>2. PICK r \in 0..3 : r = b \div 64
    OBVIOUS
  <2>3. p * 64 + (q * 4 + r) = 4 * (16 * p + q) + r
    OBVIOUS
  <2>4. (4 * a + r) % 4 = r /\ (4 * a + r) \div 4 = a
    OBVIOUS
  <2> QED BY <2>1, <2>2, <2>3, <2>4, Zenon
<1>3. ASSUME NEW b \in 0..255
      PROVE  /\ ((b \div 64) * 64 + (b % 64)) % 1 = 0
             /\ ((b \div 64) * 64 + (b % 64)) \div 1 = b
  <2>1. (b \div 64) * 64 + (b % 64) = b
    <3>1. PICK p \in 0..3, q \in 0..63 : b = 64 * p + q /\ p = b \div 64 /\ q = b % 64
      OBVIOUS
    <3>2. p * 64 + q = 64 * p + q
      OBVIOUS
    <3>3. (b \div 64) * 64 + (b % 64) = p * 64 + q
      <4>1. p = b \div 64 /\ q = b % 64
        BY <3>1
      <4> QED BY <4>1, Zenon
    <3>4. 64 * p + q = b
      BY <3>1
    <3> QED BY <3>2, <3>3, <3>4, Zenon
  <2>2. b % 1 = 0 /\ b \div 1 = b
    OBVIOUS
  <2> QED BY <2>1, <2>2, Zenon
<1> QED
  <2>1. TAKE a \in 0..255, b \in 0..255
  <2>2. Joins6(a, b)
    BY <1>1, Zenon DEF Joins6
  <2>3. Joins4(a, b)
    BY <1>2, Zenon DEF Joins4
  <2>4. Joins2(b)
    BY <1>3, Zenon DEF Joins2
  <2> QED BY <2>2, <2>3, <2>4, Zenon

\* How far the decoder is once it has read what the encoder made of n bytes of text.
Follows(D, s, n, text, room) ==
  LET l == Len(s.out)
  IN /\ s.rem = 0 => Decoded(D[l], 0, 0, n, text, room)
     /\ s.rem = 2 => Decoded(D[l], text[n] \div 4, 6, n - 1, text, room)
     /\ s.rem = 4 => Decoded(D[l], text[n] \div 16, 4, n - 1, text, room)

\* A decoder that has read k bytes is in one of its states.
LEMMA DecodedIsState ==
  \A s, v, rem, k, text, room : k \in Int /\ room \in Nat /\ Decoded(s, v, rem, k, text, room)
                                  => s \in DecoderState
<1>1. \A k \in Int, room \in Nat : k <= room \/ k > room
  OBVIOUS
<1> QED BY <1>1, Zenon DEF Decoded, DecoderIs, DecoderFailed

\* The pass that reads a character of the code.
LEMMA ReadsNext ==
  ASSUME NEW in, NEW D, NEW room, Decodes(D, in, room), NEW l \in Nat, l + 1 \in 1..Len(in),
         NEW c, in[l + 1] = c, D[l] \in DecoderState
  PROVE  D[l + 1] = DecodeSextet(D[l], c, room)
<1>1. PICK m \in 1..Len(in) : m = l + 1 /\ m - 1 = l
  OBVIOUS
<1> QED BY <1>1, Zenon DEF Decodes

\* Where the decoder has followed the encoder up to a byte it follows it over the next.
LEMMA DecodesByte ==
  ASSUME NEW text \in Seq(Byte), NEW E, Encodes(E, text), NEW n \in 1..Len(text),
         NEW in, NEW D, NEW room \in Nat, Decodes(D, in, room),
         Len(in) \in Nat, StartsWith(in, E[n].out), Follows(D, E[n - 1], n - 1, text, room)
  PROVE  Follows(D, E[n], n, text, room)
<1>1. PICK s, t, b : s = E[n - 1] /\ t = E[n] /\ b = text[n]
  OBVIOUS
<1>2. PICK l \in Nat : l = Len(s.out) /\ Adds(text, n, s, t, b, l)
  <2>1. Len(E[n - 1].out) \in Nat /\ Adds(text, n, E[n - 1], E[n], text[n], Len(E[n - 1].out))
    BY EncodedChars
  <2> QED BY <1>1, <2>1, Zenon
<1>3. /\ s.rem \in {0, 2, 4} /\ n - 1 \in 0..Len(text) /\ b \in 0..255
      /\ s.rem = 0 => t.rem = 2 /\ Len(t.out) = l + 1 /\ t.out[l + 1] = EncTab(b \div 4)
      /\ s.rem = 2 =>
           /\ t.rem = 4 /\ Len(t.out) = l + 1 /\ n - 1 \in 1..Len(text)
           /\ t.out[l + 1] = EncTab((text[n - 1] % 4) * 16 + b \div 16)
      /\ s.rem = 4 =>
           /\ t.rem = 0 /\ Len(t.out) = l + 2 /\ n - 1 \in 1..Len(text)
           /\ t.out[l + 1] = EncTab((text[n - 1] % 16) * 4 + b \div 64)
           /\ t.out[l + 2] = EncTab(b % 64)
  BY <1>2, Zenon DEF Adds
<1>4. \A i \in 1..Len(t.out) : i \in 1..Len(in) /\ in[i] = t.out[i]
  <2>1. StartsWith(in, t.out)
    BY <1>1
  <2>2. Len(t.out) \in Nat
    BY <1>2, <1>3
  <2> QED BY <2>1, <2>2 DEF StartsWith
<1>5. /\ n \in Nat /\ n >= 1 /\ n <= Len(text) /\ n - 1 \in Int /\ n - 2 \in Int
      /\ n - 1 < Len(text) /\ n - 1 + 1 = n /\ 0 \in 0..63
  BY LenProperties
<1>6. Follows(D, s, n - 1, text, room)
  BY <1>1
<1>7. CASE s.rem = 0
  <2>1. Decoded(D[l], 0, 0, n - 1, text, room)
    BY <1>2, <1>6, <1>7, Zenon DEF Follows
  <2>2. b \div 4 \in 0..63
    BY <1>3, BytesHalve, Zenon
  <2>3. l + 1 \in 1..Len(in) /\ in[l + 1] = EncTab(b \div 4)
    <3>1. l + 1 \in 1..l + 1
      OBVIOUS
    <3> QED BY <1>3, <1>4, <1>7, <3>1, Zenon
  <2>4. D[l + 1] = DecodeSextet(D[l], EncTab(b \div 4), room)
    <3>1. D[l] \in DecoderState
      BY <1>5, <2>1, DecodedIsState, Zenon
    <3> QED BY <2>3, <3>1, ReadsNext
  <2>5. Decoded(D[l + 1], b \div 4, 6, n - 1, text, room)
    BY <1>3, <2>1, <2>2, <2>4, DecodeFirst, Zenon
  <2>6. t.rem = 2 /\ Len(t.out) = l + 1 /\ 2 # 0 /\ 2 # 4
    BY <1>3, <1>7
  <2>7. Follows(D, t, n, text, room)
    BY <1>1, <2>5, <2>6, Zenon DEF Follows
  <2> QED BY <1>1, <2>7, Zenon
<1>8. CASE s.rem = 2
  <2>1. PICK a \in 0..255 : a = text[n - 1] /\ n - 1 \in 1..Len(text)
    <3>1. n - 1 \in 1..Len(text)
      BY <1>3, <1>8, Zenon
    <3>2. text[n - 1] \in Byte
      BY <3>1, ElementOfSeq
    <3> QED BY <3>1, <3>2, Zenon DEF Byte
  <2>2. PICK k \in 0..Len(text) : k = n - 1 - 1 /\ k < Len(text) /\ k + 1 = n - 1 /\ k \in Int
    BY <1>5, <2>1
  <2>3. PICK v \in 0..63, x \in 0..63, w \in 0..63 :
          /\ v = a \div 4 /\ x = (a % 4) * 16 + b \div 16 /\ w = b \div 16
          /\ (v * 64 + x) % 16 = w /\ (v * 64 + x) \div 16 = a
    <3>1. a \div 4 \in 0..63 /\ a % 4 \in 0..3
      BY BytesHalve, Zenon
    <3>2. (a % 4) * 16 + b \div 16 \in 0..63
      BY <1>3, <3>1, BytesHalve, Zenon
    <3>3. b \div 16 \in 0..63
      BY <1>3
    <3>4. /\ ((a \div 4) * 64 + ((a % 4) * 16 + b \div 16)) % 16 = b \div 16
          /\ ((a \div 4) * 64 + ((a % 4) * 16 + b \div 16)) \div 16 = a
      <4>1. b \in 0..255
        BY <1>3
      <4>2. Joins6(a, b)
        BY <4>1, BytesJoin, Zenon
      <4> QED BY <4>2, Zenon DEF Joins6
    <3> QED BY <3>1, <3>2, <3>3, <3>4, ZenonT(60)
  <2>4. Decoded(D[l], v, 6, k, text, room)
    <3>1. Decoded(D[l], text[n - 1] \div 4, 6, n - 1 - 1, text, room)
      BY <1>2, <1>6, <1>8, Zenon DEF Follows
    <3> QED BY <2>1, <2>2, <2>3, <3>1, Zenon
  <2>5. l + 1 \in 1..Len(in) /\ in[l + 1] = EncTab(x)
    <3>1. l + 1 \in 1..l + 1
      OBVIOUS
    <3>2. t.out[l + 1] = EncTab(x) /\ Len(t.out) = l + 1
      BY <1>3, <1>8, <2>1, <2>3, Zenon
    <3> QED BY <1>4, <3>1, <3>2, Zenon
  <2>6. D[l + 1] = DecodeSextet(D[l], EncTab(x), room)
    <3>1. D[l] \in DecoderState
      BY <2>2, <2>4, DecodedIsState, Zenon
    <3> QED BY <2>5, <3>1, ReadsNext
  <2>7. Decoded(D[l + 1], w, 6 - 2, k + 1, text, room)
    <3>1. 6 # 0 /\ 16 = Power(6 - 2)
      BY DEF Power
    <3>2. text[k + 1] = (v * 64 + x) \div 16 /\ w = (v * 64 + x) % 16
      BY <2>1, <2>2, <2>3, Zenon
    <3>3. Decoded(DecodeSextet(D[l], EncTab(x), room), w, 6 - 2, k + 1, text, room)
      BY <2>2, <2>4, <3>1, <3>2, DecodeMore, ZenonT(60)
    <3> QED BY <2>6, <3>3, Zenon
  <2>8. t.rem = 4 /\ Len(t.out) = l + 1 /\ 4 # 0 /\ 4 # 2 /\ 6 - 2 = 4
    BY <1>3, <1>8
  <2>9. Decoded(D[l + 1], b \div 16, 4, n - 1, text, room)
    BY <2>2, <2>3, <2>7, <2>8, Zenon
  <2>10. Follows(D, t, n, text, room)
    BY <1>1, <2>8, <2>9, Zenon DEF Follows
  <2> QED BY <1>1, <2>10, Zenon
<1>9. CASE s.rem = 4
  <2>1. PICK a \in 0..255 : a = text[n - 1] /\ n - 1 \in 1..Len(text)
    <3>1. n - 1 \in 1..Len(text)
      BY <1>3, <1>9, Zenon
    <3>2. text[n - 1] \in Byte
      BY <3>1, ElementOfSeq
    <3> QED BY <3>1, <3>2, Zenon DEF Byte
  <2>2. PICK k \in 0..Len(text) : k = n - 1 - 1 /\ k < Len(text) /\ k + 1 = n - 1 /\ k \in Int
    BY <1>5, <2>1
  <2>3. PICK v \in 0..63, x \in 0..63, w \in 0..63 :
          /\ v = a \div 16 /\ x = (a % 16) * 4 + b \div 64 /\ w = b \div 64
          /\ (v * 64 + x) % 4 = w /\ (v * 64 + x) \div 4 = a
    <3>1. a % 16 \in 0..15
      BY BytesHalve, Zenon
    <3>2. (a % 16) * 4 + b \div 64 \in 0..63
      BY <1>3, <3>1, BytesHalve, Zenon
    <3>3. a \div 16 \in 0..63
      OBVIOUS
    <3>4. b \div 64 \in 0..63
      <4>1. \A c \in 0..255 : c \div 64 \in 0..63
        OBVIOUS
      <4> QED BY <1>3, <4>1, Zenon
    <3>5. /\ ((a \div 16) * 64 + ((a % 16) * 4 + b \div 64)) % 4 = b \div 64
          /\ ((a \div 16) * 64 + ((a % 16) * 4 + b \div 64)) \div 4 = a
      <4>1. b \in 0..255
        BY <1>3
      <4>2. Joins4(a, b)
        BY <4>1, BytesJoin, Zenon
      <4> QED BY <4>2, Zenon DEF Joins4
    <3> QED BY <3>2, <3>3, <3>4, <3>5, ZenonT(60)
  <2>4. Decoded(D[l], v, 4, k, text, room)
    <3>1. Decoded(D[l], text[n - 1] \div 16, 4, n - 1 - 1, text, room)
      BY <1>2, <1>6, <1>9, Zenon DEF Follows
    <3> QED BY <2>1, <2>2, <2>3, <3>1, Zenon
  <2>5. /\ l + 1 \in 1..Len(in) /\ in[l + 1] = EncTab(x)
        /\ l + 2 \in 1..Len(in) /\ in[l + 2] = EncTab(b % 64)
    <3>1. l + 1 \in 1..l + 2 /\ l + 2 \in 1..l + 2
      OBVIOUS
    <3>2. t.out[l + 1] = EncTab(x) /\ Len(t.out) = l + 2 /\ t.out[l + 2] = EncTab(b % 64)
      BY <1>3, <1>9, <2>1, <2>3, Zenon
    <3> QED BY <1>4, <3>1, <3>2, Zenon
  <2>6. D[l + 1] = DecodeSextet(D[l], EncTab(x), room)
    <3>1. D[l] \in DecoderState
      BY <2>2, <2>4, DecodedIsState, Zenon
    <3> QED BY <2>5, <3>1, ReadsNext
  <2>7. Decoded(D[l + 1], w, 4 - 2, k + 1, text, room)
    <3>1. 4 # 0 /\ 4 = Power(4 - 2)
      BY DEF Power
    <3>2. text[k + 1] = (v * 64 + x) \div 4 /\ w = (v * 64 + x) % 4
      BY <2>1, <2>2, <2>3, Zenon
    <3>3. Decoded(DecodeSextet(D[l], EncTab(x), room), w, 4 - 2, k + 1, text, room)
      BY <2>2, <2>4, <3>1, <3>2, DecodeMore, Zenon
    <3> QED BY <2>6, <3>3, Zenon
  <2>8. PICK j \in 0..Len(text), m \in Nat :
          /\ j = n - 1 /\ j < Len(text) /\ j + 1 = n /\ j \in Int
          /\ m = l + 1 /\ m + 1 = l + 2
    BY <1>3, <1>5
  <2>9. Decoded(D[m], w, 2, j, text, room)
    <3>1. 4 - 2 = 2
      OBVIOUS
    <3> QED BY <2>2, <2>7, <2>8, <3>1, Zenon
  <2>10. PICK y \in 0..63 : /\ y = b % 64
                            /\ 0 = (w * 64 + y) % 1 /\ b = (w * 64 + y) \div 1
    <3>1. b % 64 \in 0..63
      BY <1>3, BytesHalve, Zenon
    <3>2. /\ ((b \div 64) * 64 + (b % 64)) % 1 = 0
          /\ ((b \div 64) * 64 + (b % 64)) \div 1 = b
      <4>1. b \in 0..255
        BY <1>3
      <4>2. Joins2(b)
        BY <4>1, BytesJoin, ZenonT(60)
      <4> QED BY <4>2, Zenon DEF Joins2
    <3>3. w = b \div 64
      BY <2>3
    <3> QED BY <3>1, <3>2, <3>3, Zenon
  <2>11. D[m + 1] = DecodeSextet(D[m], EncTab(y), room)
    <3>1. D[m] \in DecoderState
      BY <2>8, <2>9, DecodedIsState, Zenon
    <3>2. m + 1 \in 1..Len(in) /\ in[m + 1] = EncTab(y)
      BY <2>5, <2>8, <2>10, Zenon
    <3> QED BY <3>1, <3>2, ReadsNext
  <2>12. Decoded(D[m + 1], 0, 2 - 2, j + 1, text, room)
    <3>1. 2 # 0 /\ 1 = Power(2 - 2)
      BY DEF Power
    <3>2. text[j + 1] = (w * 64 + y) \div 1 /\ 0 = (w * 64 + y) % 1
      BY <1>1, <2>8, <2>10, Zenon
    <3>3. Decoded(DecodeSextet(D[m], EncTab(y), room), 0, 2 - 2, j + 1, text, room)
      BY <1>5, <2>8, <2>9, <3>1, <3>2, DecodeMore, Zenon
    <3> QED BY <2>11, <3>3, Zenon
  <2>13. t.rem = 0 /\ Len(t.out) = l + 2 /\ 0 # 4 /\ 0 # 2 /\ 2 - 2 = 0
    BY <1>3, <1>9
  <2>14. Decoded(D[l + 2], 0, 0, n, text, room)
    BY <2>8, <2>12, <2>13, Zenon
  <2>15. Follows(D, t, n, text, room)
    BY <1>1, <2>13, <2>14, Zenon DEF Follows
  <2> QED BY <1>1, <2>15, Zenon
<1> QED BY <1>3, <1>7, <1>8, <1>9

\* The encoder only appends.
LEMMA CodeGrows ==
  ASSUME NEW text \in Seq(Byte), NEW E, Encodes(E, text), NEW N \in 0..Len(text), NEW n \in 0..N
  PROVE  StartsWith(E[N].out, E[n].out) /\ E[n].out \in Seq(Byte) /\ E[N].out \in Seq(Byte)
<1> DEFINE F == [m \in 0..N |-> E[m].out]
<1>1. N \in Nat /\ N <= Len(text) /\ Len(text) \in Nat
  BY LenProperties
<1>2. \A m \in 0..N : F[m] = E[m].out /\ F[m] \in Seq(Byte)
  <2>1. ASSUME NEW m \in 0..N PROVE E[m].out \in Seq(Byte)
    <3>1. m \in 0..Len(text)
      BY <1>1
    <3>2. EncoderAt(E[m], m, text)
      BY <3>1 DEF Encodes
    <3> QED BY <3>2 DEF EncoderAt, EncoderState
  <2> QED BY <2>1
<1>3. ASSUME NEW m \in 1..N PROVE StartsWith(F[m], F[m - 1])
  <2>1. m \in 1..Len(text)
    BY <1>1
  <2>2. StartsWith(E[m].out, E[m - 1].out)
    BY <2>1, EncodedChars DEF Adds
  <2>3. m \in 0..N /\ m - 1 \in 0..N
    BY <1>1
  <2> HIDE DEF F
  <2> QED BY <1>2, <2>2, <2>3, Zenon
<1>4. StartsWith(F[N], F[n])
  <2> HIDE DEF F
  <2> QED BY <1>1, <1>2, <1>3, Grows
<1>5. N \in 0..N
  BY <1>1
<1> HIDE DEF F
<1> QED BY <1>2, <1>4, <1>5, Zenon

\* A beginning of a beginning is a beginning.
LEMMA BeginsTransitive ==
  ASSUME NEW a, NEW b, NEW c, Len(a) \in Nat, Len(b) \in Nat, Len(c) \in Nat,
         StartsWith(c, b), StartsWith(b, a)
  PROVE  StartsWith(c, a)
BY DEF StartsWith

\* The decoder follows the encoder over the whole text.
LEMMA DecodesAlong ==
  ASSUME NEW text \in Seq(Byte), NEW E, Encodes(E, text), NEW N \in 0..Len(text),
         NEW in, NEW D, NEW room \in Nat, Decodes(D, in, room),
         Len(in) \in Nat, StartsWith(in, E[N].out)
  PROVE  Follows(D, E[N], N, text, room)
<1> DEFINE T == {n \in 0..N : Follows(D, E[n], n, text, room)}
<1>1. N \in Nat /\ N <= Len(text) /\ Len(text) \in Nat
  BY LenProperties
<1>2. ASSUME NEW n \in 0..N PROVE StartsWith(in, E[n].out)
  <2>1. StartsWith(E[N].out, E[n].out) /\ E[n].out \in Seq(Byte) /\ E[N].out \in Seq(Byte)
    BY CodeGrows
  <2>2. Len(E[n].out) \in Nat /\ Len(E[N].out) \in Nat
    BY <2>1, LenProperties
  <2> QED BY <2>1, <2>2, BeginsTransitive
<1>3. 0 \in T
  <2>1. 0 \in 0..N /\ E[0] = EncoderStart
    BY <1>1 DEF Encodes
  <2>2. SubSeq(text, 1, 0) = <<>>
    BY <1>1, SubSeqProperties, EmptySeq
  <2>3. DecoderIs(DecoderStart, 0, 0, <<>>)
    BY DEF DecoderIs, DecoderStart, DecoderState
  <2>4. ~(0 > room)
    OBVIOUS
  <2>5. Decoded(D[0], 0, 0, 0, text, room)
    BY <2>2, <2>3, <2>4 DEF Decoded, Decodes
  <2>6. EncoderStart.rem = 0 /\ EncoderStart.out = <<>> /\ Len(<<>>) = 0 /\ 0 # 2 /\ 0 # 4
    BY DEF EncoderStart
  <2>7. Follows(D, EncoderStart, 0, text, room)
    BY <2>5, <2>6, Zenon DEF Follows
  <2> QED BY <2>1, <2>7
<1>4. ASSUME NEW n \in 1..N, n - 1 \in T PROVE n \in T
  <2>1. n \in 0..N /\ n \in 1..Len(text) /\ Follows(D, E[n - 1], n - 1, text, room)
    BY <1>1, <1>4
  <2>2. StartsWith(in, E[n].out)
    BY <1>2, <2>1
  <2>3. Follows(D, E[n], n, text, room)
    BY <2>1, <2>2, DecodesByte
  <2> QED BY <2>1, <2>3
<1>5. \A n \in 0..N : n \in T
  <2> HIDE DEF T
  <2> QED BY <1>1, <1>3, <1>4, AllPasses
<1>6. N \in T
  <2>1. N \in 0..N
    BY <1>1
  <2> QED BY <1>5, <2>1, Zenon
<1> QED BY <1>6

\* The decoder has the whole text, or has found that it does not fit.
Done(d, text, room) ==
  /\ d \in DecoderState
  /\ Len(text) <= room => ~d.fail /\ d.out = text
  /\ Len(text) > room => d.fail

\* A decoder that has read every byte is done.
LEMMA DecodedWhole ==
  ASSUME NEW text \in Seq(Byte), NEW room \in Nat, NEW d, NEW v, NEW rem,
         Decoded(d, v, rem, Len(text), text, room)
  PROVE  Done(d, text, room)
<1>1. Len(text) \in Nat
  BY LenProperties
<1>2. SubSeq(text, 1, Len(text)) = text
  BY <1>1, SubSeqProperties, SeqEqual, LenProperties
<1>3. d \in DecoderState
  BY <1>1 DEF Decoded, DecoderIs, DecoderFailed
<1> QED BY <1>2, <1>3 DEF Decoded, DecoderIs, DecoderFailed, Done

\* Padding changes nothing.
LEMMA PaddingKeeps ==
  ASSUME NEW text, NEW room, NEW d, Done(d, text, room)
  PROVE  Done(DecodeSextet(d, EqualsSign, room), text, room)
<1>1. EqualsSign \notin {9, 10, 11, 12, 13, Space}
  BY DEF EqualsSign, Space
<1>2. d \in DecoderState
  BY DEF Done
<1>3. CASE d.stop
  BY <1>3 DEF DecodeSextet
<1>4. CASE ~d.stop
  <2>1. PICK e : e = [d EXCEPT !.stop = TRUE]
    OBVIOUS
  <2>2. DecodeSextet(d, EqualsSign, room) = e
    BY <1>1, <1>4, <2>1, Zenon DEF DecodeSextet
  <2>3. e \in DecoderState /\ e.fail = d.fail /\ e.out = d.out
    BY <1>2, <2>1 DEF DecoderState
  <2>4. Done(e, text, room)
    BY <2>3 DEF Done
  <2> QED BY <2>2, <2>4, Zenon
<1> QED BY <1>3, <1>4

\* How many characters the code of N bytes has before and after the padding.
Pads(N, k) ==
  k \in Nat /\ (4 - (k % 4)) % 4 \in 0..3 /\ k + ((4 - (k % 4)) % 4) = 4 * ((N + 2) \div 3)

\* How much padding there is for a number of bytes.
LEMMA CodeLength ==
  ASSUME NEW N \in Nat, NEW l \in Nat, NEW rem \in {0, 2, 4}, 6 * l + rem = 8 * N
  PROVE  Pads(N, IF rem = 0 THEN l ELSE l + 1)
<1>1. \A q \in Nat, k \in Nat : k = 4 * q => (4 - (k % 4)) % 4 = 0
  OBVIOUS
<1>2. \A q \in Nat, k \in Nat : k = 4 * q + 2 => (4 - (k % 4)) % 4 = 2
  OBVIOUS
<1>3. \A q \in Nat, k \in Nat : k = 4 * q + 3 => (4 - (k % 4)) % 4 = 1
  OBVIOUS
<1>4. \A q \in Nat : (3 * q + 2) \div 3 = q /\ (3 * q + 3) \div 3 = q + 1 /\ (3 * q + 4) \div 3 = q + 1
  OBVIOUS
<1>5. PICK k \in Nat : k = IF rem = 0 THEN l ELSE l + 1
  OBVIOUS
<1>6. PICK p : p = (4 - (k % 4)) % 4
  OBVIOUS
<1>7. CASE rem = 0
  <2>1. PICK q \in Nat : N = 3 * q /\ l = 4 * q
    <3>1. N \div 3 \in Nat /\ N = 3 * (N \div 3) /\ l = 4 * (N \div 3)
      BY <1>7
    <3> QED BY <3>1
  <2>2. k = 4 * q
    BY <1>5, <1>7, <2>1
  <2>3. p = 0
    BY <1>1, <1>6, <2>2, Zenon
  <2>4. N + 2 = 3 * q + 2
    BY <2>1
  <2>5. (N + 2) \div 3 = q
    BY <1>4, <2>4, Zenon
  <2>6. k + 0 = 4 * q
    BY <2>2
  <2> QED BY <1>5, <1>6, <2>3, <2>5, <2>6 DEF Pads
<1>8. CASE rem = 2
  <2>1. PICK q \in Nat : N = 3 * q + 1 /\ l = 4 * q + 1
    <3>1. N \div 3 \in Nat /\ N = 3 * (N \div 3) + 1 /\ l = 4 * (N \div 3) + 1
      BY <1>8
    <3> QED BY <3>1
  <2>2. k = 4 * q + 2
    BY <1>5, <1>8, <2>1
  <2>3. p = 2
    BY <1>2, <1>6, <2>2, Zenon
  <2>4. N + 2 = 3 * q + 3
    BY <2>1
  <2>5. (N + 2) \div 3 = q + 1
    BY <1>4, <2>4, Zenon
  <2>6. k + 2 = 4 * (q + 1)
    BY <2>2
  <2> QED BY <1>5, <1>6, <2>3, <2>5, <2>6 DEF Pads
<1>9. CASE rem = 4
  <2>1. PICK q \in Nat : N = 3 * q + 2 /\ l = 4 * q + 2
    <3>1. N \div 3 \in Nat /\ N = 3 * (N \div 3) + 2 /\ l = 4 * (N \div 3) + 2
      BY <1>9
    <3> QED BY <3>1
  <2>2. k = 4 * q + 3
    BY <1>5, <1>9, <2>1
  <2>3. p = 1
    BY <1>3, <1>6, <2>2, Zenon
  <2>4. N + 2 = 3 * q + 4
    BY <2>1
  <2>5. (N + 2) \div 3 = q + 1
    BY <1>4, <2>4, Zenon
  <2>6. k + 1 = 4 * (q + 1)
    BY <2>2
  <2> QED BY <1>5, <1>6, <2>3, <2>5, <2>6 DEF Pads
<1> QED BY <1>7, <1>8, <1>9

\* The last character of the code, which holds the bits that are left of the last byte.
Ends(code, s, text, N) ==
  /\ s.rem \in {0, 2, 4} /\ s.out \in Seq(Base64Chars) /\ 6 * Len(s.out) + s.rem = 8 * N
  /\ code \in Seq(Base64Chars) /\ StartsWith(code, s.out)
  /\ Len(code) = IF s.rem = 0 THEN Len(s.out) ELSE Len(s.out) + 1
  /\ s.rem = 0 => code = s.out
  /\ s.rem = 2 => N > 0 /\ code[Len(s.out) + 1] = EncTab((text[N] % 4) * 16)
  /\ s.rem = 4 => N > 0 /\ code[Len(s.out) + 1] = EncTab((text[N] % 16) * 4)

\* The last character has the bits that are left over.
LEMMA LastChar ==
  ASSUME NEW text \in Seq(Byte), NEW E, Encodes(E, text)
  PROVE  Ends(WithLast(E[Len(text)]), E[Len(text)], text, Len(text))
<1>1. PICK N, s, code :
        N \in Nat /\ N = Len(text) /\ N \in 0..Len(text) /\ s = E[N] /\ code = WithLast(s)
  BY LenProperties
<1>2. EncoderAt(s, N, text)
  BY <1>1 DEF Encodes
<1>3. /\ s \in EncoderState /\ s.rem \in {0, 2, 4} /\ s.out \in Seq(Base64Chars)
      /\ 6 * Len(s.out) + s.rem = 8 * N /\ Len(s.out) \in Nat
      /\ s.rem = 2 => N > 0 /\ s.v = text[N] % 4
      /\ s.rem = 4 => N > 0 /\ s.v = text[N] % 16
  BY <1>2, LenProperties DEF EncoderAt, EncoderState
<1>4. ASSUME s.rem = 0 PROVE Ends(code, s, text, N)
  <2>1. code = s.out
    BY <1>1, <1>4 DEF WithLast
  <2> QED BY <1>1, <1>3, <1>4, <2>1 DEF StartsWith, Ends
<1>5. ASSUME NEW x \in 0..63, s.rem # 0, code = Append(s.out, EncTab(x))
      PROVE  /\ code \in Seq(Base64Chars) /\ StartsWith(code, s.out) /\ Len(code) = Len(s.out) + 1
             /\ code[Len(s.out) + 1] = EncTab(x)
  <2>1. EncTab(x) \in Base64Chars
    BY Sextets
  <2> QED BY <1>3, <1>5, <2>1, AppendProperties DEF StartsWith
<1>6. ASSUME s.rem = 2 PROVE Ends(code, s, text, N)
  <2>1. PICK b \in 0..255 : b = text[N]
    <3>1. N \in 1..Len(text)
      BY <1>1, <1>3, <1>6
    <3> QED BY <3>1, ElementOfSeq DEF Byte
  <2>2. PICK x \in 0..63 : x = (b % 4) * 16
    OBVIOUS
  <2>3. code = Append(s.out, EncTab(x))
    <3>1. s.rem # 0 /\ Power(6 - s.rem) = 16 /\ s.v = b % 4
      BY <1>3, <1>6, <2>1 DEF Power
    <3> QED BY <1>1, <2>2, <3>1, Zenon DEF WithLast
  <2>4. s.rem # 0 /\ s.rem # 4
    BY <1>6
  <2>5. /\ code \in Seq(Base64Chars) /\ StartsWith(code, s.out) /\ Len(code) = Len(s.out) + 1
        /\ code[Len(s.out) + 1] = EncTab(x)
    BY <1>5, <2>3, <2>4, Zenon
  <2> QED BY <1>1, <1>3, <1>6, <2>1, <2>2, <2>4, <2>5, Zenon DEF Ends
<1>7. ASSUME s.rem = 4 PROVE Ends(code, s, text, N)
  <2>1. PICK b \in 0..255 : b = text[N]
    <3>1. N \in 1..Len(text)
      BY <1>1, <1>3, <1>7
    <3> QED BY <3>1, ElementOfSeq DEF Byte
  <2>2. PICK x \in 0..63 : x = (b % 16) * 4
    OBVIOUS
  <2>3. code = Append(s.out, EncTab(x))
    <3>1. s.rem # 0 /\ Power(6 - s.rem) = 4 /\ s.v = b % 16
      BY <1>3, <1>7, <2>1 DEF Power
    <3> QED BY <1>1, <2>2, <3>1, Zenon DEF WithLast
  <2>4. s.rem # 0 /\ s.rem # 2
    BY <1>7
  <2>5. /\ code \in Seq(Base64Chars) /\ StartsWith(code, s.out) /\ Len(code) = Len(s.out) + 1
        /\ code[Len(s.out) + 1] = EncTab(x)
    BY <1>5, <2>3, <2>4, Zenon
  <2> QED BY <1>1, <1>3, <1>7, <2>1, <2>2, <2>4, <2>5, Zenon DEF Ends
<1> QED BY <1>1, <1>3, <1>4, <1>6, <1>7, Zenon

\* The decoder is done after the last character, before the padding.
LEMMA DecodesCode ==
  ASSUME NEW text \in Seq(Byte), NEW E, Encodes(E, text), NEW code, code = WithLast(E[Len(text)]),
         NEW in, NEW D, NEW room \in Nat, Decodes(D, in, room), Len(in) \in Nat, StartsWith(in, code)
  PROVE  Done(D[Len(code)], text, room)
<1>1. PICK N, s : N \in Nat /\ N = Len(text) /\ s = E[N] /\ N \in 0..Len(text)
  BY LenProperties
<1>2. /\ s.rem \in {0, 2, 4} /\ s.out \in Seq(Base64Chars) /\ 6 * Len(s.out) + s.rem = 8 * N
      /\ code \in Seq(Base64Chars) /\ StartsWith(code, s.out)
      /\ Len(code) = IF s.rem = 0 THEN Len(s.out) ELSE Len(s.out) + 1
      /\ s.rem = 0 => code = s.out
      /\ s.rem = 2 => N > 0 /\ code[Len(s.out) + 1] = EncTab((text[N] % 4) * 16)
      /\ s.rem = 4 => N > 0 /\ code[Len(s.out) + 1] = EncTab((text[N] % 16) * 4)
  <2>1. Ends(code, s, text, N)
    <3>1. Ends(WithLast(E[Len(text)]), E[Len(text)], text, Len(text))
      BY LastChar
    <3> QED BY <1>1, <3>1, Zenon
  <2> QED BY <2>1, Zenon DEF Ends
<1>3. PICK l \in Nat : l = Len(s.out)
  BY <1>2, LenProperties
<1>4. Follows(D, s, N, text, room)
  <2>1. StartsWith(in, s.out)
    BY <1>2, <1>3 DEF StartsWith
  <2> QED BY <1>1, <2>1, DecodesAlong
<1>5. CASE s.rem = 0
  <2>1. Decoded(D[l], 0, 0, Len(text), text, room)
    BY <1>1, <1>3, <1>4, <1>5, Zenon DEF Follows
  <2>2. Done(D[l], text, room)
    BY <2>1, DecodedWhole
  <2> QED BY <1>2, <1>3, <1>5, <2>2
<1>6. ASSUME s.rem # 0
      PROVE  /\ Len(code) = l + 1 /\ l + 1 \in 1..Len(in) /\ in[l + 1] = code[l + 1]
             /\ N > 0 /\ N - 1 \in 0..Len(text) /\ N - 1 < Len(text) /\ N - 1 + 1 = N /\ 0 \in 0..63
             /\ N - 1 \in Int
  <2>1. Len(code) = l + 1 /\ N > 0
    BY <1>2, <1>3, <1>6
  <2>2. l + 1 \in 1..Len(in) /\ in[l + 1] = code[l + 1]
    BY <1>3, <2>1 DEF StartsWith
  <2>3. /\ N - 1 \in 0..Len(text) /\ N - 1 < Len(text) /\ N - 1 + 1 = N /\ 0 \in 0..63
        /\ N - 1 \in Int
    BY <1>1, <2>1
  <2> QED BY <2>1, <2>2, <2>3, Zenon
<1>7. CASE s.rem = 2
  <2>1. PICK b \in 0..255 : b = text[N]
    <3>1. N \in 1..Len(text)
      BY <1>1, <1>6, <1>7
    <3> QED BY <3>1, ElementOfSeq DEF Byte
  <2>2. PICK v \in 0..63, x \in 0..63 : /\ v = b \div 4 /\ x = (b % 4) * 16
                                        /\ 0 = (v * 64 + x) % 16 /\ b = (v * 64 + x) \div 16
    <3>1. PICK p \in 0..63, q \in 0..3 : b = 4 * p + q /\ p = b \div 4 /\ q = b % 4
      OBVIOUS
    <3>2. PICK x \in 0..63 : x = q * 16
      OBVIOUS
    <3>3. p * 64 + x = 16 * b
      BY <3>1, <3>2
    <3>4. (16 * b) % 16 = 0 /\ (16 * b) \div 16 = b
      OBVIOUS
    <3> QED BY <3>1, <3>2, <3>3, <3>4, Zenon
  <2>3. PICK k \in 0..Len(text) : k = N - 1 /\ k < Len(text) /\ k + 1 = N /\ k \in Int
    BY <1>6, <1>7
  <2>4. Decoded(D[l], v, 6, k, text, room)
    <3>1. Decoded(D[l], text[N] \div 4, 6, N - 1, text, room)
      BY <1>3, <1>4, <1>7, Zenon DEF Follows
    <3> QED BY <2>1, <2>2, <2>3, <3>1, Zenon
  <2>5. Len(code) = l + 1 /\ l + 1 \in 1..Len(in) /\ in[l + 1] = EncTab(x)
    <3>1. code[l + 1] = EncTab(x)
      BY <1>2, <1>3, <1>7, <2>1, <2>2, Zenon
    <3> QED BY <1>6, <1>7, <3>1
  <2>6. D[l + 1] = DecodeSextet(D[l], EncTab(x), room)
    <3>1. D[l] \in DecoderState
      BY <2>3, <2>4, DecodedIsState, Zenon
    <3> QED BY <2>5, <3>1, ReadsNext
  <2>7. Decoded(DecodeSextet(D[l], EncTab(x), room), 0, 6 - 2, k + 1, text, room)
    <3>1. 6 # 0 /\ 16 = Power(6 - 2) /\ 0 \in 0..63
      BY DEF Power
    <3>2. text[k + 1] = (v * 64 + x) \div 16 /\ 0 = (v * 64 + x) % 16
      BY <2>1, <2>2, <2>3, Zenon
    <3> QED BY <2>3, <2>4, <3>1, <3>2, DecodeMore, ZenonT(60)
  <2>8. Decoded(D[l + 1], 0, 6 - 2, Len(text), text, room)
    BY <1>1, <2>3, <2>6, <2>7, Zenon
  <2>9. Done(D[l + 1], text, room)
    BY <2>8, DecodedWhole, Zenon
  <2> QED BY <2>5, <2>9, Zenon
<1>8. CASE s.rem = 4
  <2>1. PICK b \in 0..255 : b = text[N]
    <3>1. N \in 1..Len(text)
      BY <1>1, <1>6, <1>8
    <3> QED BY <3>1, ElementOfSeq DEF Byte
  <2>2. PICK v \in 0..63, x \in 0..63 : /\ v = b \div 16 /\ x = (b % 16) * 4
                                        /\ 0 = (v * 64 + x) % 4 /\ b = (v * 64 + x) \div 4
    <3>1. PICK p \in 0..63, q \in 0..15 : b = 16 * p + q /\ p = b \div 16 /\ q = b % 16
      OBVIOUS
    <3>2. PICK x \in 0..63 : x = q * 4
      OBVIOUS
    <3>3. p * 64 + x = 4 * b
      BY <3>1, <3>2
    <3>4. (4 * b) % 4 = 0 /\ (4 * b) \div 4 = b
      OBVIOUS
    <3> QED BY <3>1, <3>2, <3>3, <3>4, Zenon
  <2>3. PICK k \in 0..Len(text) : k = N - 1 /\ k < Len(text) /\ k + 1 = N /\ k \in Int
    BY <1>6, <1>8
  <2>4. Decoded(D[l], v, 4, k, text, room)
    <3>1. Decoded(D[l], text[N] \div 16, 4, N - 1, text, room)
      BY <1>3, <1>4, <1>8, Zenon DEF Follows
    <3> QED BY <2>1, <2>2, <2>3, <3>1, Zenon
  <2>5. Len(code) = l + 1 /\ l + 1 \in 1..Len(in) /\ in[l + 1] = EncTab(x)
    <3>1. code[l + 1] = EncTab(x)
      BY <1>2, <1>3, <1>8, <2>1, <2>2, Zenon
    <3> QED BY <1>6, <1>8, <3>1
  <2>6. D[l + 1] = DecodeSextet(D[l], EncTab(x), room)
    <3>1. D[l] \in DecoderState
      BY <2>3, <2>4, DecodedIsState, Zenon
    <3> QED BY <2>5, <3>1, ReadsNext
  <2>7. Decoded(DecodeSextet(D[l], EncTab(x), room), 0, 4 - 2, k + 1, text, room)
    <3>1. 4 # 0 /\ 4 = Power(4 - 2) /\ 0 \in 0..63
      BY DEF Power
    <3>2. text[k + 1] = (v * 64 + x) \div 4 /\ 0 = (v * 64 + x) % 4
      BY <2>1, <2>2, <2>3, Zenon
    <3> QED BY <2>3, <2>4, <3>1, <3>2, DecodeMore, Zenon
  <2>8. Decoded(D[l + 1], 0, 4 - 2, Len(text), text, room)
    BY <1>1, <2>3, <2>6, <2>7, Zenon
  <2>9. Done(D[l + 1], text, room)
    BY <2>8, DecodedWhole, Zenon
  <2> QED BY <2>5, <2>9, Zenon
<1> QED BY <1>2, <1>5, <1>7, <1>8

\* A code that is cut does not become a text that fits.
LEMMA CutCode ==
  ASSUME NEW text \in Seq(Byte), NEW room \in Nat, room >= 2,
         NEW in \in Seq(Byte), Len(in) = 10 * room - 7, Len(in) < Len(Base64Encode(text)),
         Len(Base64Encode(text)) = 4 * ((Len(text) + 2) \div 3),
         \A i \in 1..Len(in) : in[i] = Base64Encode(text)[i]
  PROVE  Base64Decode(in, room) = NotFoundText /\ Len(text) > room
<1>1. PICK E : /\ Encodes(E, text)
               /\ Base64Encode(text) = WithLast(E[Len(text)]) \o Padding(WithLast(E[Len(text)]))
  BY EncodeRuns
<1>2. PICK N \in Nat, q \in Nat, n \in 0..Len(text), k \in Nat :
        /\ N = Len(text) /\ n = 3 * q /\ n > room /\ n <= N /\ N > room
        /\ k = Len(in) /\ 4 * q <= k
  <2>1. PICK N \in Nat : N = Len(text)
    BY LenProperties
  <2>2. PICK q \in Nat, c \in Nat : q = room \div 3 + 1 /\ c = (N + 2) \div 3
    OBVIOUS
  <2>3. 3 * q > room /\ 3 * q <= room + 3
    BY <2>2
  <2>4. 10 * room - 7 < 4 * c /\ 3 * c <= N + 2
    BY <2>1, <2>2
  <2>5. 3 * q <= N /\ N > room /\ 4 * q <= 10 * room - 7
    BY <2>3, <2>4
  <2>6. Len(in) \in Nat
    BY LenProperties
  <2> QED BY <2>1, <2>3, <2>5, <2>6, SMTT(30)
<1>3. PICK l \in Nat : l = Len(E[n].out) /\ E[n].rem = 0 /\ l = 4 * q /\ E[n].out \in Seq(Byte)
  <2>1. EncoderAt(E[n], n, text)
    BY <1>1 DEF Encodes
  <2>2. E[n].out \in Seq(Byte) /\ E[n].rem \in {0, 2, 4} /\ 6 * Len(E[n].out) + E[n].rem = 8 * n
    BY <2>1 DEF EncoderAt, EncoderState
  <2>3. PICK l \in Nat, rem \in {0, 2, 4} : l = Len(E[n].out) /\ rem = E[n].rem /\ 6 * l + rem = 24 * q
    <3>1. Len(E[n].out) \in Nat
      BY <2>2, LenProperties
    <3>2. 8 * n = 24 * q
      BY <1>2
    <3> QED BY <2>2, <3>1, <3>2, Zenon
  <2>4. rem = 0 /\ l = 4 * q
    <3>1. \A j \in Int : 6 * j # 2 /\ 6 * j # 4
      OBVIOUS
    <3>2. \A a \in Nat, b \in Nat, c \in {0, 2, 4} : 6 * a + c = 24 * b =>
            6 * (4 * b - a) = c /\ 4 * b - a \in Int /\ (c = 0 => a = 4 * b)
      OBVIOUS
    <3>3. 6 * (4 * q - l) = rem /\ 4 * q - l \in Int /\ (rem = 0 => l = 4 * q)
      BY <2>3, <3>2, ZenonT(60)
    <3>4. rem # 2 /\ rem # 4
      BY <3>1, <3>3, Zenon
    <3> QED BY <3>3, <3>4
  <2> QED BY <2>2, <2>3, <2>4, Zenon
<1>4. StartsWith(in, E[n].out)
  <2>1. PICK s, code, all : s = E[N] /\ code = WithLast(s) /\ all = Base64Encode(text)
    OBVIOUS
  <2>2. code \in Seq(Base64Chars) /\ StartsWith(code, s.out)
    <3>1. Ends(WithLast(E[Len(text)]), E[Len(text)], text, Len(text))
      BY <1>1, LastChar
    <3>2. Ends(code, s, text, N)
      BY <1>2, <2>1, <3>1, Zenon
    <3> QED BY <3>2, Zenon DEF Ends
  <2>3. StartsWith(s.out, E[n].out) /\ s.out \in Seq(Byte)
    <3>1. N \in 0..Len(text) /\ n \in 0..N
      BY <1>2
    <3> QED BY <1>1, <2>1, <3>1, CodeGrows
  <2>4. Len(code) \in Nat /\ Len(s.out) \in Nat
    BY <2>2, <2>3, LenProperties
  <2>5. StartsWith(code, E[n].out)
    BY <1>3, <2>2, <2>3, <2>4, BeginsTransitive
  <2>6. StartsWith(all, code)
    <3>1. PICK pad \in Seq(Byte) : pad = Padding(code)
      <4>1. Padding(code) \in Seq(Byte)
        <5>1. (4 - (Len(code) % 4)) % 4 \in Nat /\ EqualsSign \in Byte
          BY <2>4 DEF EqualsSign, Byte
        <5> QED BY <5>1 DEF Padding
      <4> QED BY <4>1
    <3>2. code \in Seq(Byte)
      BY <2>2 DEF Base64Chars, Byte
    <3>3. all = code \o pad
      BY <1>1, <1>2, <2>1, <3>1, Zenon
    <3>4. /\ Len(code \o pad) = Len(code) + Len(pad)
          /\ \A i \in 1..Len(code) + Len(pad) :
               (code \o pad)[i] = IF i <= Len(code) THEN code[i] ELSE pad[i - Len(code)]
      BY <3>1, <3>2, ConcatProperties
    <3>5. Len(pad) \in Nat
      BY LenProperties
    <3> QED BY <2>4, <3>3, <3>4, <3>5 DEF StartsWith
  <2>7. \A i \in 1..l : i \in 1..Len(code) /\ i \in 1..k /\ code[i] = E[n].out[i]
    <3>1. l <= Len(code) /\ \A i \in 1..l : code[i] = E[n].out[i]
      BY <1>3, <2>5, Zenon DEF StartsWith
    <3>2. l <= k
      BY <1>2, <1>3
    <3>3. PICK j \in Nat, m \in Nat : j = Len(code) /\ m = k /\ l <= j /\ l <= m /\ l \in Nat
      BY <1>2, <1>3, <2>4, <3>1, <3>2
    <3>4. \A i \in 1..l : i \in 1..j /\ i \in 1..m
      BY <3>3
    <3> QED BY <3>1, <3>3, <3>4, Zenon
  <2>8. \A i \in 1..l : in[i] = E[n].out[i]
    BY <1>2, <2>1, <2>6, <2>7 DEF StartsWith
  <2>9. l <= k
    BY <1>2, <1>3
  <2> QED BY <1>2, <1>3, <2>8, <2>9 DEF StartsWith
<1>5. PICK D : /\ Decodes(D, in, room)
               /\ Base64Decode(in, room) =
                     IF D[Len(in)].fail THEN NotFoundText
                     ELSE [len |-> Len(D[Len(in)].out), text |-> D[Len(in)].out]
  BY DecodeRuns
<1>6. DecoderFailed(D[l])
  <2>1. Follows(D, E[n], n, text, room)
    <3>1. Len(in) \in Nat
      BY LenProperties
    <3> QED BY <1>1, <1>4, <1>5, <3>1, DecodesAlong
  <2>2. Decoded(D[l], 0, 0, n, text, room)
    BY <1>3, <2>1, Zenon DEF Follows
  <2> QED BY <1>2, <2>2 DEF Decoded
<1>7. PICK r \in Nat : k = l + r
  <2>1. k - l \in Nat /\ k = l + (k - l)
    BY <1>2, <1>3
  <2> QED BY <2>1
<1> DEFINE T == {j \in 0..r : DecoderFailed(D[l + j])}
<1>8. 0 \in T
  BY <1>6
<1>9. ASSUME NEW j \in 1..r, j - 1 \in T PROVE j \in T
  <2>1. PICK m \in Nat : m = l + (j - 1) /\ m + 1 = l + j /\ m + 1 \in 1..Len(in) /\ DecoderFailed(D[m])
    BY <1>2, <1>7, <1>9
  <2>2. D[m] \in DecoderState
    BY <2>1 DEF DecoderFailed
  <2>3. D[m + 1] = DecodeSextet(D[m], in[m + 1], room)
    BY <1>5, <2>1, <2>2, ReadsNext
  <2>4. D[m + 1] = D[m]
    BY <2>1, <2>3, FailedStays
  <2> QED BY <2>1, <2>4
<1>10. DecoderFailed(D[k])
  <2>1. \A j \in 0..r : j \in T
    <3> HIDE DEF T
    <3> QED BY <1>8, <1>9, AllPasses
  <2> QED BY <1>7, <2>1
<1> QED BY <1>2, <1>5, <1>10 DEF DecoderFailed

\* What base64_encode makes of a text, base64_decode turns back into it, unless it does not
\* fit, whatever the text.
THEOREM Base64RoundTrip ==
  ASSUME NEW text \in Seq(Byte), NEW room \in Nat
  PROVE  /\ Base64Encode(text) \in Seq(33..126)
         /\ Len(Base64Encode(text)) = 4 * ((Len(text) + 2) \div 3)
         /\ Base64Decode(Base64Encode(text), room) =
              IF Len(text) <= room THEN [len |-> Len(text), text |-> text] ELSE NotFoundText
<1>1. PICK E : /\ Encodes(E, text)
               /\ Base64Encode(text) = WithLast(E[Len(text)]) \o Padding(WithLast(E[Len(text)]))
  BY EncodeRuns
<1>2. PICK N, s, code, pad, in :
        /\ N \in Nat /\ N = Len(text) /\ s = E[N] /\ code = WithLast(s) /\ pad = Padding(code)
        /\ in = code \o pad /\ in = Base64Encode(text)
  BY <1>1, LenProperties, Zenon
<1>3. PICK l \in Nat, lc \in Nat, p \in 0..3 :
        /\ code \in Seq(Base64Chars) /\ lc = Len(code) /\ p = (4 - (lc % 4)) % 4
        /\ lc + p = 4 * ((N + 2) \div 3)
  <2>1. /\ s.rem \in {0, 2, 4} /\ s.out \in Seq(Base64Chars) /\ 6 * Len(s.out) + s.rem = 8 * N
        /\ code \in Seq(Base64Chars)
        /\ Len(code) = IF s.rem = 0 THEN Len(s.out) ELSE Len(s.out) + 1
    <3>1. Ends(WithLast(E[Len(text)]), E[Len(text)], text, Len(text))
      BY <1>1, LastChar
    <3>2. Ends(code, s, text, N)
      BY <1>2, <3>1, Zenon
    <3> QED BY <3>2, Zenon DEF Ends
  <2>2. PICK k \in Nat, rem \in {0, 2, 4} :
          /\ k = Len(s.out) /\ rem = s.rem
          /\ 6 * k + rem = 8 * N /\ Len(code) = IF rem = 0 THEN k ELSE k + 1
    BY <2>1, LenProperties, Zenon
  <2>3. /\ Len(code) \in Nat /\ (4 - (Len(code) % 4)) % 4 \in 0..3
        /\ Len(code) + ((4 - (Len(code) % 4)) % 4) = 4 * ((N + 2) \div 3)
    <3>1. N \in Nat /\ 6 * k + rem = 8 * N
      BY <1>2, <2>2, Zenon
    <3>4. Pads(N, IF rem = 0 THEN k ELSE k + 1)
      BY <3>1, CodeLength
    <3>2. Pads(N, Len(code))
      BY <2>2, <3>4, Zenon
    <3> QED BY <3>2, Zenon DEF Pads
  <2> QED BY <2>1, <2>3, Zenon
<1>4. /\ pad \in Seq({EqualsSign}) /\ Len(pad) = p /\ \A k \in 1..p : pad[k] = EqualsSign
  <2>1. pad = [k \in 1..p |-> EqualsSign]
    BY <1>2, <1>3, Zenon DEF Padding
  <2> QED BY <2>1
<1>5. /\ in \in Seq(33..126) /\ in \in Seq(Byte) /\ Len(in) = lc + p
      /\ \A k \in 1..lc : in[k] = code[k]
      /\ \A k \in 1..p : in[lc + k] = EqualsSign
  <2>1. code \in Seq(33..126) /\ pad \in Seq(33..126)
    BY <1>3, <1>4 DEF Base64Chars, EqualsSign
  <2>2. code \in Seq(Byte) /\ pad \in Seq(Byte)
    BY <2>1 DEF Byte
  <2>3. in \in Seq(33..126) /\ in \in Seq(Byte)
    <3>1. code \o pad \in Seq(33..126) /\ code \o pad \in Seq(Byte)
      BY <2>1, <2>2, ConcatProperties, Zenon
    <3> QED BY <1>2, <3>1, Zenon
  <2>4. Len(in) = lc + p /\ \A k \in 1..lc + p : in[k] = IF k <= lc THEN code[k] ELSE pad[k - lc]
    <3>1. /\ Len(code \o pad) = Len(code) + Len(pad)
          /\ \A k \in 1..Len(code) + Len(pad) :
               (code \o pad)[k] = IF k <= Len(code) THEN code[k] ELSE pad[k - Len(code)]
      BY <2>1, ConcatProperties
    <3>2. in = code \o pad /\ Len(code) = lc /\ Len(pad) = p
      BY <1>2, <1>3, <1>4, Zenon
    <3> QED BY <3>1, <3>2, Zenon
  <2>5. \A k \in 1..lc : in[k] = code[k]
    BY <2>4
  <2>6. \A k \in 1..p : in[lc + k] = EqualsSign
    BY <1>4, <2>4
  <2> QED BY <2>3, <2>4, <2>5, <2>6
<1>6. PICK D : /\ Decodes(D, in, room)
               /\ Base64Decode(in, room) =
                     IF D[Len(in)].fail THEN NotFoundText
                     ELSE [len |-> Len(D[Len(in)].out), text |-> D[Len(in)].out]
  BY <1>5, DecodeRuns
<1> DEFINE T == {j \in 0..p : Done(D[lc + j], text, room)}
<1>7. 0 \in T
  <2>1. StartsWith(in, code) /\ Len(in) \in Nat
    BY <1>3, <1>5 DEF StartsWith
  <2>2. Done(D[Len(code)], text, room)
    BY <1>1, <1>2, <1>6, <2>1, DecodesCode
  <2> QED BY <1>3, <2>2
<1>8. ASSUME NEW j \in 1..p, j - 1 \in T PROVE j \in T
  <2>1. PICK m \in Nat : m = lc + (j - 1) /\ m + 1 = lc + j /\ m + 1 \in 1..Len(in) /\ Done(D[m], text, room)
    BY <1>5, <1>8
  <2>2. D[m] \in DecoderState /\ in[m + 1] = EqualsSign
    BY <1>5, <2>1 DEF Done
  <2>3. D[m + 1] = DecodeSextet(D[m], EqualsSign, room)
    BY <1>6, <2>1, <2>2, ReadsNext
  <2>4. Done(D[m + 1], text, room)
    BY <2>1, <2>3, PaddingKeeps
  <2> QED BY <2>1, <2>4
<1>9. Done(D[Len(in)], text, room)
  <2>1. \A j \in 0..p : j \in T
    <3>1. p \in Nat
      OBVIOUS
    <3> HIDE DEF T
    <3> QED BY <1>7, <1>8, <3>1, AllPasses
  <2> QED BY <1>5, <2>1
<1>10. Base64Decode(in, room) = IF N <= room THEN [len |-> N, text |-> text] ELSE NotFoundText
  <2>1. CASE N <= room
    <3>1. ~D[Len(in)].fail /\ D[Len(in)].out = text
      BY <1>2, <1>9, <2>1 DEF Done
    <3> QED BY <1>2, <1>6, <2>1, <3>1, Zenon
  <2>2. CASE ~(N <= room)
    <3>1. D[Len(in)].fail
      BY <1>2, <1>9, <2>2 DEF Done
    <3> QED BY <1>6, <2>2, <3>1, Zenon
  <2> QED BY <2>1, <2>2
<1> QED BY <1>2, <1>3, <1>5, <1>10

-----------------------------------------------------------------------------
(* The check of a password                                                  *)

\* Cutting a concatenation where it was put together.
LEMMA Halves ==
  ASSUME NEW S, NEW s \in Seq(S), NEW t \in Seq(S)
  PROVE  /\ s \o t \in Seq(S) /\ Len(s \o t) = Len(s) + Len(t)
         /\ SubSeq(s \o t, 1, Len(s)) = s
         /\ SubSeq(s \o t, Len(s) + 1, Len(s) + Len(t)) = t
<1> DEFINE w == s \o t
<1>1. /\ w \in Seq(S) /\ Len(w) = Len(s) + Len(t) /\ Len(s) \in Nat /\ Len(t) \in Nat
      /\ \A i \in 1..Len(s) + Len(t) : w[i] = IF i <= Len(s) THEN s[i] ELSE t[i - Len(s)]
  BY ConcatProperties, LenProperties
<1>2. \A i \in 1..Len(w) : w[i] \in S
  BY <1>1, ElementOfSeq
<1> HIDE DEF w
<1>3. SubSeq(w, 1, Len(s)) = s
  <2>1. /\ SubSeq(w, 1, Len(s)) \in Seq(S) /\ Len(SubSeq(w, 1, Len(s))) = Len(s)
        /\ \A i \in 1..Len(s) : SubSeq(w, 1, Len(s))[i] = w[i]
    BY <1>1, <1>2, SubSeqProperties
  <2>2. \A i \in 1..Len(s) : SubSeq(w, 1, Len(s))[i] = s[i]
    BY <1>1, <2>1
  <2> QED
    BY <2>1, <2>2, SeqEqual
<1>4. SubSeq(w, Len(s) + 1, Len(s) + Len(t)) = t
  <2> DEFINE u == SubSeq(w, Len(s) + 1, Len(s) + Len(t))
  <2>1. /\ u \in Seq(S) /\ Len(u) = Len(t)
        /\ \A i \in 1..Len(t) : u[i] = w[Len(s) + 1 + i - 1]
    BY <1>1, <1>2, SubSeqProperties
  <2> HIDE DEF u
  <2>2. ASSUME NEW i \in 1..Len(t) PROVE u[i] = t[i]
    <3>1. Len(s) + 1 + i - 1 = Len(s) + i /\ Len(s) + i \in 1..Len(s) + Len(t)
          /\ ~(Len(s) + i <= Len(s)) /\ Len(s) + i - Len(s) = i
      BY <1>1
    <3>2. w[Len(s) + i] = t[i]
      BY <1>1, <3>1
    <3> QED
      BY <2>1, <3>1, <3>2
  <2>3. u = t
    BY <2>1, <2>2, SeqEqual
  <2> QED
    BY <2>3 DEF u
<1> QED
  BY <1>1, <1>3, <1>4 DEF w

\* The least element of a set of numbers is unique.
LEMMA LeastIs ==
  ASSUME NEW S \in SUBSET Nat, NEW m \in S, \A k \in S : m <= k
  PROVE  Least(S) = m
<1> DEFINE P(x) == \A y \in S : x <= y
<1>1. P(m)
  OBVIOUS
<1>2. \A x \in S : P(x) => x = m
  OBVIOUS
<1>3. Least(S) \in S /\ P(Least(S))
  BY <1>1 DEF Least
<1> QED
  BY <1>2, <1>3

\* A header is found in a line that begins with its name, a colon and a space, and is cut
\* to the room there is.
CutTo(value, room) == SubSeq(value, 1, IF Len(value) < room THEN Len(value) ELSE room - 1)

\* httpdGetHeader finds a line of the head by its name, and cuts it to the room.
LEMMA HeaderFound ==
  ASSUME NEW name \in Seq(33..126), Len(name) > 0,
         NEW value \in Seq(Nat), Len(value) > 0, value[1] # Space,
         \A k \in 1..Len(value) : value[k] \notin {CR, LF},
         NEW room
  PROVE  GetHeader(<<Append(name, Colon) \o (<<Space>> \o value)>>, name, room)
           = [len |-> Len(CutTo(value, room)), text |-> CutTo(value, room)]
<1>0. PICK kept : kept = CutTo(value, room)
  OBVIOUS
<1> SUFFICES ASSUME NEW l, l = Append(name, Colon) \o (<<Space>> \o value)
             PROVE  GetHeader(<<l>>, name, room) = [len |-> Len(kept), text |-> kept]
  BY <1>0
<1> DEFINE Begins(ln) == {k \in DOMAIN ln : ln[k] > 32}
           Start(ln) == IF Begins(ln) = {} THEN <<>> ELSE SubSeq(ln, Least(Begins(ln)), Len(ln))
           found == {n \in DOMAIN <<l>> : At(Start(<<l>>[n]), 1, Append(name, Colon))}
           line == Start(<<l>>[Least(found)])
           after == SubSeq(line, Len(name) + 2, Len(line))
           text == {k \in DOMAIN after : after[k] # Space}
           shown == IF text = {} THEN <<>> ELSE UpTo(after, Least(text), {CR, LF})
           cut == SubSeq(shown, 1, IF Len(shown) < room THEN Len(shown) ELSE room - 1)
<1>1. GetHeader(<<l>>, name, room)
        = IF found = {} THEN NotFoundText ELSE [len |-> Len(cut), text |-> cut]
  BY Zenon DEF GetHeader
<1>2. /\ name \in Seq(Nat) /\ Append(name, Colon) \in Seq(Nat)
      /\ Len(Append(name, Colon)) = Len(name) + 1 /\ Append(name, Colon)[1] = name[1]
  <2>1. name \in Seq(Nat)
    <3>1. 33..126 \subseteq Nat
      OBVIOUS
    <3> QED
      BY <3>1, SeqMonotonic
  <2> QED
    BY <2>1, AppendProperties, LenProperties DEF Colon
<1>3. /\ <<Space>> \o value \in Seq(Nat) /\ Len(<<Space>> \o value) = Len(value) + 1
      /\ SubSeq(<<Space>> \o value, 2, Len(value) + 1) = value
      /\ (<<Space>> \o value)[1] = Space /\ (<<Space>> \o value)[2] = value[1]
  <2>1. <<Space>> \in Seq(Nat) /\ Len(<<Space>>) = 1 /\ <<Space>>[1] = Space
    BY DEF Space
  <2>2. Len(value) \in Nat
    BY LenProperties
  <2> QED
    BY <2>1, <2>2, Halves, ConcatProperties
<1>4. /\ l \in Seq(Nat) /\ Len(l) = Len(name) + 1 + (Len(value) + 1)
      /\ SubSeq(l, 1, Len(name) + 1) = Append(name, Colon)
      /\ SubSeq(l, Len(name) + 2, Len(l)) = <<Space>> \o value
      /\ l[1] = name[1]
  <2>1. Len(name) \in Nat /\ Len(value) \in Nat
    BY LenProperties
  <2>2. PICK s \in Seq(Nat), t \in Seq(Nat) :
          s = Append(name, Colon) /\ t = <<Space>> \o value
    BY <1>2, <1>3
  <2>3. /\ s \o t \in Seq(Nat) /\ Len(s \o t) = Len(s) + Len(t)
        /\ SubSeq(s \o t, 1, Len(s)) = s
        /\ SubSeq(s \o t, Len(s) + 1, Len(s) + Len(t)) = t
    BY Halves
  <2>4. Len(s) = Len(name) + 1 /\ Len(t) = Len(value) + 1 /\ l = s \o t
    BY <1>2, <1>3, <2>2
  <2>5. Len(s) + 1 = Len(name) + 2
    BY <2>1, <2>4
  <2>6. \A i \in 1..Len(s) + Len(t) :
          (s \o t)[i] = IF i <= Len(s) THEN s[i] ELSE t[i - Len(s)]
    BY ConcatProperties
  <2>7. l[1] = s[1]
    BY <2>1, <2>4, <2>6
  <2> QED
    BY <1>2, <2>2, <2>3, <2>4, <2>5, <2>7
<1>5. Start(l) = l
  <2>1. name[1] > 32 /\ DOMAIN l = 1..Len(l) /\ Len(l) \in Nat /\ 1 \in 1..Len(l)
    <3>1. Len(name) \in Nat /\ Len(value) \in Nat /\ 1 \in 1..Len(name)
      BY LenProperties
    <3>2. name[1] \in 33..126
      BY <3>1, ElementOfSeq
    <3>3. \A c \in 33..126 : c > 32
      OBVIOUS
    <3>4. DOMAIN l = 1..Len(l)
      BY <1>4, LenProperties
    <3>5. Len(l) \in Nat /\ 1 \in 1..Len(l)
      BY <1>4, <3>1
    <3> QED
      BY <3>2, <3>3, <3>4, <3>5, Zenon
  <2>2. 1 \in Begins(l) /\ Begins(l) \subseteq Nat /\ \A k \in Begins(l) : 1 <= k
    BY <1>4, <2>1
  <2>3. Least(Begins(l)) = 1
    <3> HIDE DEF Begins
    <3> QED
      BY <2>2, LeastIs
  <2>4. Start(l) = SubSeq(l, 1, Len(l))
    BY <2>2, <2>3, Zenon
  <2> QED
    BY <1>4, <2>4, SubSeqFull
<1>6. found = {1} /\ line = l
  <2> HIDE DEF Start
  <2>1. At(l, 1, Append(name, Colon))
    <3>1. Len(name) \in Nat /\ Len(value) \in Nat
      BY LenProperties
    <3>2. 1 + Len(Append(name, Colon)) - 1 = Len(name) + 1 /\ Len(name) + 1 <= Len(l)
      BY <1>2, <1>4, <3>1
    <3> QED
      BY <1>4, <3>2 DEF At
  <2>2. DOMAIN <<l>> = {1} /\ <<l>>[1] = l
    OBVIOUS
  <2>3. found = {1}
    BY <1>5, <2>1, <2>2
  <2>4. Least({1}) = 1
    BY DEF Least
  <2> QED
    BY <1>5, <2>2, <2>3, <2>4
<1>7. after = <<Space>> \o value
  BY <1>4, <1>6
<1>8. shown = value
  <2> HIDE DEF after
  <2>1. Len(value) \in Nat /\ Space \in Nat
    BY LenProperties DEF Space
  <2>2. DOMAIN after = 1..Len(value) + 1 /\ Len(after) = Len(value) + 1
        /\ after[1] = Space /\ after[2] = value[1]
    BY <1>3, <1>7, LenProperties
  <2>3. 2 \in text /\ text \subseteq Nat /\ \A k \in text : 2 <= k
    BY <2>1, <2>2
  <2>4. Least(text) = 2
    <3> HIDE DEF text
    <3> QED
      BY <2>3, LeastIs
  <2>5. shown = UpTo(after, 2, {CR, LF})
    BY <2>3, <2>4, Zenon
  <2> HIDE DEF shown, text
  <2>6. {k \in 2..Len(after) : after[k] \in {CR, LF}} = {}
    <3>1. ASSUME NEW k \in 2..Len(after) PROVE after[k] \notin {CR, LF}
      <4>1. k - 1 \in 1..Len(value) /\ k \in 1..1 + Len(value) /\ ~(k <= 1)
        BY <2>1, <2>2, <3>1
      <4>2. after[k] = value[k - 1]
        <5>1. <<Space>> \in Seq(Nat) /\ Len(<<Space>>) = 1
          BY DEF Space
        <5>2. \A i \in 1..1 + Len(value) :
                (<<Space>> \o value)[i] = IF i <= 1 THEN <<Space>>[i] ELSE value[i - 1]
          BY <5>1, ConcatProperties
        <5> QED
          BY <1>7, <4>1, <5>2
      <4> QED
        BY <4>1, <4>2
    <3> QED
      BY <3>1
  <2>7. shown = SubSeq(after, 2, Len(after) + 1 - 1)
    BY <2>5, <2>6 DEF UpTo
  <2>8. Len(after) + 1 - 1 = Len(value) + 1
    BY <2>1, <2>2
  <2> QED
    BY <1>3, <1>7, <2>7, <2>8
<1>9. cut = kept
  <2> HIDE DEF shown
  <2> QED
    BY <1>0, <1>8, Zenon DEF CutTo
<1> HIDE DEF found, cut
<1> QED
  BY <1>0, <1>1, <1>6, <1>9

\* Putting three texts together from the left or from the right.
LEMMA Associates ==
  ASSUME NEW s \in Seq(Nat), NEW t \in Seq(Nat), NEW u \in Seq(Nat),
         NEW a \in Seq(Nat), a = s \o t, NEW b \in Seq(Nat), b = t \o u
  PROVE  a \o u = s \o b
<1>1. PICK l \in Seq(Nat), r \in Seq(Nat) : l = a \o u /\ r = s \o b
  <2>1. a \o u \in Seq(Nat) /\ s \o b \in Seq(Nat)
    BY ConcatProperties
  <2> QED
    BY <2>1, Zenon
<1>2. PICK i \in Nat, j \in Nat, k \in Nat : i = Len(s) /\ j = Len(t) /\ k = Len(u)
  BY LenProperties
<1>3. /\ Len(a) = i + j /\ \A n \in 1..i + j : a[n] = IF n <= i THEN s[n] ELSE t[n - i]
  BY <1>2, ConcatProperties
<1>4. /\ Len(b) = j + k /\ \A n \in 1..j + k : b[n] = IF n <= j THEN t[n] ELSE u[n - j]
  BY <1>2, ConcatProperties
<1>5. /\ Len(l) = i + j + k
      /\ \A n \in 1..i + j + k : l[n] = IF n <= i + j THEN a[n] ELSE u[n - (i + j)]
  <2>1. /\ Len(l) = Len(a) + Len(u)
        /\ \A n \in 1..Len(a) + Len(u) : l[n] = IF n <= Len(a) THEN a[n] ELSE u[n - Len(a)]
    BY <1>1, ConcatProperties
  <2>2. Len(a) = i + j
    BY <1>3
  <2> QED
    BY <1>2, <2>1, <2>2, Zenon
<1>6. /\ Len(r) = i + j + k
      /\ \A n \in 1..i + j + k : r[n] = IF n <= i THEN s[n] ELSE b[n - i]
  <2>1. /\ Len(r) = Len(s) + Len(b)
        /\ \A n \in 1..Len(s) + Len(b) : r[n] = IF n <= Len(s) THEN s[n] ELSE b[n - Len(s)]
    BY <1>1, ConcatProperties
  <2>2. Len(b) = j + k /\ i + (j + k) = i + j + k
    BY <1>4
  <2> QED
    BY <1>2, <2>1, <2>2, Zenon
<1>7. ASSUME NEW n \in 1..i + j + k PROVE l[n] = r[n]
  <2>1. CASE n <= i
    <3>1. n \in 1..i + j /\ n <= i + j
      BY <2>1
    <3>2. l[n] = a[n] /\ a[n] = s[n] /\ r[n] = s[n]
      BY <1>3, <1>5, <1>6, <2>1, <3>1, Zenon
    <3> QED
      BY <3>2
  <2>2. CASE ~(n <= i) /\ n <= i + j
    <3>1. n \in 1..i + j /\ n - i \in 1..j + k /\ n - i <= j
      BY <2>2
    <3>2. l[n] = a[n] /\ a[n] = t[n - i] /\ r[n] = b[n - i] /\ b[n - i] = t[n - i]
      BY <1>3, <1>4, <1>5, <1>6, <2>2, <3>1, Zenon
    <3> QED
      BY <3>2
  <2>3. CASE ~(n <= i + j)
    <3>1. ~(n <= i) /\ n - i \in 1..j + k /\ ~(n - i <= j) /\ n - (i + j) = n - i - j
      BY <2>3
    <3>2. l[n] = u[n - (i + j)] /\ r[n] = b[n - i] /\ b[n - i] = u[n - i - j]
      BY <1>4, <1>5, <1>6, <2>3, <3>1, Zenon
    <3> QED
      BY <3>1, <3>2
  <2> QED
    BY <2>1, <2>2, <2>3
<1>8. l = r
  BY <1>5, <1>6, <1>7, SeqEqual
<1> QED
  BY <1>1, <1>8

IsJoin(w, s, t) == s \in Seq(Nat) /\ t \in Seq(Nat) /\ w = s \o t

\* Joining sequences is associative.
LEMMA JoinsAssociate ==
  \A s, t, u, a, b, w : IsJoin(a, s, t) /\ IsJoin(b, t, u) =>
    (IsJoin(w, a, u) <=> IsJoin(w, s, b))
<1>1. TAKE s, t, u, a, b, w
<1>2. HAVE IsJoin(a, s, t) /\ IsJoin(b, t, u)
<1>3. /\ s \in Seq(Nat) /\ t \in Seq(Nat) /\ u \in Seq(Nat) /\ a = s \o t /\ b = t \o u
  BY <1>2 DEF IsJoin
<1>4. s \o t \in Seq(Nat) /\ t \o u \in Seq(Nat)
  BY <1>3, ConcatProperties
<1>5. a \in Seq(Nat) /\ b \in Seq(Nat)
  BY <1>3, <1>4, Zenon
<1>6. a \o u = s \o b
  BY <1>3, <1>5, Associates, SMTT(30)
<1> QED
  BY <1>3, <1>5, <1>6, Zenon DEF IsJoin

\* The parts of a login.
LEMMA LoginParts ==
  ASSUME NEW c \in Credential
  PROVE  /\ Login(c) \in Seq(Byte) /\ Login(c) \in Seq(Nat)
         /\ c.user \in Seq(Byte) /\ c.pass \in Seq(Byte)
         /\ Len(c.user) \in Nat /\ Len(c.pass) \in Nat
         /\ Len(Login(c)) = Len(c.user) + 1 + Len(c.pass)
         /\ SubSeq(Login(c), 1, Len(c.user)) = c.user
         /\ \A i \in 1..Len(c.user) : Login(c)[i] = c.user[i]
         /\ Login(c)[Len(c.user) + 1] = Colon
         /\ SubSeq(Login(c), Len(c.user) + 2, Len(Login(c))) = c.pass
<1>1. PICK a \in Seq(Byte), b \in Seq(Byte), d \in Seq(Byte) :
        /\ a = c.user /\ b = c.pass /\ d = <<Colon>> /\ Len(d) = 1 /\ d[1] = Colon
  <2>1. c.user \in Seq(Byte) /\ c.pass \in Seq(Byte)
    <3>1. c.user \in Seq(1..255) /\ c.pass \in Seq(1..255)
      BY DEF Credential, Text
    <3>2. 1..255 \subseteq Byte
      BY DEF Byte
    <3> QED BY <3>1, <3>2, SeqMonotonic
  <2>2. <<Colon>> \in Seq(Byte) /\ Len(<<Colon>>) = 1 /\ <<Colon>>[1] = Colon
    BY DEF Colon, Byte
  <2> QED
    BY <2>1, <2>2, Zenon
<1>2. PICK m \in Nat, n \in Nat : m = Len(a) /\ n = Len(b)
  BY LenProperties
<1>3. PICK e \in Seq(Byte) : e = a \o d
  BY ConcatProperties
<1>4. Len(e) = m + 1 /\ \A i \in 1..m + 1 : e[i] = IF i <= m THEN a[i] ELSE d[i - m]
  <2>1. /\ Len(e) = Len(a) + Len(d)
        /\ \A i \in 1..Len(a) + Len(d) : e[i] = IF i <= Len(a) THEN a[i] ELSE d[i - Len(a)]
    BY <1>3, ConcatProperties
  <2> QED
    BY <1>1, <1>2, <2>1, Zenon
<1>5. PICK w \in Seq(Byte) : w = e \o b
  BY ConcatProperties
<1>6. /\ Len(w) = m + 1 + n
      /\ \A i \in 1..m + 1 + n : w[i] = IF i <= m + 1 THEN e[i] ELSE b[i - (m + 1)]
  <2>1. /\ Len(w) = Len(e) + Len(b)
        /\ \A i \in 1..Len(e) + Len(b) : w[i] = IF i <= Len(e) THEN e[i] ELSE b[i - Len(e)]
    BY <1>5, ConcatProperties
  <2> QED
    BY <1>2, <1>4, <2>1, Zenon
<1>7. SubSeq(w, m + 2, Len(w)) = b
  <2>1. SubSeq(w, Len(e) + 1, Len(e) + Len(b)) = b
    BY <1>5, Halves
  <2>2. Len(e) + 1 = m + 2
    BY <1>4
  <2> QED
    BY <1>2, <1>4, <1>6, <2>1, <2>2, Zenon
<1>8. \A i \in 1..m : w[i] = a[i]
  <2>1. \A i \in 1..m : i \in 1..m + 1 /\ i \in 1..m + 1 + n /\ i <= m /\ i <= m + 1
    OBVIOUS
  <2> QED
    BY <1>4, <1>6, <2>1, Zenon
<1>9. w[m + 1] = Colon
  <2>1. PICK k \in Nat : k = m + 1
    OBVIOUS
  <2>2. /\ k \in 1..m + 1 /\ k \in 1..m + 1 + n /\ ~(k <= m) /\ k <= m + 1 /\ k - m = 1
    BY <2>1
  <2>3. w[k] = e[k] /\ e[k] = d[k - m]
    BY <1>4, <1>6, <2>2, Zenon
  <2> QED
    BY <1>1, <2>1, <2>2, <2>3
<1>10. SubSeq(w, 1, m) = a
  <2>1. \A i \in 1..m : w[i] \in Byte
    BY <1>2, <1>8, ElementOfSeq
  <2>2. /\ SubSeq(w, 1, m) \in Seq(Byte) /\ Len(SubSeq(w, 1, m)) = m
        /\ \A i \in 1..m : SubSeq(w, 1, m)[i] = w[i]
    BY <2>1, SubSeqProperties
  <2>3. \A i \in 1..m : SubSeq(w, 1, m)[i] = a[i]
    BY <1>8, <2>2
  <2> QED
    BY <1>2, <2>2, <2>3, SeqEqual
<1>11. w = Login(c)
  BY <1>1, <1>3, <1>5 DEF Login
<1>12. w \in Seq(Nat)
  <2>1. Byte \subseteq Nat
    BY DEF Byte
  <2> QED BY <2>1, SeqMonotonic
<1> QED
  BY <1>1, <1>2, <1>6, <1>7, <1>8, <1>9, <1>10, <1>11, <1>12

\* A login that has no colon in its name is that of a user only if it is that user's.
LEMMA SameLogin ==
  ASSUME NEW c \in Credential, Colon \notin Range(c.user),
         NEW u \in Credential, Colon \notin Range(u.user)
  PROVE  SamePassword(Login(c), u.user, u.pass) <=> c = u
<1>1. /\ \A i \in 1..Len(c.user) : c.user[i] # Colon
      /\ \A i \in 1..Len(u.user) : u.user[i] # Colon
  <2>1. c.user \in Seq(Byte) /\ u.user \in Seq(Byte)
    BY LoginParts
  <2>2. DOMAIN c.user = 1..Len(c.user) /\ DOMAIN u.user = 1..Len(u.user)
    BY <2>1, LenProperties
  <2> QED
    BY <2>2 DEF Range
<1>2. PICK w : w = Login(c)
  OBVIOUS
<1>3. PICK m \in Nat, n \in Nat, p \in Nat, q \in Nat :
        m = Len(c.user) /\ n = Len(c.pass) /\ p = Len(u.user) /\ q = Len(u.pass)
  BY LoginParts
<1>4. /\ w \in Seq(Nat) /\ Len(w) = m + 1 + n
      /\ SubSeq(w, 1, m) = c.user /\ SubSeq(w, m + 2, Len(w)) = c.pass
      /\ \A i \in 1..m : w[i] = c.user[i]
      /\ w[m + 1] = Colon
  BY <1>2, <1>3, LoginParts
<1>5. SamePassword(w, u.user, u.pass) <=>
        /\ Len(w) = p + q + 1
        /\ 1 + p - 1 <= Len(w) /\ SubSeq(w, 1, 1 + p - 1) = u.user
        /\ w[p + 1] = Colon
        /\ SubSeq(w, p + 2, Len(w)) = u.pass
  BY <1>3, Zenon DEF SamePassword, At
<1>6. 1 + p - 1 = p
  OBVIOUS
<1>7. ASSUME c = u PROVE SamePassword(w, u.user, u.pass)
  <2>1. m = p /\ n = q
    BY <1>3, <1>7, Zenon
  <2>2. m + 1 + n = p + q + 1 /\ p <= m + 1 + n
    BY <2>1
  <2> QED
    BY <1>4, <1>5, <1>6, <1>7, <2>1, <2>2
<1>8. ASSUME SamePassword(w, u.user, u.pass) PROVE c = u
  <2>1. /\ m + 1 + n = p + q + 1 /\ SubSeq(w, 1, p) = u.user /\ w[p + 1] = Colon
        /\ SubSeq(w, p + 2, Len(w)) = u.pass
    BY <1>4, <1>5, <1>6, <1>8
  <2>2. ~(p < m)
    <3>1. p < m => p + 1 \in 1..m
      OBVIOUS
    <3> QED
      BY <1>1, <1>3, <1>4, <2>1, <3>1
  <2>3. ~(m < p)
    <3>1. SUFFICES ASSUME m < p PROVE FALSE
      OBVIOUS
    <3>2. \A i \in 1..p : w[i] \in Nat
      <4>1. \A i \in 1..p : i \in 1..Len(w)
        BY <1>4, <2>1
      <4> QED
        BY <1>4, <4>1, ElementOfSeq
    <3>3. \A i \in 1..p - 1 + 1 : SubSeq(w, 1, p)[i] = w[1 + i - 1]
      BY <3>2, SubSeqProperties
    <3>4. m + 1 \in 1..p - 1 + 1 /\ m + 1 \in 1..p /\ 1 + (m + 1) - 1 = m + 1
      BY <3>1
    <3>5. u.user[m + 1] = w[m + 1]
      BY <2>1, <3>3, <3>4
    <3> QED
      BY <1>1, <1>3, <1>4, <3>4, <3>5
  <2>4. m = p
    BY <2>2, <2>3
  <2>5. c.user = u.user /\ c.pass = u.pass
    BY <1>4, <2>1, <2>4
  <2> QED
    BY <2>5 DEF Credential
<1> QED
  BY <1>2, <1>7, <1>8

\* What the function finds in the header of a login, and what it makes of that.
LEMMA LoginFound ==
  ASSUME NEW v \in Visits, v.cred # None
  PROVE  \A users :
           Authenticates(HeadLines(v.cred), users, UserLen, PasswordLen)
             <=> \E u \in users :
                   SamePassword(IF Len(Login(v.cred)) <= LoginRoom THEN Login(v.cred) ELSE <<>>,
                                u.user, u.pass)
<1> DEFINE code == Base64Encode(Login(v.cred))
           value == (Basic \o <<Space>>) \o code
<1>0. LoginRoom \in Nat /\ LoginRoom >= 2
  BY SizesAssumption DEF LoginRoom
<1>1. /\ Login(v.cred) \in Seq(Byte) /\ code \in Seq(33..126)
      /\ Len(code) = 4 * ((Len(Login(v.cred)) + 2) \div 3)
      /\ Base64Decode(code, LoginRoom).text =
           IF Len(Login(v.cred)) <= LoginRoom THEN Login(v.cred) ELSE <<>>
  <2>1. v.cred \in Credential
    BY VisitsAssumption
  <2>2. PICK text \in Seq(Byte) : text = Login(v.cred)
    BY <2>1, LoginParts
  <2>3. /\ Base64Encode(text) \in Seq(33..126)
        /\ Len(Base64Encode(text)) = 4 * ((Len(text) + 2) \div 3)
        /\ Base64Decode(Base64Encode(text), LoginRoom) =
             IF Len(text) <= LoginRoom THEN [len |-> Len(text), text |-> text] ELSE NotFoundText
    BY <1>0, Base64RoundTrip, Zenon
  <2>4. NotFoundText.text = <<>> /\ [len |-> Len(text), text |-> text].text = text
    BY DEF NotFoundText
  <2>5. Base64Decode(Base64Encode(text), LoginRoom).text = IF Len(text) <= LoginRoom THEN text ELSE <<>>
    BY <2>3, <2>4, Zenon
  <2> QED BY <2>2, <2>3, <2>5, Zenon
<1> HIDE DEF code
<1>2. PICK front \in Seq(Nat) :
        /\ front = Basic \o <<Space>> /\ Len(front) = 6
        /\ front[1] = 66 /\ front[2] = 97 /\ front[3] = 115 /\ front[4] = 105 /\ front[5] = 99
        /\ front[6] = 32
  <2>1. Basic \in Seq(Nat) /\ <<Space>> \in Seq(Nat) /\ Len(Basic) = 5 /\ Len(<<Space>>) = 1
    BY DEF Basic, Space
  <2>2. PICK f \in Seq(Nat) : f = Basic \o <<Space>>
    BY <2>1, ConcatProperties
  <2>3. /\ Len(f) = Len(Basic) + Len(<<Space>>)
        /\ \A i \in 1..Len(Basic) + Len(<<Space>>) :
             f[i] = IF i <= Len(Basic) THEN Basic[i] ELSE <<Space>>[i - Len(Basic)]
    BY <2>1, <2>2, ConcatProperties
  <2>4. 5 + 1 = 6
    OBVIOUS
  <2>5. Len(f) = 6 /\ \A i \in 1..6 : f[i] = IF i <= 5 THEN Basic[i] ELSE <<Space>>[i - 5]
    BY <2>1, <2>3, <2>4, Zenon
  <2>6. /\ f[1] = Basic[1] /\ f[2] = Basic[2] /\ f[3] = Basic[3] /\ f[4] = Basic[4]
        /\ f[5] = Basic[5] /\ f[6] = <<Space>>[1]
    BY <2>5
  <2>7. /\ Basic[1] = 66 /\ Basic[2] = 97 /\ Basic[3] = 115 /\ Basic[4] = 105 /\ Basic[5] = 99
        /\ <<Space>>[1] = 32
    BY DEF Basic, Space
  <2>8. /\ f = Basic \o <<Space>> /\ Len(f) = 6
        /\ f[1] = 66 /\ f[2] = 97 /\ f[3] = 115 /\ f[4] = 105 /\ f[5] = 99 /\ f[6] = 32
    BY <2>2, <2>5, <2>6, <2>7
  <2> HIDE DEF value
  <2> QED
    BY <2>8, Zenon
<1>3. code \in Seq(Nat) /\ Len(code) \in Nat
  <2>1. 33..126 \subseteq Nat
    OBVIOUS
  <2> QED
    BY <1>1, <2>1, SeqMonotonic, LenProperties
<1>4. /\ value \in Seq(Nat) /\ Len(value) = 6 + Len(code)
      /\ SubSeq(value, 1, 6) = front
      /\ SubSeq(value, 7, 6 + Len(code)) = code
  <2>1. /\ front \o code \in Seq(Nat) /\ Len(front \o code) = Len(front) + Len(code)
        /\ SubSeq(front \o code, 1, Len(front)) = front
        /\ SubSeq(front \o code, Len(front) + 1, Len(front) + Len(code)) = code
    BY <1>3, Halves
  <2>2. value = front \o code
    BY <1>2
  <2>3. Len(front) + 1 = 7
    BY <1>2
  <2> HIDE DEF value
  <2> QED
    BY <1>2, <2>1, <2>2, <2>3, Zenon
<1>5. \A i \in 1..6 + Len(code) : value[i] = IF i <= 6 THEN front[i] ELSE code[i - 6]
  <2>1. \A i \in 1..Len(front) + Len(code) :
          (front \o code)[i] = IF i <= Len(front) THEN front[i] ELSE code[i - Len(front)]
    BY <1>3, ConcatProperties
  <2>2. value = front \o code
    BY <1>2
  <2> HIDE DEF value
  <2>3. ASSUME NEW i \in 1..6 + Len(code)
        PROVE  value[i] = IF i <= 6 THEN front[i] ELSE code[i - 6]
    <3>1. i \in 1..Len(front) + Len(code)
      BY <1>2
    <3>2. (front \o code)[i] = IF i <= Len(front) THEN front[i] ELSE code[i - Len(front)]
      BY <2>1, <3>1, Zenon
    <3>3. Len(front) = 6
      BY <1>2
    <3> QED
      BY <2>2, <3>2, <3>3
  <2> QED
    BY <2>3
<1> HIDE DEF value
<1>6. /\ Len(value) > 0 /\ value[1] # Space
      /\ \A k \in 1..Len(value) : value[k] \notin {CR, LF}
  <2>1. value[1] = front[1] /\ Len(value) > 0
    <3>1. 1 \in 1..6 + Len(code) /\ 1 <= 6 /\ 6 + Len(code) > 0
      BY <1>3
    <3> QED
      BY <1>4, <1>5, <3>1
  <2>2. ASSUME NEW k \in 1..Len(value) PROVE value[k] \notin {CR, LF}
    <3>1. k \in 1..6 + Len(code)
      BY <1>4
    <3>2. CASE k <= 6
      <4>1. k \in 1..6
        BY <1>3, <3>1, <3>2
      <4>2. k = 1 \/ k = 2 \/ k = 3 \/ k = 4 \/ k = 5 \/ k = 6
        BY <4>1
      <4>3. front[k] \notin {CR, LF}
        <5>1. front[k] \in {66, 97, 115, 105, 99, 32}
          BY <1>2, <4>2, SMTT(30)
        <5> QED
          BY <5>1 DEF CR, LF
      <4> QED
        BY <1>5, <3>1, <3>2, <4>3
    <3>3. CASE ~(k <= 6)
      <4>1. k - 6 \in 1..Len(code)
        BY <1>3, <3>1, <3>3
      <4>2. value[k] = code[k - 6]
        BY <1>5, <3>1, <3>3
      <4>3. code[k - 6] \in 33..126
        BY <1>1, <4>1, ElementOfSeq
      <4>4. \A c \in 33..126 : c \notin {CR, LF}
        BY DEF CR, LF
      <4> QED
        BY <4>2, <4>3, <4>4
    <3> QED
      BY <3>2, <3>3
  <2> QED
    BY <1>2, <2>1, <2>2 DEF Space
<1>7. HeadLines(v.cred) = <<Append(Authorization, Colon) \o (<<Space>> \o value)>>
  <2> DEFINE front1 == Authorization \o <<Colon, Space>>
             front2 == front1 \o Basic
             front3 == front2 \o <<Space>>
             name == Append(Authorization, Colon)
  <2>1. HeadLines(v.cred) = <<front3 \o code>>
    BY Zenon DEF HeadLines, AuthorizationLine, Login, code
  <2>2. /\ Authorization \in Seq(Nat) /\ Basic \in Seq(Nat) /\ <<Colon>> \in Seq(Nat)
        /\ <<Colon, Space>> \in Seq(Nat) /\ <<Space>> \in Seq(Nat) /\ Colon \in Nat
    BY DEF Authorization, Basic, Colon, Space
  <2>3. front1 \in Seq(Nat)
    BY <2>2, ConcatProperties
  <2>4. front2 \in Seq(Nat)
    BY <2>2, <2>3, ConcatProperties
  <2>5. front3 \in Seq(Nat)
    BY <2>2, <2>4, ConcatProperties
  <2>6. name = Authorization \o <<Colon>>
    BY <2>2, AppendIsConcat
  <2>7. name \in Seq(Nat)
    BY <2>2, AppendProperties
  <2>8. <<Colon, Space>> = <<Colon>> \o <<Space>>
    BY DEF Colon, Space
  <2>9. Basic \o <<Space>> \in Seq(Nat) /\ <<Space>> \o value \in Seq(Nat)
    BY <1>4, <2>2, ConcatProperties
  <2>10. /\ IsJoin(name, Authorization, <<Colon>>) /\ IsJoin(<<Colon, Space>>, <<Colon>>, <<Space>>)
         /\ IsJoin(front1, Authorization, <<Colon, Space>>)
    BY <2>2, <2>6, <2>8, Zenon DEF IsJoin
  <2>11. IsJoin(front1, name, <<Space>>)
    <3> HIDE DEF front1, name
    <3> QED
      BY <2>10, JoinsAssociate
  <2>12. /\ IsJoin(front2, front1, Basic) /\ IsJoin(Basic \o <<Space>>, Basic, <<Space>>)
         /\ IsJoin(front3, front2, <<Space>>)
    BY <2>2, <2>3, <2>4, Zenon DEF IsJoin
  <2>13. IsJoin(front3, front1, Basic \o <<Space>>)
    <3> HIDE DEF front1, front2, front3
    <3> QED
      BY <2>12, JoinsAssociate
  <2>14. IsJoin(value, Basic \o <<Space>>, code) /\ IsJoin(front3 \o code, front3, code)
    BY <1>3, <2>5, <2>9, Zenon DEF IsJoin, value
  <2>15. IsJoin(front3 \o code, front1, value)
    <3> HIDE DEF front1, front3
    <3> QED
      BY <2>13, <2>14, JoinsAssociate
  <2>16. IsJoin(<<Space>> \o value, <<Space>>, value)
    BY <1>4, <2>2, Zenon DEF IsJoin
  <2>17. IsJoin(front3 \o code, name, <<Space>> \o value)
    <3> HIDE DEF front1, front3, name
    <3> QED
      BY <2>11, <2>15, <2>16, JoinsAssociate
  <2> HIDE DEF front3
  <2> QED
    BY <2>1, <2>17, Zenon DEF IsJoin
<1>8. PICK room \in Nat, m \in Nat, kept \in Seq(Nat) :
        /\ room = LoginRoom * 10 /\ m = IF Len(value) < room THEN Len(value) ELSE room - 1
        /\ kept = SubSeq(value, 1, m) /\ Len(kept) = m /\ 6 <= m /\ m <= Len(value)
        /\ \A i \in 1..m : kept[i] = value[i]
  <2>1. PICK room \in Nat : room = LoginRoom * 10 /\ room >= 20
    BY <1>0
  <2>2. PICK m \in Nat : /\ m = IF Len(value) < room THEN Len(value) ELSE room - 1
                         /\ 6 <= m /\ m <= Len(value)
    <3>1. PICK n \in Nat : n = Len(value) /\ 6 <= n
      BY <1>3, <1>4
    <3>2. PICK m \in Nat : m = (IF n < room THEN n ELSE room - 1) /\ 6 <= m /\ m <= n
      <4>1. CASE n < room
        BY <3>1, <4>1
      <4>2. CASE ~(n < room)
        <5>1. room - 1 \in Nat /\ 6 <= room - 1 /\ room - 1 <= n
          BY <2>1, <4>2
        <5> QED BY <4>2, <5>1
      <4> QED BY <4>1, <4>2
    <3> QED BY <3>1, <3>2, Zenon
  <2>3. \A i \in 1..m : value[i] \in Nat
    <3>1. \A i \in 1..m : i \in 1..Len(value)
      BY <1>3, <1>4, <2>2
    <3> QED BY <1>4, <3>1, ElementOfSeq
  <2>4. /\ SubSeq(value, 1, m) \in Seq(Nat) /\ Len(SubSeq(value, 1, m)) = m
        /\ \A i \in 1..m : SubSeq(value, 1, m)[i] = value[i]
    BY <2>2, <2>3, SubSeqProperties
  <2> QED BY <2>1, <2>2, <2>4, Zenon
<1>9. GetHeader(HeadLines(v.cred), Authorization, LoginRoom * 10) = [len |-> m, text |-> kept]
  <2>1. PICK name \in Seq(33..126) : name = Authorization /\ Len(name) > 0
    <3>1. Authorization \in Seq(33..126) /\ Len(Authorization) > 0
      BY DEF Authorization
    <3> QED
      BY <3>1
  <2>2. kept = CutTo(value, room)
    BY <1>8, Zenon DEF CutTo
  <2>3. GetHeader(<<Append(name, Colon) \o (<<Space>> \o value)>>, name, room)
          = [len |-> Len(kept), text |-> kept]
    <3>1. GetHeader(<<Append(name, Colon) \o (<<Space>> \o value)>>, name, room)
            = [len |-> Len(CutTo(value, room)), text |-> CutTo(value, room)]
      BY <1>4, <1>6, <2>1, HeaderFound
    <3> QED BY <2>2, <3>1, Zenon
  <2> QED
    BY <1>7, <1>8, <2>1, <2>3, Zenon
<1>10. At(kept, 1, Basic)
  <2>1. Basic \in Seq(Nat) /\ Len(Basic) = 5
    BY DEF Basic
  <2>2. \A i \in 1..5 : i \in 1..6 + Len(code) /\ i \in 1..m /\ i <= 6
    BY <1>3, <1>8
  <2>3. \A i \in 1..5 : kept[i] = front[i]
    BY <1>5, <1>8, <2>2, Zenon
  <2>4. \A i \in 1..5 : front[i] = Basic[i]
    <3>1. TAKE i \in 1..5
    <3>2. i = 1 \/ i = 2 \/ i = 3 \/ i = 4 \/ i = 5
      OBVIOUS
    <3> QED BY <1>2, <3>2 DEF Basic
  <2>5. /\ SubSeq(kept, 1, 5) \in Seq(Nat) /\ Len(SubSeq(kept, 1, 5)) = 5
        /\ \A i \in 1..5 : SubSeq(kept, 1, 5)[i] = kept[i]
    <3>1. \A i \in 1..5 : kept[i] \in Nat
      BY <1>8, <2>2, ElementOfSeq
    <3> QED BY <3>1, SubSeqProperties
  <2>6. SubSeq(kept, 1, 5) = Basic
    <3>1. PICK five \in Seq(Nat) : five = SubSeq(kept, 1, 5) /\ Len(five) = 5 /\ \A i \in 1..5 : five[i] = kept[i]
      BY <2>5, Zenon
    <3>2. \A i \in 1..5 : five[i] = Basic[i]
      BY <2>3, <2>4, <3>1, Zenon
    <3>3. five = Basic
      BY <2>1, <3>1, <3>2, SeqEqual, SMTT(30)
    <3> QED BY <3>1, <3>3
  <2>7. 1 + 5 - 1 = 5 /\ 5 <= m
    BY <1>8
  <2> QED
    BY <1>8, <2>1, <2>6, <2>7 DEF At
<1>11. PICK sub \in Seq(Byte) :
         sub = SubSeq(kept, 7, m) /\ Len(sub) = m - 6 /\ \A i \in 1..m - 6 : sub[i] = code[i]
  <2>1. ASSUME NEW i \in 1..m - 6 PROVE kept[i + 6] = code[i] /\ code[i] \in Byte
    <3>1. /\ i + 6 \in 1..m /\ i + 6 \in 1..6 + Len(code) /\ ~(i + 6 <= 6) /\ i + 6 - 6 = i
          /\ i \in 1..Len(code)
      <4>1. PICK n \in Nat : n = Len(code) /\ m <= 6 + n
        BY <1>3, <1>4, <1>8
      <4>2. i + 6 \in 1..m /\ i + 6 \in 1..6 + n /\ ~(i + 6 <= 6) /\ i + 6 - 6 = i /\ i \in 1..n
        BY <4>1
      <4> QED BY <4>1, <4>2, Zenon
    <3>2. kept[i + 6] = value[i + 6]
      BY <1>8, <3>1, Zenon
    <3>3. value[i + 6] = code[i]
      BY <1>5, <3>1
    <3>4. code[i] \in 33..126
      BY <1>1, <3>1, ElementOfSeq
    <3> QED BY <3>2, <3>3, <3>4 DEF Byte
  <2>2. ASSUME NEW i \in 7..m PROVE kept[i] \in Byte
    <3>1. i - 6 \in 1..m - 6 /\ i - 6 + 6 = i
      BY <1>8
    <3> QED BY <2>1, <3>1
  <2>3. /\ SubSeq(kept, 7, m) \in Seq(Byte) /\ Len(SubSeq(kept, 7, m)) = m - 6
        /\ \A i \in 1..m - 6 : SubSeq(kept, 7, m)[i] = kept[7 + i - 1]
    BY <1>8, <2>2, SubSeqProperties
  <2>4. ASSUME NEW i \in 1..m - 6 PROVE SubSeq(kept, 7, m)[i] = code[i]
    <3>1. 7 + i - 1 = i + 6
      OBVIOUS
    <3> QED BY <2>1, <2>3, <3>1
  <2> QED BY <2>3, <2>4
<1>12. Base64Decode(sub, LoginRoom).text =
         IF Len(Login(v.cred)) <= LoginRoom THEN Login(v.cred) ELSE <<>>
  <2>1. CASE Len(value) < room
    <3>1. m - 6 = Len(code)
      BY <1>3, <1>4, <1>8, <2>1
    <3>2. sub = code
      BY <1>3, <1>11, <3>1, SeqEqual
    <3> QED BY <1>1, <3>2
  <2>2. CASE ~(Len(value) < room)
    <3>1. m - 6 = 10 * LoginRoom - 7 /\ m - 6 < Len(code)
      BY <1>0, <1>3, <1>4, <1>8, <2>2
    <3>2. PICK text \in Seq(Byte) : text = Login(v.cred) /\ code = Base64Encode(text)
      BY <1>1 DEF code
    <3>3. PICK r \in Nat : r = LoginRoom /\ r >= 2
      BY <1>0
    <3>4. /\ Len(sub) = 10 * r - 7 /\ Len(sub) < Len(Base64Encode(text))
          /\ Len(Base64Encode(text)) = 4 * ((Len(text) + 2) \div 3)
          /\ \A i \in 1..Len(sub) : sub[i] = Base64Encode(text)[i]
      BY <1>1, <1>11, <3>1, <3>2, <3>3, Zenon
    <3>5. Base64Decode(sub, r) = NotFoundText /\ Len(text) > r
      BY <3>3, <3>4, CutCode
    <3>6. NotFoundText.text = <<>>
      BY DEF NotFoundText
    <3>7. ~(Len(text) <= r)
      <4>1. Len(text) \in Nat
        BY LenProperties
      <4> QED BY <3>5, <4>1
    <3> QED BY <3>2, <3>3, <3>5, <3>6, <3>7, Zenon
  <2> QED BY <2>1, <2>2
<1> QED
  <2>1. ASSUME NEW users
        PROVE  Authenticates(HeadLines(v.cred), users, UserLen, PasswordLen)
                 <=> \E u \in users :
                       SamePassword(Base64Decode(sub, LoginRoom).text, u.user, u.pass)
    <3> DEFINE hdr == GetHeader(HeadLines(v.cred), Authorization, (UserLen + PasswordLen + 2) * 10)
               userpass == Base64Decode(SubSeq(hdr.text, 7, Len(hdr.text)), UserLen + PasswordLen + 2).text
    <3>1. Authenticates(HeadLines(v.cred), users, UserLen, PasswordLen)
            <=> /\ hdr # NotFoundText /\ At(hdr.text, 1, Basic)
                /\ \E u \in users : SamePassword(userpass, u.user, u.pass)
      BY Zenon DEF Authenticates
    <3>2. hdr = [len |-> m, text |-> kept]
      BY <1>9, Zenon DEF LoginRoom
    <3>3. userpass = Base64Decode(SubSeq(hdr.text, 7, Len(hdr.text)), LoginRoom).text
      BY Zenon DEF LoginRoom
    <3> HIDE DEF hdr, userpass
    <3>4. hdr.text = kept /\ hdr.len = m
      BY <3>2
    <3>5. hdr # NotFoundText
      <4>1. NotFoundText.len = -1
        BY DEF NotFoundText
      <4> QED
        BY <3>4, <4>1
    <3>6. userpass = Base64Decode(sub, LoginRoom).text
      BY <1>8, <1>11, <3>3, <3>4, Zenon
    <3> QED
      BY <1>10, <3>1, <3>4, <3>5, <3>6, Zenon
  <2> QED
    BY <1>12, <2>1, Zenon

\* A password that is given is accepted if and only if it is that of a user.
LEMMA PasswordCheck ==
  ASSUME ProperLogins, NEW v \in Visits
  PROVE  Authenticates(HeadLines(v.cred), Users, UserLen, PasswordLen) <=> v.cred \in Users
<1>1. CASE v.cred = None
  <2>1. GetHeader(<<>>, Authorization, (UserLen + PasswordLen + 2) * 10) = NotFoundText
    <3>1. DOMAIN <<>> = {}
      OBVIOUS
    <3> QED
      BY <3>1, Zenon DEF GetHeader
  <2>2. ~Authenticates(<<>>, Users, UserLen, PasswordLen)
    BY <2>1, Zenon DEF Authenticates
  <2> QED
    BY <1>1, <2>2, VisitsAssumption DEF HeadLines
<1>2. CASE v.cred # None
  <2>1. v.cred \in Credential /\ Colon \notin Range(v.cred.user)
    BY <1>2, VisitsAssumption DEF ProperLogins
  <2>2. \A u \in Users : u \in Credential /\ Colon \notin Range(u.user) /\ Len(Login(u)) <= LoginRoom
    BY VisitsAssumption DEF ProperLogins
  <2>3. ASSUME NEW u \in Users PROVE SamePassword(Login(v.cred), u.user, u.pass) <=> v.cred = u
    BY <2>1, <2>2, SameLogin
  <2>4. \A u \in Users : ~SamePassword(<<>>, u.user, u.pass)
    <3>1. ASSUME NEW u \in Users PROVE Len(<<>>) # Len(u.user) + Len(u.pass) + 1
      <4>1. u.user \in Seq(Byte) /\ u.pass \in Seq(Byte)
        BY <2>2, LoginParts
      <4>2. Len(u.user) \in Nat /\ Len(u.pass) \in Nat /\ Len(<<>>) = 0
        BY <4>1, LenProperties
      <4>3. \A m, n \in Nat : 0 # m + n + 1
        OBVIOUS
      <4> QED
        BY <4>2, <4>3, Zenon
    <3> QED
      BY <3>1, Zenon DEF SamePassword
  <2>5. Authenticates(HeadLines(v.cred), Users, UserLen, PasswordLen)
          <=> \E u \in Users :
                SamePassword(IF Len(Login(v.cred)) <= LoginRoom THEN Login(v.cred) ELSE <<>>,
                             u.user, u.pass)
    BY <1>2, LoginFound, Zenon
  <2> QED
    BY <2>2, <2>3, <2>4, <2>5, Zenon
<1> QED
  BY <1>1, <1>2

-----------------------------------------------------------------------------
(* Who gets behind a password                                               *)

\* The password is right if it has to be and is asked for before the route that is tried.
Allowed == client.cred \in Users

\* A client keeps the login of its visit, and what it asked for as long as it has a form.
VisitInv ==
  \E v \in Visits :
    /\ client.cred = v.cred
    /\ client.form # None => client.form = v.form /\ client.host = v.host /\ client.url = v.url

\* The route that is tried matches.
MatchInv == Routed => Matches(table[route], client.url)

\* Every password that was asked for on the way to the route that is tried was given.
RouteInv ==
  client.phase = "routing" =>
    \A k \in DOMAIN table :
      k < route /\ table[k].cgi = "authBasic" /\ Matches(table[k], client.url) => Allowed

\* The station is set without a password only where there is none.
SettingsInv ==
  stconf # NoStation => Allowed \/ \A k \in DOMAIN table : table[k].cgi # "authBasic"

AccessInv ==
  TypeOK /\ StartInv /\ VisitInv /\ MatchInv /\ RouteInv /\ SettingsInv /\ OnlyWithPassword

GuardedTables == \A t \in Tables : AuthFirst(t) /\ SettingsBelowAuth(t)

\* The invariant holds at the start.
LEMMA AccessStart ==
  Init => VisitInv /\ MatchInv /\ RouteInv /\ SettingsInv /\ OnlyWithPassword
<1> SUFFICES ASSUME Init PROVE VisitInv /\ MatchInv /\ RouteInv /\ SettingsInv /\ OnlyWithPassword
  OBVIOUS
<1>1. PICK v \in Visits :
        client = [phase |-> "resolve", method |-> v.method, host |-> v.host,
                  url |-> v.url, form |-> v.form, cred |-> v.cred]
  BY DEF Init
<1>2. client.phase = "resolve" /\ stconf = NoStation
  BY <1>1 DEF Init
<1>3. VisitInv
  BY <1>1 DEF VisitInv
<1> QED
  BY <1>2, <1>3 DEF MatchInv, Routed, RouteInv, SettingsInv, OnlyWithPassword

\* What authBasic decides, as long as the client has the login of a visit.
LEMMA AuthDecides ==
  ASSUME ProperLogins, VisitInv, NEW r, r.cgi = "authBasic"
  PROVE  PassesOn(r) <=> Allowed
<1>1. PICK v \in Visits : client.cred = v.cred
  BY DEF VisitInv
<1>2. Authenticates(HeadLines(v.cred), Users, UserLen, PasswordLen) <=> v.cred \in Users
  BY PasswordCheck
<1>3. PassesOn(r) <=> Authenticates(HeadLines(client.cred), Users, UserLen, PasswordLen)
  BY DEF PassesOn
<1> QED
  BY <1>1, <1>2, <1>3, Zenon DEF Allowed

\* Also a client that follows a redirect.
LEMMA VisitStep == TypeOK /\ StartInv /\ VisitInv /\ [Next]_vars => VisitInv'
<1> SUFFICES ASSUME TypeOK, StartInv, VisitInv, [Next]_vars PROVE VisitInv'
  OBVIOUS
<1>1. PICK v \in Visits :
        /\ client.cred = v.cred
        /\ client.form # None
             => client.form = v.form /\ client.host = v.host /\ client.url = v.url
  BY DEF VisitInv
<1>2. /\ client'.cred = client.cred
      /\ \/ client'.form = None
         \/ client'.form = client.form /\ client'.host = client.host /\ client'.url = client.url
  <2>1. CASE Aside
    BY <2>1 DEF Aside
  <2>2. CASE GoesOn
    BY <2>2 DEF GoesOn
  <2>3. CASE PlainAnswer
    BY <2>3, Zenon DEF PlainAnswer
  <2>4. CASE LooksUp(1) \/ LooksUp(route + 1)
    BY <2>4, Zenon DEF LooksUp
  <2>5. CASE CgiAnswers
    BY <2>5, Zenon DEF CgiAnswers
  <2> QED
    BY <2>1, <2>2, <2>3, <2>4, <2>5, StepKinds
<1> QED
  BY <1>1, <1>2 DEF VisitInv

\* Every password that is asked for, for the URL, was given before the route that is tried does
\* anything but redirect.
LEMMA AskedBefore ==
  ASSUME TypeOK, MatchInv, RouteInv, AuthFirst(table), Routed, table[route].cgi \notin OnlyRedirect,
         Protected(client.url)
  PROVE  Allowed
<1>1. PICK k \in DOMAIN table : table[k].cgi = "authBasic" /\ Matches(table[k], client.url)
  BY DEF Protected
<1>2. /\ route \in DOMAIN table /\ route <= Len(table) /\ client.phase = "routing"
      /\ Matches(table[route], client.url) /\ client.url \in Url
  BY TheRoute DEF Routed, MatchInv, TypeOK, Client
<1>3. k \in Nat /\ route \in Nat
  BY <1>2, TablesAssumption DEF TypeOK
<1>4. ~(route < k)
  BY <1>1, <1>2 DEF AuthFirst
<1>5. k # route
  BY <1>1 DEF OnlyRedirect
<1>6. k < route
  BY <1>3, <1>4, <1>5
<1> QED
  BY <1>1, <1>2, <1>6 DEF RouteInv

\* What a look-up comes to.
LEMMA LookedUp ==
  ASSUME TypeOK, NEW i \in Nat \ {0}, LooksUp(i)
  PROVE  /\ table' = table /\ client'.url = client.url /\ client'.cred = client.cred
         /\ route' \in Nat
         /\ route' <= Len(table)
              => route' \in DOMAIN table /\ Matches(table[route'], client.url)
         /\ \A k \in DOMAIN table : i <= k /\ k < route' => ~Matches(table[k], client.url)
<1>1. /\ route' = NextRoute(i, client.url) /\ table' = table
      /\ client'.url = client.url /\ client'.cred = client.cred
  BY DEF LooksUp
<1>2. PICK url, n : url = client.url /\ n = NextRoute(i, url)
  OBVIOUS
<1>3. /\ n \in Nat
      /\ n <= Len(table) => n \in DOMAIN table /\ Matches(table[n], url)
      /\ \A k \in DOMAIN table : i <= k /\ k < n => ~Matches(table[k], url)
  BY <1>2, NextRouteIs
<1> QED
  BY <1>1, <1>2, <1>3

\* A route that is tried matches the URL.
LEMMA MatchStep == TypeOK /\ StartInv /\ MatchInv /\ [Next]_vars => MatchInv'
<1> SUFFICES ASSUME TypeOK, StartInv, MatchInv, [Next]_vars,
                    client'.phase = "routing", route' <= Len(table')
             PROVE  Matches(table'[route'], client'.url)
  BY DEF MatchInv, Routed, Matches
<1>1. CASE Aside
  <2>1. UNCHANGED <<client, table, route>>
    BY <1>1 DEF Aside
  <2> QED
    BY <2>1 DEF MatchInv, Routed
<1>2. CASE LooksUp(1)
  <2>1. 1 \in Nat \ {0}
    OBVIOUS
  <2> QED
    BY <1>2, <2>1, LookedUp
<1>3. CASE LooksUp(route + 1)
  <2>1. route + 1 \in Nat \ {0}
    BY DEF TypeOK
  <2> QED
    BY <1>3, <2>1, LookedUp
<1> QED
  BY <1>1, <1>2, <1>3, StepKinds DEF GoesOn, PlainAnswer, CgiAnswers

\* The routes passed over had their reason to pass on.
LEMMA RouteStep ==
  ProperLogins /\ TypeOK /\ StartInv /\ VisitInv /\ RouteInv /\ [Next]_vars
    => RouteInv'
<1> SUFFICES ASSUME ProperLogins, TypeOK, StartInv, VisitInv, RouteInv, [Next]_vars,
                    client'.phase = "routing",
                    NEW k \in DOMAIN table', k < route', table'[k].cgi = "authBasic",
                    Matches(table'[k], client'.url)
             PROVE  Allowed'
  BY DEF RouteInv, Matches
<1>1. Len(table) \in Nat /\ DOMAIN table = 1..Len(table) /\ route \in Nat
  BY TablesAssumption DEF TypeOK
<1>2. CASE Aside
  <2>1. UNCHANGED <<client, table, route>>
    BY <1>2 DEF Aside
  <2> QED
    BY <2>1 DEF RouteInv, Allowed
<1>3. CASE LooksUp(1)
  <2>1. 1 \in Nat \ {0}
    OBVIOUS
  <2>2. k \in DOMAIN table /\ 1 <= k
    BY <1>1, <1>3 DEF LooksUp
  <2> QED
    BY <1>3, <2>1, <2>2, LookedUp
<1>4. CASE /\ Routed /\ LooksUp(route + 1)
           /\ PassesOn(table[route]) \/ table[route].cgi \in {"cgiEspFsHook", "cgiEspFsTemplate"}
  <2>1. route + 1 \in Nat \ {0}
    BY <1>1
  <2>2. /\ k \in DOMAIN table /\ table[k].cgi = "authBasic" /\ Matches(table[k], client.url)
        /\ client'.cred = client.cred
        /\ \A n \in DOMAIN table : route + 1 <= n /\ n < route' => ~Matches(table[n], client.url)
    BY <1>4, <2>1, LookedUp
  <2>3. k < route \/ k = route
    <3>1. ~(route + 1 <= k)
      BY <2>2
    <3> QED
      BY <1>1, <2>2, <3>1
  <2>4. CASE k < route
    BY <1>4, <2>2, <2>4 DEF RouteInv, Routed, Allowed
  <2>5. CASE k = route
    <3>1. PassesOn(table[k])
      BY <1>4, <2>2, <2>5
    <3>2. Allowed
      BY <2>2, <3>1, AuthDecides
    <3> QED
      BY <2>2, <3>2 DEF Allowed
  <2> QED
    BY <2>3, <2>4, <2>5
<1> QED
  BY <1>2, <1>3, <1>4, StepKinds DEF GoesOn, PlainAnswer, CgiAnswers

\* Settings that were changed were changed by one who may.
LEMMA SettingsStep ==
  GuardedTables /\ TypeOK /\ StartInv /\ MatchInv /\ RouteInv /\ SettingsInv /\ [Next]_vars
    => SettingsInv'
<1> SUFFICES ASSUME GuardedTables, TypeOK, StartInv, MatchInv, RouteInv, SettingsInv, [Next]_vars,
                    stconf' # NoStation
             PROVE  Allowed' \/ \A k \in DOMAIN table' : table'[k].cgi # "authBasic"
  BY DEF SettingsInv
<1>1. table' = table /\ client'.cred = client.cred
  BY StepKinds DEF Aside, GoesOn, PlainAnswer, LooksUp, CgiAnswers
<1>2. Allowed' <=> Allowed
  BY <1>1 DEF Allowed
<1>3. CASE stconf' = stconf
  BY <1>1, <1>2, <1>3 DEF SettingsInv
<1>4. CASE CgiAnswers /\ table[route].cgi = "cgiWiFiConnect"
  <2>1. AuthFirst(table) /\ SettingsBelowAuth(table)
    BY DEF GuardedTables, TypeOK
  <2>2. /\ route \in DOMAIN table /\ Matches(table[route], client.url) /\ client.url \in Url
    BY <1>4 DEF CgiAnswers, Routed, MatchInv, TypeOK, Client
  <2>3. ASSUME NEW k \in DOMAIN table, table[k].cgi = "authBasic" PROVE Allowed
    <3>1. Protected(client.url)
      BY <1>4, <2>1, <2>2, <2>3 DEF SettingsBelowAuth, Protected
    <3>2. AuthFirst(table) /\ Routed /\ table[route].cgi \notin OnlyRedirect
      BY <1>4, <2>1 DEF OnlyRedirect, CgiAnswers, Routed
    <3> QED
      BY <3>1, <3>2, AskedBefore
  <2> QED
    BY <1>1, <1>2, <2>3
<1> QED
  BY <1>3, <1>4, StepKinds DEF Aside, GoesOn, PlainAnswer, LooksUp, CgiAnswers

\* An answer keeps to the password.
LEMMA PasswordStep ==
  ProperLogins /\ GuardedTables /\ AccessInv /\ SettingsInv' /\ [Next]_vars
    => OnlyWithPassword'
<1> SUFFICES ASSUME ProperLogins, GuardedTables, AccessInv, SettingsInv', [Next]_vars,
                    client'.phase = "answered", client'.method # "OPTIONS"
             PROVE  /\ reply'.status = 401 => Protected(client.url)' /\ client'.cred \notin Users
                    /\ (reply'.status = 200 \/ stconf' # NoStation) /\ Protected(client.url)'
                         => client'.cred \in Users
  BY DEF OnlyWithPassword
<1> USE DEF AccessInv
<1>1. table' = table /\ (Allowed' <=> client'.cred \in Users)
  BY StepKinds DEF Aside, GoesOn, PlainAnswer, LooksUp, CgiAnswers, Allowed
<1>2. stconf' # NoStation /\ Protected(client.url)' => client'.cred \in Users
  BY <1>1 DEF SettingsInv, Protected
<1>3. CASE Aside
  <2>1. UNCHANGED <<client, table, reply>> /\ client.phase = "answered"
        /\ client.method # "OPTIONS"
    BY <1>3 DEF Aside
  <2>2. Protected(client.url)' <=> Protected(client.url)
    BY <2>1 DEF Protected, Matches
  <2> QED
    BY <1>2, <2>1, <2>2 DEF OnlyWithPassword
<1>4. CASE PlainAnswer
  BY <1>2, <1>4 DEF PlainAnswer
<1>5. CASE CgiAnswers
  <2>1. /\ client.url \in Url /\ route \in DOMAIN table /\ Matches(table[route], client.url)
        /\ ~PassesOn(table[route]) /\ reply' \in Answers(table[route])
        /\ client'.url = client.url /\ client'.cred = client.cred
    BY <1>5 DEF CgiAnswers, Routed, MatchInv, TypeOK, Client
  <2>2. IsRoute(table[route])
    BY <1>5 DEF CgiAnswers
  <2>3. /\ reply'.status = 401 <=> table[route].cgi = "authBasic"
        /\ reply'.status = 200 => table[route].cgi \notin OnlyRedirect
    BY <2>1, <2>2, AnswerShapes
  <2>4. Protected(client.url)' <=> Protected(client.url)
    BY <1>1, <2>1 DEF Protected, Matches
  <2>5. ASSUME reply'.status = 401
        PROVE  Protected(client.url) /\ client.cred \notin Users
    <3>1. table[route].cgi = "authBasic"
      BY <2>3, <2>5
    <3>2. Protected(client.url)
      BY <2>1, <3>1 DEF Protected
    <3>3. PassesOn(table[route]) <=> Allowed
      BY <3>1, AuthDecides
    <3> QED
      BY <2>1, <3>2, <3>3 DEF Allowed
  <2>6. ASSUME reply'.status = 200, Protected(client.url)
        PROVE  client.cred \in Users
    <3>1. AuthFirst(table)
      BY DEF GuardedTables, TypeOK
    <3>2. Routed /\ table[route].cgi \notin OnlyRedirect
      BY <1>5, <2>3, <2>6 DEF CgiAnswers, Routed
    <3>3. Allowed
      BY <2>6, <3>1, <3>2, AskedBefore
    <3> QED
      BY <3>3 DEF Allowed
  <2> QED
    BY <1>2, <2>1, <2>4, <2>5, <2>6
<1> QED
  BY <1>3, <1>4, <1>5, StepKinds DEF GoesOn, LooksUp

\* Behind authBasic one gets with the name and the password of a user and only with them, and
\* one is asked for them only where there is such a route and only without them, for all tables
\* where the password is asked for first, all users and whatever a client sends: in the header
\* the name and password are found, decoded, cut at the colon and compared (authBasic,
\* httpdGetHeader, httpdProcessRequest). That base64_decode undoes what a browser encodes is
\* the hypothesis.
THEOREM PasswordGuards ==
  ASSUME ProperLogins, GuardedTables
  PROVE  Spec => []OnlyWithPassword
<1>1. Init => AccessInv
  BY StartType, AccessStart DEF AccessInv
<1>2. AccessInv /\ [Next]_vars => AccessInv'
  <2> SUFFICES ASSUME AccessInv, [Next]_vars PROVE AccessInv'
    OBVIOUS
  <2>1. TypeOK /\ StartInv /\ VisitInv /\ MatchInv /\ RouteInv /\ SettingsInv
    BY DEF AccessInv
  <2>2. TypeOK' /\ StartInv'
    BY <2>1, TypeStep
  <2>3. VisitInv'
    BY <2>1, VisitStep
  <2>4. MatchInv' /\ RouteInv'
    BY <2>1, MatchStep, RouteStep
  <2>5. SettingsInv'
    BY <2>1, SettingsStep
  <2>6. OnlyWithPassword'
    BY <2>5, PasswordStep
  <2> QED
    BY <2>2, <2>3, <2>4, <2>5, <2>6 DEF AccessInv
<1>3. AccessInv => OnlyWithPassword
  BY DEF AccessInv
<1> QED
  BY <1>1, <1>2, <1>3, PTL DEF Spec

\* Nor is anything done behind a password without it, also by the functions that answer with
\* a redirect: the LED, the counter and the station stay as they are (cgiLed, tplCounter,
\* cgiWiFiConnect).
OnlyUsersChange ==
  [][client.phase = "routing" /\ Protected(client.url) /\ client.cred \notin Users
       => UNCHANGED <<led, hits, stconf>>]_vars

\* For all tables where the password is asked for first, all users and whatever a client sends,
\* what the functions behind a password keep is changed only for a user (cgiLed, tplCounter,
\* cgiWiFiConnect, called by httpdProcessRequest).
THEOREM PasswordGuardsState ==
  ASSUME ProperLogins, GuardedTables
  PROVE  Spec => OnlyUsersChange
<1> DEFINE Inv == TypeOK /\ StartInv /\ VisitInv /\ MatchInv /\ RouteInv
<1>1. Init => Inv
  BY StartType, AccessStart
<1>2. Inv /\ [Next]_vars => Inv'
  BY TypeStep, VisitStep, MatchStep, RouteStep
<1>3. Inv /\ [Next]_vars =>
        [client.phase = "routing" /\ Protected(client.url) /\ client.cred \notin Users
           => UNCHANGED <<led, hits, stconf>>]_vars
  <2> SUFFICES ASSUME Inv, [Next]_vars, client.phase = "routing", Protected(client.url),
                      client.cred \notin Users
               PROVE  UNCHANGED <<led, hits, stconf>>
    OBVIOUS
  <2>1. CASE RunCgi
    <3>1. table[route].cgi \in OnlyRedirect
      <4>1. AuthFirst(table) /\ Routed
        BY <2>1 DEF GuardedTables, TypeOK, RunCgi
      <4> QED
        BY <4>1, AskedBefore DEF Allowed
    <3>2. table[route].cgi # "cgiEspFsTemplate" => hits' = hits
      BY <2>1 DEF RunCgi
    <3>3. /\ IF table[route].cgi = "cgiLed" THEN SetLed ELSE UNCHANGED led
          /\ IF table[route].cgi = "cgiWiFiConnect" THEN SetStation ELSE UNCHANGED stconf
      BY <2>1, RunCgiParts
    <3> QED
      BY <3>1, <3>2, <3>3 DEF OnlyRedirect
  <2>2. CASE ~RunCgi
    <3>1. ~StartUp
      BY StepsCounted DEF StartUp, StartInv, TypeOK
    <3>2. CASE HttpTaskStep \/ CreateSocket \/ BindSocket \/ CaptdnsRecv \/ Lost \/ UNCHANGED vars
      BY <3>2 DEF HttpTaskStep, CreateSocket, BindSocket, CaptdnsRecv, Lost, web, vars
    <3>3. CASE SendQuery \/ Resolved \/ Follow
      BY <3>3 DEF SendQuery, Resolved, Follow
    <3>4. CASE Preflight \/ StartRouting \/ CgiNotFound \/ TryNextRoute \/ CgiNoMemory
      BY <3>4 DEF Preflight, StartRouting, CgiNotFound, TryNextRoute, CgiNoMemory
    <3> QED
      BY <2>2, <3>1, <3>2, <3>3, <3>4 DEF Next, ServerStep
  <2> QED
    BY <2>1, <2>2
<1> QED
  BY <1>1, <1>2, <1>3, PTL DEF Spec, OnlyUsersChange

-----------------------------------------------------------------------------
(* The tables of the application                                            *)

\* The fields of the three kinds of routes.
LEMMA Constructors ==
  /\ \A url, cgi : /\ Route(url, cgi).cgi = cgi /\ Route(url, cgi).url = url
                   /\ Route(url, cgi).wild = FALSE
  /\ \A url, tpl : TplRoute(url, tpl).cgi = "cgiEspFsTemplate"
  /\ \A url, to : RedirectRoute(url, to).cgi = "cgiRedirect"
BY DEF Route, TplRoute, RedirectRoute

\* Only the ninth of the routes stores the settings of the station, and none asks for a password.
LEMMA BuiltInRoutes ==
  /\ Len(BuiltInUrls) = 21 /\ DOMAIN BuiltInUrls = 1..21
  /\ BuiltInUrls[9] = Route(ConnectCgi, "cgiWiFiConnect")
  /\ \A k \in 1..21 :
       BuiltInUrls[k].cgi # "authBasic" /\ (k # 9 => BuiltInUrls[k].cgi # "cgiWiFiConnect")
<1> DEFINE Plain(k) == BuiltInUrls[k].cgi \notin {"authBasic", "cgiWiFiConnect"}
<1>1. Len(BuiltInUrls) = 21 /\ DOMAIN BuiltInUrls = 1..21
  BY DEF BuiltInUrls
<1>2. BuiltInUrls[9] = Route(ConnectCgi, "cgiWiFiConnect")
  BY DEF BuiltInUrls
<1>3. Plain(1) /\ Plain(2) /\ Plain(3) /\ Plain(4) /\ Plain(5) /\ Plain(6)
  BY Constructors DEF BuiltInUrls
<1>4. Plain(7) /\ Plain(8) /\ Plain(10) /\ Plain(11) /\ Plain(12) /\ Plain(13)
  BY Constructors DEF BuiltInUrls
<1>5. Plain(14) /\ Plain(15) /\ Plain(16) /\ Plain(17) /\ Plain(18) /\ Plain(19)
  BY Constructors DEF BuiltInUrls
<1>6. Plain(20) /\ Plain(21)
  BY Constructors DEF BuiltInUrls
<1>7. ASSUME NEW k \in 1..21
      PROVE  BuiltInUrls[k].cgi # "authBasic" /\ (k # 9 => BuiltInUrls[k].cgi # "cgiWiFiConnect")
  <2>1. CASE k = 9
    BY <1>2, <2>1, Constructors
  <2>2. CASE k # 9
    <3>1. k \in 1..6 \/ k \in {7, 8, 10, 11, 12, 13} \/ k \in 14..19 \/ k \in 20..21
      BY <2>2
    <3>2. CASE k \in 1..6
      <4>1. k = 1 \/ k = 2 \/ k = 3 \/ k = 4 \/ k = 5 \/ k = 6
        BY <3>2
      <4>2. Plain(k)
        <5> HIDE DEF Plain
        <5> QED
          BY <1>3, <4>1
      <4> QED
        BY <4>2
    <3>3. CASE k \in {7, 8, 10, 11, 12, 13}
      <4>1. Plain(k)
        <5> HIDE DEF Plain
        <5> QED
          BY <1>4, <3>3
      <4> QED
        BY <4>1
    <3>4. CASE k \in 14..19
      <4>1. k = 14 \/ k = 15 \/ k = 16 \/ k = 17 \/ k = 18 \/ k = 19
        BY <3>4
      <4>2. Plain(k)
        <5> HIDE DEF Plain
        <5> QED
          BY <1>5, <4>1
      <4> QED
        BY <4>2
    <3>5. CASE k \in 20..21
      <4>1. k = 20 \/ k = 21
        BY <3>5
      <4>2. Plain(k)
        <5> HIDE DEF Plain
        <5> QED
          BY <1>6, <4>1
      <4> QED
        BY <4>2
    <3> QED
      BY <3>1, <3>2, <3>3, <3>4, <3>5
  <2> QED
    BY <2>1, <2>2
<1> QED
  BY <1>1, <1>2, <1>7

\* The directory of the pages for WiFi.
WifiPages == <<Slash, "wifi", Slash>>

ShippedTables ==
  \A t \in Tables :
    t = BuiltInUrls \/ \E host \in HostName : t = CaptiveRoutes(host, WifiPages) \o BuiltInUrls

\* A table with the routes of a captive portal: two before the built-in ones.
IsCaptive(t) ==
  /\ DOMAIN t = 1..23
  /\ t[1].cgi = "cgiRedirectToHostname"
  /\ t[2].cgi = "authBasic" /\ t[2].wild /\ t[2].url = WifiPages
  /\ t[11] = Route(ConnectCgi, "cgiWiFiConnect")
  /\ \A k \in 3..23 : t[k].cgi # "authBasic" /\ (k # 11 => t[k].cgi # "cgiWiFiConnect")

\* The table of an access point with a captive portal and a password.
LEMMA CaptiveTable ==
  ASSUME NEW host, NEW t, t = CaptiveRoutes(host, WifiPages) \o BuiltInUrls
  PROVE  IsCaptive(t)
<1> DEFINE R == {BuiltInUrls[k] : k \in 1..21} \cup {CaptiveRoutes(host, WifiPages)[k] : k \in 1..2}
<1>1. /\ Len(CaptiveRoutes(host, WifiPages)) = 2 /\ DOMAIN CaptiveRoutes(host, WifiPages) = 1..2
      /\ CaptiveRoutes(host, WifiPages)[1].cgi = "cgiRedirectToHostname"
      /\ CaptiveRoutes(host, WifiPages)[2].cgi = "authBasic"
      /\ CaptiveRoutes(host, WifiPages)[2].wild
      /\ CaptiveRoutes(host, WifiPages)[2].url = WifiPages
  BY DEF CaptiveRoutes
<1>2. CaptiveRoutes(host, WifiPages) \in Seq(R)
  <2>1. \A k \in 1..2 : CaptiveRoutes(host, WifiPages)[k] \in R
    OBVIOUS
  <2> HIDE DEF R
  <2>2. CaptiveRoutes(host, WifiPages)[1] \in R /\ CaptiveRoutes(host, WifiPages)[2] \in R
    BY <2>1
  <2> QED
    BY <2>2 DEF CaptiveRoutes
<1>3. BuiltInUrls \in Seq(R)
  <2>1. \A k \in 1..21 : BuiltInUrls[k] \in R
    OBVIOUS
  <2> HIDE DEF R
  <2> QED
    BY <2>1, BuiltInRoutes DEF BuiltInUrls
<1> HIDE DEF R
<1>4. PICK s \in Seq(R), b \in Seq(R) :
        s = CaptiveRoutes(host, WifiPages) /\ b = BuiltInUrls /\ Len(s) = 2 /\ Len(b) = 21
  BY <1>1, <1>2, <1>3, BuiltInRoutes, Zenon
<1>5. /\ t \in Seq(R) /\ Len(t) = 23
      /\ \A i \in 1..23 : t[i] = IF i <= 2 THEN s[i] ELSE b[i - 2]
  <2>1. t = s \o b /\ 2 + 21 = 23
    BY <1>4
  <2>2. /\ s \o b \in Seq(R) /\ Len(s \o b) = Len(s) + Len(b)
        /\ \A i \in 1..Len(s) + Len(b) : (s \o b)[i] = IF i <= Len(s) THEN s[i] ELSE b[i - Len(s)]
    BY ConcatProperties
  <2>3. \A i \in 1..Len(s) + Len(b) : (s \o b)[i] = IF i <= 2 THEN s[i] ELSE b[i - 2]
    BY <1>4, <2>2, Zenon
  <2> QED
    BY <1>4, <2>1, <2>2, <2>3, Zenon
<1>6. DOMAIN t = 1..23
  BY <1>5, LenProperties
<1>7. t[1] = s[1] /\ t[2] = s[2] /\ t[11] = b[9]
  <2>1. 1 \in 1..23 /\ 2 \in 1..23 /\ 11 \in 1..23 /\ 1 <= 2 /\ 2 <= 2 /\ ~(11 <= 2) /\ 11 - 2 = 9
    OBVIOUS
  <2>2. t[11] = b[11 - 2]
    BY <1>5, <2>1, Zenon
  <2> QED
    BY <1>5, <2>1, <2>2, Zenon
<1>8. ASSUME NEW k \in 3..23
      PROVE  t[k].cgi # "authBasic" /\ (k # 11 => t[k].cgi # "cgiWiFiConnect")
  <2>1. k \in 1..23 /\ ~(k <= 2) /\ k - 2 \in 1..21 /\ (k # 11 => k - 2 # 9)
    OBVIOUS
  <2>2. t[k] = b[k - 2]
    BY <1>5, <2>1, Zenon
  <2> QED
    BY <1>4, <2>1, <2>2, BuiltInRoutes, Zenon
<1> QED
  BY <1>1, <1>4, <1>6, <1>7, <1>8, BuiltInRoutes, Zenon DEF IsCaptive

\* The pages for WiFi, and what is sent to them, are below the password.
LEMMA ShippedAreGuarded == ShippedTables => GuardedTables
<1> SUFFICES ASSUME ShippedTables, NEW t \in Tables PROVE AuthFirst(t) /\ SettingsBelowAuth(t)
  BY DEF GuardedTables
<1>1. CASE t = BuiltInUrls
  <2>1. \A k \in DOMAIN t : t[k].cgi # "authBasic"
    BY <1>1, BuiltInRoutes
  <2> QED
    BY <2>1 DEF AuthFirst, SettingsBelowAuth
<1>2. ASSUME NEW host \in HostName, t = CaptiveRoutes(host, WifiPages) \o BuiltInUrls
      PROVE  AuthFirst(t) /\ SettingsBelowAuth(t)
  <2>1. /\ DOMAIN t = 1..23
        /\ t[1].cgi = "cgiRedirectToHostname"
        /\ t[2].cgi = "authBasic" /\ t[2].wild /\ t[2].url = WifiPages
        /\ t[11] = Route(ConnectCgi, "cgiWiFiConnect")
        /\ \A k \in 3..23 :
             t[k].cgi # "authBasic" /\ (k # 11 => t[k].cgi # "cgiWiFiConnect")
    <3>1. IsCaptive(t)
      BY <1>2, CaptiveTable
    <3> QED
      BY <3>1, Zenon DEF IsCaptive
  <2>2. \A k \in 1..23 : k = 1 \/ k = 2 \/ k \in 3..23
    OBVIOUS
  <2>3. AuthFirst(t)
    <3> SUFFICES ASSUME NEW j \in DOMAIN t, NEW k \in DOMAIN t,
                        j < k, t[k].cgi = "authBasic", t[j].cgi \notin OnlyRedirect
                 PROVE  FALSE
      BY DEF AuthFirst
    <3>1. k = 2
      BY <2>1, <2>2
    <3>2. j = 1
      BY <2>1, <2>2, <3>1
    <3> QED
      BY <2>1, <3>2 DEF OnlyRedirect
  <2>4. SettingsBelowAuth(t)
    <3> SUFFICES ASSUME NEW j \in DOMAIN t, NEW url \in Url,
                        t[j].cgi = "cgiWiFiConnect", Matches(t[j], url)
                 PROVE  \E k \in DOMAIN t : t[k].cgi = "authBasic" /\ Matches(t[k], url)
      BY DEF SettingsBelowAuth
    <3>1. j = 11
      BY <2>1, <2>2
    <3>2. url = ConnectCgi
      BY <2>1, <3>1, Constructors DEF Matches
    <3>3. IsPrefix(WifiPages, ConnectCgi)
      <4> DEFINE S == {Slash, "wifi", "connect.cgi"}
      <4>1. /\ Len(WifiPages) = 3 /\ Len(ConnectCgi) = 4
            /\ \A i \in 1..3 : WifiPages[i] \in S /\ WifiPages[i] = ConnectCgi[i]
        BY DEF WifiPages, ConnectCgi
      <4>2. /\ SubSeq(WifiPages, 1, 3) \in Seq(S) /\ Len(SubSeq(WifiPages, 1, 3)) = 3
            /\ \A i \in 1..3 : SubSeq(WifiPages, 1, 3)[i] = WifiPages[i]
        BY <4>1, SubSeqProperties
      <4>3. /\ SubSeq(ConnectCgi, 1, 3) \in Seq(S) /\ Len(SubSeq(ConnectCgi, 1, 3)) = 3
            /\ \A i \in 1..3 : SubSeq(ConnectCgi, 1, 3)[i] = ConnectCgi[i]
        BY <4>1, SubSeqProperties
      <4>4. SubSeq(WifiPages, 1, 3) = SubSeq(ConnectCgi, 1, 3)
        BY <4>1, <4>2, <4>3, SeqEqual
      <4> QED
        BY <4>1, <4>4 DEF IsPrefix
    <3> QED
      BY <2>1, <3>2, <3>3 DEF Matches
  <2> QED
    BY <2>3, <2>4
<1> QED
  BY <1>1, <1>2 DEF ShippedTables

\* With the routes of builtInUrls, and a password for the WiFi pages put before them (ROUTE_AUTH),
\* nobody gets a page there or sets the station without it (authBasic, httpdProcessRequest).
THEOREM WifiPagesAreGuarded ==
  ASSUME ProperLogins, ShippedTables
  PROVE  Spec => []OnlyWithPassword
<1>1. GuardedTables
  BY ShippedAreGuarded
<1> QED
  BY <1>1, PasswordGuards

-----------------------------------------------------------------------------
(* Forms                                                                    *)

\* Cutting twice is cutting once.
LEMMA FirstOfFirst ==
  ASSUME NEW text \in Seq(Nat), NEW m \in Nat, NEW n \in 0..m
  PROVE  First(First(text, m), n) = First(text, n)
<1>1. PICK l \in Nat : l = Len(text)
  BY LenProperties
<1>2. \A i \in 1..l : text[i] \in Nat
  BY <1>1, ElementOfSeq
<1>3. CASE l < m
  <2>1. First(text, m) = text
    BY <1>1, <1>3, SubSeqFull DEF First
  <2> QED
    BY <2>1
<1>4. CASE ~(l < m)
  <2>1. First(text, m) = SubSeq(text, 1, m)
    BY <1>1, <1>4 DEF First
  <2>2. PICK t \in Seq(Nat) :
          t = SubSeq(text, 1, m) /\ Len(t) = m /\ \A i \in 1..m : t[i] = text[i]
    <3>1. \A i \in 1..m : text[i] \in Nat
      BY <1>2, <1>4
    <3>2. /\ SubSeq(text, 1, m) \in Seq(Nat) /\ Len(SubSeq(text, 1, m)) = m
          /\ \A i \in 1..m : SubSeq(text, 1, m)[i] = text[i]
      BY <3>1, SubSeqProperties
    <3> QED
      BY <3>2, Zenon
  <2>3. First(t, n) = SubSeq(t, 1, n)
    <3>1. m < n => FALSE
      OBVIOUS
    <3>2. m = n \/ ~(m < n)
      OBVIOUS
    <3>3. ~(m < n)
      BY <3>1
    <3> QED
      BY <2>2, <3>3, Zenon DEF First
  <2>4. First(text, n) = SubSeq(text, 1, n)
    <3>1. ~(l < n)
      BY <1>4
    <3> QED
      BY <1>1, <3>1, Zenon DEF First
  <2>5. SubSeq(t, 1, n) = SubSeq(text, 1, n)
    <3>1. /\ SubSeq(t, 1, n) \in Seq(Nat) /\ Len(SubSeq(t, 1, n)) = n
          /\ \A i \in 1..n : SubSeq(t, 1, n)[i] = t[i]
      <4>1. \A i \in 1..n : t[i] \in Nat
        BY <2>2, ElementOfSeq
      <4> QED
        BY <4>1, SubSeqProperties
    <3>2. /\ SubSeq(text, 1, n) \in Seq(Nat) /\ Len(SubSeq(text, 1, n)) = n
          /\ \A i \in 1..n : SubSeq(text, 1, n)[i] = text[i]
      <4>1. \A i \in 1..n : text[i] \in Nat
        BY <1>2, <1>4
      <4> QED
        BY <4>1, SubSeqProperties
    <3>3. \A i \in 1..n : SubSeq(t, 1, n)[i] = SubSeq(text, 1, n)[i]
      BY <2>2, <3>1, <3>2
    <3> QED
      BY <3>1, <3>2, <3>3, SeqEqual
  <2> QED
    BY <2>1, <2>2, <2>3, <2>4, <2>5
<1> QED
  BY <1>3, <1>4

\* The characters that a browser puts into a form for those that were typed.
FormChar == PlainChar \cup {Plus, PercentSign}

\* A digit is written as a letter or a figure and read back as itself (httpdHexVal).
LEMMA HexDigits ==
  \A n \in 0..15 : HexDigit(n) \in PlainChar /\ HexDigit(n) \in Byte /\ HexVal(HexDigit(n)) = n
<1>1. TAKE n \in 0..15
<1>2. CASE n < 10
  <2>1. HexDigit(n) = 48 + n
    BY <1>2 DEF HexDigit
  <2>2. 48 + n \in 48..57 /\ 48 + n - 48 = n
    BY <1>2
  <2> QED BY <2>1, <2>2 DEF PlainChar, Byte, HexVal
<1>3. CASE ~(n < 10)
  <2>1. HexDigit(n) = 65 + n - 10
    BY <1>3 DEF HexDigit
  <2>2. 65 + n - 10 \in 65..70 /\ 65 + n - 10 - 65 + 10 = n
    BY <1>3
  <2>3. HexVal(65 + n - 10) = 65 + n - 10 - 65 + 10
    BY <2>2 DEF HexVal
  <2> QED BY <2>1, <2>2, <2>3 DEF PlainChar, Byte
<1> QED BY <1>2, <1>3

\* A byte is its two halves.
LEMMA Nibbles ==
  \A c \in 0..255 : c \div 16 \in 0..15 /\ c % 16 \in 0..15 /\ (c \div 16) * 16 + (c % 16) = c
OBVIOUS

\* A character is written as it is, as a plus sign, or as an escape.
Escape(c) == <<PercentSign, HexDigit(c \div 16), HexDigit(c % 16)>>

\* The three ways a browser writes a character.
LEMMA CharCodes ==
  ASSUME NEW c \in 1..255
  PROVE  /\ EncodedChar(c) \in Seq(FormChar)
         /\ \/ EncodedChar(c) = <<c>> /\ c \in PlainChar
            \/ EncodedChar(c) = <<Plus>> /\ c = Space
            \/ EncodedChar(c) = Escape(c)
<1>1. CASE c \in PlainChar
  BY <1>1 DEF EncodedChar, FormChar
<1>2. CASE c \notin PlainChar /\ c = Space
  BY <1>2 DEF EncodedChar, FormChar
<1>3. CASE c \notin PlainChar /\ c # Space
  <2>1. c \div 16 \in 0..15 /\ c % 16 \in 0..15
    BY Nibbles
  <2>2. HexDigit(c \div 16) \in FormChar /\ HexDigit(c % 16) \in FormChar /\ PercentSign \in FormChar
    BY <2>1, HexDigits DEF FormChar
  <2>3. EncodedChar(c) = Escape(c)
    BY <1>3 DEF EncodedChar, Escape
  <2>4. Escape(c) \in Seq(FormChar)
    <3>1. \A x, y, z \in FormChar : <<x, y, z>> \in Seq(FormChar)
      OBVIOUS
    <3> QED BY <2>2, <3>1, Zenon DEF Escape
  <2> QED BY <2>3, <2>4
<1> QED BY <1>1, <1>2, <1>3

Writes(E, text) ==
  /\ E[0] = <<>>
  /\ \A n \in 1..Len(text) : E[n] = E[n - 1] \o EncodedChar(text[n])
  /\ \A n \in 0..Len(text) : E[n] \in Seq(FormChar)

\* What a form is written with separates no fields and no lines.
LEMMA FormCharIsByte == FormChar \subseteq Byte /\ FormChar \cap {CR, LF, Ampersand, EqualsSign} = {}
BY DEF FormChar, PlainChar, Byte, Plus, PercentSign, CR, LF, Ampersand, EqualsSign

\* The text that a browser makes of a value, one character after the other.
LEMMA WritesRuns ==
  ASSUME NEW text \in Seq(1..255)
  PROVE  \E E : Writes(E, text) /\ Encoded(text) = E[Len(text)]
<1> DEFINE step == [c \in Byte |-> [s \in Seq(Byte) |-> s \o EncodedChar(c)]]
<1>1. Len(text) \in Nat /\ \A n \in 1..Len(text) : text[n] \in 1..255 /\ text[n] \in Byte
  BY LenProperties, ElementOfSeq DEF Byte
<1>2. PICK E : /\ E[0] = <<>>
               /\ \A n \in 1..Len(text) : E[n] = step[text[n]][E[n - 1]]
               /\ Loop(step, <<>>, text) = E[Len(text)]
  <2> HIDE DEF step
  <2>1. ASSUME NEW t, Len(t) \in Nat, NEW s0
        PROVE  \E E : /\ E[0] = s0
                      /\ \A n \in 1..Len(t) : E[n] = step[t[n]][E[n - 1]]
                      /\ Loop(step, s0, t) = E[Len(t)]
    BY <2>1, LoopRuns
  <2> QED BY <1>1, <2>1, Zenon
<1> DEFINE T == {n \in 0..Len(text) : E[n] \in Seq(FormChar)}
<1>3. 0 \in T
  <2>1. E[0] \in Seq(FormChar)
    BY <1>2, EmptySeq, Zenon
  <2> QED BY <1>1, <2>1
<1>4. ASSUME NEW n \in 1..Len(text), E[n - 1] \in Seq(FormChar)
      PROVE  E[n] = E[n - 1] \o EncodedChar(text[n])
  <2>1. E[n - 1] \in Seq(Byte) /\ text[n] \in Byte
    BY <1>1, <1>4, FormCharIsByte, SeqMonotonic
  <2>2. step[text[n]][E[n - 1]] = E[n - 1] \o EncodedChar(text[n])
    BY <2>1
  <2> HIDE DEF step
  <2> QED BY <1>2, <2>2
<1>5. ASSUME NEW n \in 1..Len(text), n - 1 \in T PROVE n \in T
  <2>1. E[n - 1] \in Seq(FormChar)
    BY <1>5
  <2>2. E[n] = E[n - 1] \o EncodedChar(text[n])
    BY <1>4, <2>1
  <2>3. EncodedChar(text[n]) \in Seq(FormChar)
    BY <1>1, CharCodes
  <2>4. E[n - 1] \o EncodedChar(text[n]) \in Seq(FormChar)
    BY <2>1, <2>3, ConcatProperties
  <2>5. E[n] \in Seq(FormChar)
    BY <2>2, <2>4, Zenon
  <2> HIDE DEF step
  <2> QED BY <1>1, <2>5
<1>6. \A n \in 0..Len(text) : E[n] \in Seq(FormChar)
  <2>1. \A n \in 0..Len(text) : n \in T
    <3> HIDE DEF T, step
    <3> QED BY <1>1, <1>3, <1>5, AllPasses
  <2> QED BY <2>1
<1>7. Writes(E, text)
  <2>1. ASSUME NEW n \in 1..Len(text) PROVE E[n] = E[n - 1] \o EncodedChar(text[n])
    <3>1. n - 1 \in 0..Len(text)
      BY <1>1
    <3> HIDE DEF step
    <3> QED BY <1>4, <1>6, <3>1
  <2> HIDE DEF step
  <2> QED BY <1>2, <1>6, <2>1 DEF Writes
<1>8. Encoded(text) = E[Len(text)]
  BY <1>2, Zenon DEF Encoded
<1> QED
  <2> HIDE DEF step
  <2> QED BY <1>7, <1>8

UrlStart == [esced |-> 0, val |-> 0, ret |-> <<>>]
UrlStep(s, c, room) == IF Len(s.ret) < room THEN DecodeChar(s, c) ELSE s

Unescapes(D, val, room) ==
  /\ D[0] = UrlStart
  /\ \A n \in 1..Len(val) : D[n - 1] \in DecodeState => D[n] = UrlStep(D[n - 1], val[n], room)

\* The passes of httpdUrlDecode.
LEMMA UrlRuns ==
  ASSUME NEW val \in Seq(Byte), NEW room
  PROVE  \E D : Unescapes(D, val, room) /\ UrlDecode(val, room) = D[Len(val)].ret
<1> DEFINE step == [c \in Byte |-> [s \in DecodeState |-> UrlStep(s, c, room)]]
<1>1. Len(val) \in Nat /\ \A n \in 1..Len(val) : val[n] \in Byte
  BY LenProperties, ElementOfSeq
<1>2. PICK D : /\ D[0] = UrlStart
               /\ \A n \in 1..Len(val) : D[n] = step[val[n]][D[n - 1]]
               /\ Loop(step, UrlStart, val) = D[Len(val)]
  <2> HIDE DEF step
  <2> QED BY <1>1, LoopRuns
<1>3. ASSUME NEW n \in 1..Len(val), D[n - 1] \in DecodeState
      PROVE  D[n] = UrlStep(D[n - 1], val[n], room)
  <2>1. val[n] \in Byte
    BY <1>1
  <2>2. step[val[n]][D[n - 1]] = UrlStep(D[n - 1], val[n], room)
    BY <1>3, <2>1
  <2> HIDE DEF step
  <2> QED BY <1>2, <2>2
<1>4. Unescapes(D, val, room)
  <2> HIDE DEF step
  <2> QED BY <1>2, <1>3 DEF Unescapes
<1>5. UrlDecode(val, room) = D[Len(val)].ret
  BY <1>2, Zenon DEF UrlDecode, UrlStart, UrlStep
<1> QED
  <2> HIDE DEF step
  <2> QED BY <1>4, <1>5

\* What httpdUrlDecode does with one character.
LEMMA DecodeCharIs ==
  ASSUME NEW s \in DecodeState, NEW c \in Byte
  PROVE  /\ s.esced = 0 /\ c = PercentSign =>
              DecodeChar(s, c) \in DecodeState /\ DecodeChar(s, c).esced = 1 /\ DecodeChar(s, c).ret = s.ret
         /\ s.esced = 0 /\ c # PercentSign =>
              /\ DecodeChar(s, c) \in DecodeState /\ DecodeChar(s, c).esced = 0
              /\ DecodeChar(s, c).ret = Append(s.ret, IF c = Plus THEN Space ELSE c)
         /\ s.esced = 1 =>
              /\ DecodeChar(s, c) \in DecodeState /\ DecodeChar(s, c).esced = 2
              /\ DecodeChar(s, c).ret = s.ret /\ DecodeChar(s, c).val = HexVal(c) * 16
         /\ s.esced = 2 /\ s.val + HexVal(c) \in Byte =>
              /\ DecodeChar(s, c) \in DecodeState /\ DecodeChar(s, c).esced = 0
              /\ DecodeChar(s, c).ret = Append(s.ret, s.val + HexVal(c))
<1>1. HexVal(c) \in 0..15
  BY DEF HexVal, Byte
<1>2. ASSUME s.esced = 0, c = PercentSign
      PROVE  /\ DecodeChar(s, c) \in DecodeState /\ DecodeChar(s, c).esced = 1
             /\ DecodeChar(s, c).ret = s.ret
  <2>1. PICK t : t = [s EXCEPT !.esced = 1]
    OBVIOUS
  <2>2. DecodeChar(s, c) = t
    BY <1>2, <2>1 DEF DecodeChar
  <2>3. t \in DecodeState
    <3>1. PICK n \in 0..2 : n = 1
      OBVIOUS
    <3>2. [s EXCEPT !.esced = n] \in DecodeState
      BY DEF DecodeState
    <3> QED BY <2>1, <3>1, <3>2, Zenon
  <2>4. t.esced = 1 /\ t.ret = s.ret
    BY <2>1 DEF DecodeState
  <2> QED BY <2>2, <2>3, <2>4, Zenon
<1>3. ASSUME s.esced = 0, c # PercentSign
      PROVE  /\ DecodeChar(s, c) \in DecodeState /\ DecodeChar(s, c).esced = 0
             /\ DecodeChar(s, c).ret = Append(s.ret, IF c = Plus THEN Space ELSE c)
  <2>1. PICK o \in Seq(Byte) : o = Append(s.ret, IF c = Plus THEN Space ELSE c)
    <3>1. (IF c = Plus THEN Space ELSE c) \in Byte
      BY DEF Space, Byte
    <3>2. Append(s.ret, IF c = Plus THEN Space ELSE c) \in Seq(Byte)
      BY <3>1, AppendProperties DEF DecodeState
    <3> QED BY <3>2
  <2>2. PICK t : t = [s EXCEPT !.ret = o]
    OBVIOUS
  <2>3. DecodeChar(s, c) = t
    BY <1>3, <2>1, <2>2 DEF DecodeChar
  <2>4. t \in DecodeState
    BY <2>2 DEF DecodeState
  <2>5. t.esced = 0 /\ t.ret = o
    BY <1>3, <2>2 DEF DecodeState
  <2> QED BY <2>1, <2>3, <2>4, <2>5, Zenon
<1>4. ASSUME s.esced = 1
      PROVE  /\ DecodeChar(s, c) \in DecodeState /\ DecodeChar(s, c).esced = 2
             /\ DecodeChar(s, c).ret = s.ret /\ DecodeChar(s, c).val = HexVal(c) * 16
  <2>1. PICK v \in 0..240 : v = HexVal(c) * 16
    <3>1. HexVal(c) * 16 \in 0..240
      BY <1>1
    <3> QED BY <3>1
  <2>2. PICK t : t = [s EXCEPT !.esced = 2, !.val = v]
    OBVIOUS
  <2>3. DecodeChar(s, c) = t
    BY <1>4, <2>1, <2>2 DEF DecodeChar
  <2>4. t \in DecodeState
    <3>1. PICK n \in 0..2 : n = 2
      OBVIOUS
    <3>2. [s EXCEPT !.esced = n, !.val = v] \in DecodeState
      BY DEF DecodeState
    <3> QED BY <2>2, <3>1, <3>2, Zenon
  <2>5. t.esced = 2 /\ t.ret = s.ret /\ t.val = v
    BY <2>2 DEF DecodeState
  <2> QED BY <2>1, <2>3, <2>4, <2>5, Zenon
<1>5. ASSUME s.esced = 2, s.val + HexVal(c) \in Byte
      PROVE  /\ DecodeChar(s, c) \in DecodeState /\ DecodeChar(s, c).esced = 0
             /\ DecodeChar(s, c).ret = Append(s.ret, s.val + HexVal(c))
  <2>1. PICK o \in Seq(Byte) : o = Append(s.ret, s.val + HexVal(c))
    <3>1. Append(s.ret, s.val + HexVal(c)) \in Seq(Byte)
      BY <1>5, AppendProperties DEF DecodeState
    <3> QED BY <3>1
  <2>2. PICK t : t = [s EXCEPT !.esced = 0, !.ret = o]
    OBVIOUS
  <2>3. DecodeChar(s, c) = t
    BY <1>5, <2>1, <2>2 DEF DecodeChar
  <2>4. t \in DecodeState
    <3>1. PICK n \in 0..2 : n = 0
      OBVIOUS
    <3>2. [s EXCEPT !.esced = n, !.ret = o] \in DecodeState
      BY DEF DecodeState
    <3> QED BY <2>2, <3>1, <3>2, Zenon
  <2>5. t.esced = 0 /\ t.ret = o
    BY <2>2 DEF DecodeState
  <2> QED BY <2>1, <2>3, <2>4, <2>5, Zenon
<1> QED BY <1>2, <1>3, <1>4, <1>5, Zenon

\* What the decoder has after the n first characters of a text, cut to the room there is.
Unescaped(d, n, text, room) ==
  /\ d \in DecodeState /\ d.esced = 0
  /\ Len(d.ret) = IF n < room THEN n ELSE room
  /\ \A i \in 1..Len(d.ret) : d.ret[i] = text[i]

\* A character that is read while there is room is appended.
LEMMA OneMore ==
  ASSUME NEW text, NEW n \in Nat, NEW room \in Nat, NEW d, Unescaped(d, n, text, room), Len(d.ret) < room,
         NEW e \in DecodeState, e.esced = 0, e.ret = Append(d.ret, text[n + 1]), text[n + 1] \in Byte
  PROVE  Unescaped(e, n + 1, text, room)
<1>1. d.ret \in Seq(Byte)
  BY DEF Unescaped, DecodeState
<1>2. /\ Len(e.ret) = Len(d.ret) + 1 /\ \A i \in 1..Len(d.ret) : e.ret[i] = d.ret[i]
      /\ e.ret[Len(d.ret) + 1] = text[n + 1]
  BY <1>1, AppendProperties
<1>3. Len(d.ret) = n /\ n < room
  BY DEF Unescaped
<1>4. Len(e.ret) = IF n + 1 < room THEN n + 1 ELSE room
  BY <1>2, <1>3
<1>5. \A i \in 1..Len(e.ret) : e.ret[i] = text[i]
  <2>1. TAKE i \in 1..Len(e.ret)
  <2>2. CASE i = n + 1
    BY <1>2, <1>3, <2>2
  <2>3. CASE i # n + 1
    <3>1. i \in 1..Len(d.ret)
      BY <1>2, <1>3, <2>3
    <3> QED BY <1>2, <3>1 DEF Unescaped
  <2> QED BY <2>2, <2>3
<1> QED BY <1>4, <1>5 DEF Unescaped

\* One that is read when there is none is dropped.
LEMMA NoRoom ==
  ASSUME NEW text, NEW n \in Nat, NEW room \in Nat, NEW d, Unescaped(d, n, text, room), ~(Len(d.ret) < room)
  PROVE  Unescaped(d, n + 1, text, room)
BY DEF Unescaped

\* A character that is written as one sign is read as itself.
LEMMA ReadsSign ==
  ASSUME NEW text, NEW n \in Nat, NEW room \in Nat, NEW d, Unescaped(d, n, text, room),
         NEW c \in Byte, c # PercentSign, text[n + 1] = (IF c = Plus THEN Space ELSE c), text[n + 1] \in Byte
  PROVE  Unescaped(UrlStep(d, c, room), n + 1, text, room)
<1>1. d \in DecodeState /\ d.esced = 0
  BY DEF Unescaped
<1>2. CASE Len(d.ret) < room
  <2>1. PICK e : e = DecodeChar(d, c)
    OBVIOUS
  <2>2. e \in DecodeState /\ e.esced = 0 /\ e.ret = Append(d.ret, text[n + 1])
    BY <1>1, <2>1, DecodeCharIs
  <2>3. Unescaped(e, n + 1, text, room)
    BY <1>2, <2>2, OneMore
  <2> QED BY <1>2, <2>1, <2>3 DEF UrlStep
<1>3. CASE ~(Len(d.ret) < room)
  <2>1. UrlStep(d, c, room) = d
    BY <1>3 DEF UrlStep
  <2> QED BY <1>3, <2>1, NoRoom
<1> QED BY <1>2, <1>3

\* An escape is read as the character it stands for.
LEMMA ReadsEscape ==
  ASSUME NEW text, NEW n \in Nat, NEW room \in Nat, NEW d, Unescaped(d, n, text, room), text[n + 1] \in Byte,
         NEW d1, NEW d2, NEW d3, d1 = UrlStep(d, PercentSign, room),
         d1 \in DecodeState => d2 = UrlStep(d1, HexDigit(text[n + 1] \div 16), room),
         d2 \in DecodeState => d3 = UrlStep(d2, HexDigit(text[n + 1] % 16), room)
  PROVE  Unescaped(d3, n + 1, text, room)
<1>1. d \in DecodeState /\ d.esced = 0 /\ PercentSign \in Byte
  BY DEF Unescaped, PercentSign, Byte
<1>2. CASE Len(d.ret) < room
  <2>1. PICK c \in 0..255, h \in 0..15, l \in 0..15 :
          c = text[n + 1] /\ h = text[n + 1] \div 16 /\ l = text[n + 1] % 16 /\ h * 16 + l = c
    <3>1. PICK c \in 0..255 : c = text[n + 1]
      BY DEF Byte
    <3>2. c \div 16 \in 0..15 /\ c % 16 \in 0..15 /\ (c \div 16) * 16 + (c % 16) = c
      BY ONLY <3>1, Nibbles, Zenon
    <3>3. \E h \in 0..15, l \in 0..15 : h = c \div 16 /\ l = c % 16 /\ h * 16 + l = c
      BY ONLY <3>2, ZenonT(30)
    <3> QED BY ONLY <3>1, <3>3, ZenonT(30)
  <2>2. /\ HexDigit(h) \in Byte /\ HexVal(HexDigit(h)) = h
        /\ HexDigit(l) \in Byte /\ HexVal(HexDigit(l)) = l
    BY HexDigits
  <2>3. d1 \in DecodeState /\ d1.esced = 1 /\ d1.ret = d.ret
    <3>1. d1 = DecodeChar(d, PercentSign)
      BY <1>2 DEF UrlStep
    <3> QED BY <1>1, <3>1, DecodeCharIs
  <2>4. d2 \in DecodeState /\ d2.esced = 2 /\ d2.ret = d.ret /\ d2.val = h * 16
    <3>1. d2 = DecodeChar(d1, HexDigit(h))
      BY <1>2, <2>1, <2>3 DEF UrlStep
    <3> QED BY <2>2, <2>3, <3>1, DecodeCharIs
  <2>5. d3 \in DecodeState /\ d3.esced = 0 /\ d3.ret = Append(d.ret, text[n + 1])
    <3>1. d3 = DecodeChar(d2, HexDigit(l))
      BY <1>2, <2>1, <2>4 DEF UrlStep
    <3>2. d2.val + HexVal(HexDigit(l)) = text[n + 1]
      BY <2>1, <2>2, <2>4
    <3>3. d2.val + HexVal(HexDigit(l)) \in Byte
      BY <3>2
    <3>4. /\ DecodeChar(d2, HexDigit(l)) \in DecodeState /\ DecodeChar(d2, HexDigit(l)).esced = 0
          /\ DecodeChar(d2, HexDigit(l)).ret = Append(d2.ret, d2.val + HexVal(HexDigit(l)))
      BY <2>2, <2>4, <3>3, DecodeCharIs
    <3> QED BY <2>4, <3>1, <3>2, <3>4, Zenon
  <2> QED BY <1>2, <2>5, OneMore
<1>3. CASE ~(Len(d.ret) < room)
  <2>1. \A c : UrlStep(d, c, room) = d
    BY <1>3 DEF UrlStep
  <2>2. d3 = d
    BY <1>1, <2>1
  <2> QED BY <1>3, <2>2, NoRoom
<1> QED BY <1>2, <1>3

\* The pass that reads a character of a form.
LEMMA UrlReads ==
  ASSUME NEW val, NEW D, NEW room, Unescapes(D, val, room), NEW l \in Nat, l + 1 \in 1..Len(val),
         NEW c, val[l + 1] = c, D[l] \in DecodeState
  PROVE  D[l + 1] = UrlStep(D[l], c, room)
<1>1. PICK m \in 1..Len(val) : m = l + 1 /\ m - 1 = l
  OBVIOUS
<1> QED BY <1>1, Zenon DEF Unescapes

\* The parts of a concatenation, character by character.
LEMMA Joined ==
  ASSUME NEW S, NEW v \in Seq(S), NEW w \in Seq(S)
  PROVE  /\ v \o w \in Seq(S) /\ Len(v) \in Nat /\ Len(w) \in Nat /\ Len(v \o w) = Len(v) + Len(w)
         /\ \A i \in 1..Len(v) : (v \o w)[i] = v[i]
         /\ \A i \in 1..Len(w) : (v \o w)[Len(v) + i] = w[i]
<1>1. PICK l \in Nat, k \in Nat : l = Len(v) /\ k = Len(w)
  BY LenProperties
<1>2. PICK u \in Seq(S) :
        u = v \o w /\ Len(u) = l + k /\ \A i \in 1..l + k : u[i] = IF i <= l THEN v[i] ELSE w[i - l]
  <2>1. /\ v \o w \in Seq(S) /\ Len(v \o w) = Len(v) + Len(w)
        /\ \A i \in 1..Len(v) + Len(w) : (v \o w)[i] = IF i <= Len(v) THEN v[i] ELSE w[i - Len(v)]
    BY ConcatProperties
  <2> QED BY <1>1, <2>1, Zenon
<1>3. \A i \in 1..l : u[i] = v[i]
  BY <1>2
<1>4. \A i \in 1..k : u[l + i] = w[i]
  <2>1. TAKE i \in 1..k
  <2>2. l + i \in 1..l + k /\ ~(l + i <= l) /\ l + i - l = i
    OBVIOUS
  <2> QED BY <1>2, <2>2
<1> QED BY <1>1, <1>2, <1>3, <1>4, Zenon

\* What a browser has written stays, and grows by the code of each character.
LEMMA WritesGrows ==
  ASSUME NEW text \in Seq(1..255), NEW E, Writes(E, text), NEW n \in 1..Len(text)
  PROVE  /\ StartsWith(E[n], E[n - 1]) /\ StartsWith(E[Len(text)], E[n])
         /\ Len(E[n]) = Len(E[n - 1]) + Len(EncodedChar(text[n]))
         /\ \A i \in 1..Len(EncodedChar(text[n])) :
              E[n][Len(E[n - 1]) + i] = EncodedChar(text[n])[i]
<1>0. Len(text) \in Nat /\ \A m \in 1..Len(text) : text[m] \in 1..255
  BY LenProperties, ElementOfSeq
<1>1. \A m \in 0..Len(text) : E[m] \in Seq(FormChar) /\ Len(E[m]) \in Nat
  BY LenProperties DEF Writes
<1>2. ASSUME NEW m \in 1..Len(text), NEW w \in Seq(FormChar), E[m] = E[m - 1] \o w
      PROVE  /\ StartsWith(E[m], E[m - 1])
             /\ Len(E[m]) = Len(E[m - 1]) + Len(w)
             /\ \A i \in 1..Len(w) : E[m][Len(E[m - 1]) + i] = w[i]
  <2>1. m - 1 \in 0..Len(text)
    OBVIOUS
  <2>2. E[m - 1] \in Seq(FormChar) /\ Len(E[m - 1]) \in Nat /\ Len(w) \in Nat
    BY <1>1, <2>1, LenProperties
  <2>3. /\ Len(E[m - 1] \o w) = Len(E[m - 1]) + Len(w)
        /\ \A i \in 1..Len(E[m - 1]) : (E[m - 1] \o w)[i] = E[m - 1][i]
        /\ \A i \in 1..Len(w) : (E[m - 1] \o w)[Len(E[m - 1]) + i] = w[i]
    BY <2>2, Joined
  <2>4. Len(E[m - 1]) <= Len(E[m - 1]) + Len(w)
    BY <2>2
  <2> QED BY <1>2, <2>3, <2>4, Zenon DEF StartsWith
<1>3. ASSUME NEW m \in 1..Len(text)
      PROVE  /\ StartsWith(E[m], E[m - 1])
             /\ Len(E[m]) = Len(E[m - 1]) + Len(EncodedChar(text[m]))
             /\ \A i \in 1..Len(EncodedChar(text[m])) :
                  E[m][Len(E[m - 1]) + i] = EncodedChar(text[m])[i]
  <2>1. E[m] = E[m - 1] \o EncodedChar(text[m])
    BY DEF Writes
  <2>2. EncodedChar(text[m]) \in Seq(FormChar)
    BY <1>0, CharCodes
  <2> QED BY <1>2, <2>1, <2>2
<1>4. \A m \in 0..Len(text) : StartsWith(E[Len(text)], E[m])
  BY <1>0, <1>1, <1>3, Grows
<1>5. StartsWith(E[Len(text)], E[n])
  <2>1. n \in 0..Len(text)
    BY <1>0
  <2> QED BY <1>4, <2>1
<1> QED BY <1>3, <1>5

\* One character of a text is read back from what was written for it.
LEMMA ReadsBack ==
  ASSUME NEW text \in Seq(1..255), NEW E, Writes(E, text), NEW n \in 1..Len(text),
         NEW code, NEW D, NEW room \in Nat, Unescapes(D, code, room), Len(code) \in Nat,
         StartsWith(code, E[n]), Unescaped(D[Len(E[n - 1])], n - 1, text, room)
  PROVE  Unescaped(D[Len(E[n])], n, text, room)
<1>1. Len(text) \in Nat /\ n - 1 \in Nat /\ n - 1 \in 0..Len(text) /\ n \in 0..Len(text) /\ n - 1 + 1 = n
  BY LenProperties
<1>2. text[n] \in 1..255 /\ text[n] \in Byte
  BY <1>1, ElementOfSeq DEF Byte
<1>3. PICK w, l, m : w = EncodedChar(text[n]) /\ l = Len(E[n - 1]) /\ m = Len(E[n])
  OBVIOUS
<1>4. /\ w \in Seq(FormChar) /\ l \in Nat /\ Len(w) \in Nat /\ m = l + Len(w)
      /\ \A i \in 1..Len(w) : E[n][l + i] = w[i]
  <2>1. E[n - 1] \in Seq(FormChar)
    BY <1>1 DEF Writes
  <2>2. w \in Seq(FormChar)
    BY <1>2, <1>3, CharCodes
  <2> QED BY <1>3, <2>1, <2>2, WritesGrows, LenProperties
<1>5. \A i \in 1..Len(w) : l + i \in 1..Len(code) /\ code[l + i] = w[i]
  <2>1. m <= Len(code) /\ \A i \in 1..m : code[i] = E[n][i]
    BY <1>3 DEF StartsWith
  <2>2. \A i \in 1..Len(w) : l + i \in 1..m
    BY <1>4
  <2>3. TAKE i \in 1..Len(w)
  <2>4. l + i \in 1..m /\ code[l + i] = E[n][l + i] /\ E[n][l + i] = w[i]
    BY <1>4, <2>1, <2>2
  <2>5. l + i \in 1..Len(code)
    BY <1>4, <2>1, <2>4
  <2> QED BY <2>4, <2>5
<1>6. Unescaped(D[l], n - 1, text, room) /\ D[l] \in DecodeState
  BY <1>3 DEF Unescaped
<1>7. ASSUME Len(w) = 1, w[1] # PercentSign, w[1] \in Byte, text[n] = IF w[1] = Plus THEN Space ELSE w[1]
      PROVE  Unescaped(D[m], n, text, room)
  <2>1. l + 1 \in 1..Len(code) /\ code[l + 1] = w[1]
    BY <1>5, <1>7
  <2>2. D[l + 1] = UrlStep(D[l], w[1], room)
    BY <1>4, <1>6, <2>1, UrlReads
  <2>3. Unescaped(UrlStep(D[l], w[1], room), n - 1 + 1, text, room)
    BY <1>1, <1>2, <1>6, <1>7, ReadsSign
  <2> QED BY <1>1, <1>4, <1>7, <2>2, <2>3
<1>8. CASE w = <<text[n]>> /\ text[n] \in PlainChar
  <2>1. Len(w) = 1 /\ w[1] = text[n]
    BY <1>8
  <2>2. text[n] # PercentSign /\ text[n] # Plus
    <3>1. \A c \in PlainChar : c # PercentSign /\ c # Plus
      BY DEF PlainChar, PercentSign, Plus
    <3> QED BY <1>8, <3>1
  <2> QED BY <1>2, <1>3, <1>7, <2>1, <2>2
<1>9. CASE w = <<Plus>> /\ text[n] = Space
  <2>1. Len(w) = 1 /\ w[1] = Plus
    BY <1>9
  <2>2. Plus # PercentSign /\ Plus \in Byte
    BY DEF PercentSign, Plus, Byte
  <2> QED BY <1>3, <1>7, <1>9, <2>1, <2>2
<1>10. CASE w = Escape(text[n])
  <2>1. /\ Len(w) = 3 /\ w[1] = PercentSign /\ w[2] = HexDigit(text[n] \div 16)
        /\ w[3] = HexDigit(text[n] % 16)
    BY <1>10 DEF Escape
  <2>2. /\ l + 1 \in 1..Len(code) /\ l + 2 \in 1..Len(code) /\ l + 3 \in 1..Len(code)
        /\ code[l + 1] = w[1] /\ code[l + 2] = w[2] /\ code[l + 3] = w[3]
    BY <1>5, <2>1
  <2>3. PICK l1 \in Nat, l2 \in Nat : l1 = l + 1 /\ l1 + 1 = l + 2 /\ l2 = l + 2 /\ l2 + 1 = l + 3
    BY <1>4
  <2>4. D[l1] = UrlStep(D[l], PercentSign, room)
    BY <1>4, <1>6, <2>1, <2>2, <2>3, UrlReads, SMTT(30)
  <2>5. D[l1] \in DecodeState => D[l2] = UrlStep(D[l1], HexDigit(text[n] \div 16), room)
    <3>1. SUFFICES ASSUME D[l1] \in DecodeState
                   PROVE  D[l2] = UrlStep(D[l1], HexDigit(text[n] \div 16), room)
      OBVIOUS
    <3>2. l1 + 1 \in 1..Len(code) /\ code[l1 + 1] = HexDigit(text[n] \div 16) /\ l1 + 1 = l2
      BY <2>1, <2>2, <2>3, Zenon
    <3>3. D[l1 + 1] = UrlStep(D[l1], HexDigit(text[n] \div 16), room)
      BY <3>1, <3>2, UrlReads
    <3> QED BY <3>2, <3>3, Zenon
  <2>6. D[l2] \in DecodeState => D[m] = UrlStep(D[l2], HexDigit(text[n] % 16), room)
    <3>1. SUFFICES ASSUME D[l2] \in DecodeState
                   PROVE  D[m] = UrlStep(D[l2], HexDigit(text[n] % 16), room)
      OBVIOUS
    <3>2. l2 + 1 \in 1..Len(code) /\ code[l2 + 1] = HexDigit(text[n] % 16) /\ l2 + 1 = m
      BY <1>4, <2>1, <2>2, <2>3, Zenon
    <3>3. D[l2 + 1] = UrlStep(D[l2], HexDigit(text[n] % 16), room)
      BY <3>1, <3>2, UrlReads
    <3> QED BY <3>2, <3>3, Zenon
  <2>7. PICK j \in Nat : j = n - 1 /\ j + 1 = n
    BY <1>1
  <2>8. Unescaped(D[m], j + 1, text, room)
    BY <1>2, <1>6, <2>4, <2>5, <2>6, <2>7, ReadsEscape
  <2> QED BY <1>3, <2>7, <2>8, Zenon
<1> QED BY <1>2, <1>3, <1>8, <1>9, <1>10, CharCodes

\* What a browser makes of a value, httpdUrlDecode turns back into it, cut to the room there
\* is, whatever the characters.
THEOREM FormRoundTrip ==
  ASSUME NEW text \in Seq(1..255), NEW room \in Nat
  PROVE  Encoded(text) \in Seq(FormChar) /\ UrlDecode(Encoded(text), room) = First(text, room)
<1>1. PICK E : Writes(E, text) /\ Encoded(text) = E[Len(text)]
  BY WritesRuns
<1>2. PICK N \in Nat, code \in Seq(FormChar) : N = Len(text) /\ code = E[N] /\ code = Encoded(text)
  <2>1. Len(text) \in Nat /\ Len(text) \in 0..Len(text)
    BY LenProperties
  <2>2. E[Len(text)] \in Seq(FormChar)
    BY <1>1, <2>1, Zenon DEF Writes
  <2> QED BY <1>1, <2>1, <2>2, Zenon
<1>3. code \in Seq(Byte) /\ Len(code) \in Nat
  BY FormCharIsByte, SeqMonotonic, LenProperties
<1>4. PICK D : Unescapes(D, code, room) /\ UrlDecode(code, room) = D[Len(code)].ret
  BY <1>3, UrlRuns
<1> DEFINE T == {n \in 0..N : Unescaped(D[Len(E[n])], n, text, room)}
<1>5. 0 \in T
  <2>1. UrlStart \in DecodeState /\ UrlStart.esced = 0 /\ UrlStart.ret = <<>> /\ Len(UrlStart.ret) = 0
    BY DEF UrlStart, DecodeState
  <2>2. Unescaped(UrlStart, 0, text, room)
    BY <2>1 DEF Unescaped
  <2>3. D[0] = UrlStart /\ E[0] = <<>> /\ Len(<<>>) = 0
    BY <1>1, <1>4 DEF Unescapes, Writes
  <2>4. Unescaped(D[Len(E[0])], 0, text, room)
    BY <2>2, <2>3
  <2> QED BY <2>4
<1>6. ASSUME NEW n \in 1..N, n - 1 \in T PROVE n \in T
  <2>1. n \in 1..Len(text) /\ n \in 0..N
    BY <1>2
  <2>2. StartsWith(code, E[n])
    BY <1>1, <1>2, <2>1, WritesGrows
  <2>3. Unescaped(D[Len(E[n - 1])], n - 1, text, room)
    BY <1>6
  <2>4. Unescaped(D[Len(E[n])], n, text, room)
    BY <1>1, <1>3, <1>4, <2>1, <2>2, <2>3, ReadsBack
  <2> QED BY <2>1, <2>4
<1>7. Unescaped(D[Len(code)], N, text, room)
  <2>1. \A n \in 0..N : n \in T
    <3> HIDE DEF T
    <3> QED BY <1>5, <1>6, AllPasses
  <2>2. N \in 0..N
    OBVIOUS
  <2>3. Unescaped(D[Len(E[N])], N, text, room)
    BY <2>1, <2>2
  <2> QED BY <1>2, <2>3, Zenon
<1>8. D[Len(code)].ret = First(text, room)
  <2>1. PICK ret \in Seq(Byte), m \in 0..N :
          /\ ret = D[Len(code)].ret /\ Len(ret) = m /\ m = (IF N < room THEN N ELSE room)
          /\ \A i \in 1..m : ret[i] = text[i]
    <3>1. (IF N < room THEN N ELSE room) \in 0..N
      OBVIOUS
    <3> QED BY <1>7, <3>1 DEF Unescaped, DecodeState
  <2>2. /\ SubSeq(text, 1, m) \in Seq(Byte) /\ Len(SubSeq(text, 1, m)) = m
        /\ \A i \in 1..m : SubSeq(text, 1, m)[i] = text[i]
    <3>1. \A i \in 1..m : text[i] \in Byte
      <4>1. \A i \in 1..N : text[i] \in 1..255
        BY <1>2, ElementOfSeq
      <4>2. \A i \in 1..m : i \in 1..N
        OBVIOUS
      <4> QED BY <4>1, <4>2 DEF Byte
    <3> QED BY <3>1, SubSeqProperties
  <2>3. \A i \in 1..Len(ret) : ret[i] = SubSeq(text, 1, m)[i]
    BY <2>1, <2>2
  <2>4. ret = SubSeq(text, 1, m)
    BY <2>1, <2>2, <2>3, SeqEqual
  <2> QED BY <1>2, <2>1, <2>4, Zenon DEF First
<1> QED BY <1>2, <1>4, <1>8, Zenon

FieldChar == Byte \ {CR, LF, Ampersand}
LineChar == Byte \ {CR, LF}

IsStart(line, p) == p \in 1..Len(line) + 1 /\ (p = 1 \/ line[p - 1] = Ampersand)

\* The text t of a field stands in the line at p, up to the next one or the end.
FieldAt(line, p, t) ==
  /\ p + Len(t) - 1 <= Len(line)
  /\ \A i \in 1..Len(t) : line[p + i - 1] = t[i]
  /\ p + Len(t) <= Len(line) => line[p + Len(t)] = Ampersand

\* A line of the first n fields of a form, in which a field starts wherever one may start.
IsLine(line, form, n) ==
  /\ line \in Seq(LineChar) /\ Len(line) > 0
  /\ \A p \in Nat : IsStart(line, p) => \E j \in 1..n : FieldAt(line, p, FieldText(form[j]))
  /\ \A j \in 1..n : \E p \in Nat : IsStart(line, p) /\ FieldAt(line, p, FieldText(form[j]))

\* A sequence is one of the elements that it has.
LEMMA Retyped ==
  ASSUME NEW S, NEW T, NEW s \in Seq(S), \A i \in 1..Len(s) : s[i] \in T
  PROVE  s \in Seq(T)
<1>1. Len(s) \in Nat /\ \A i \in 1..Len(s) : s[i] \in S
  BY LenProperties, ElementOfSeq
<1>2. PICK u : u = SubSeq(s, 1, Len(s))
  OBVIOUS
<1>3. ASSUME NEW V, \A i \in 1..Len(s) : s[i] \in V
      PROVE  u \in Seq(V) /\ Len(u) = Len(s) /\ \A i \in 1..Len(s) : u[i] = s[i]
  <2>1. /\ u \in Seq(V) /\ Len(u) = (IF 1 <= Len(s) THEN Len(s) - 1 + 1 ELSE 0)
        /\ \A i \in 1..Len(s) - 1 + 1 : u[i] = s[1 + i - 1]
    BY <1>1, <1>2, <1>3, SubSeqProperties
  <2> QED BY <1>1, <2>1
<1>4. u = s
  BY <1>1, <1>3, SeqEqual
<1> QED BY <1>3, <1>4

\* A field is its name, an equals sign and what was written for its value.
FieldIs(t, name, code) ==
  /\ t \in Seq(FieldChar) /\ Len(name) \in Nat /\ Len(code) \in Nat
  /\ Len(t) = Len(name) + 1 + Len(code)
  /\ \A i \in 1..Len(name) : t[i] = name[i] /\ name[i] \in PlainChar
  /\ t[Len(name) + 1] = EqualsSign
  /\ \A i \in 1..Len(code) : t[Len(name) + 1 + i] = code[i]

\* How a field of a form is written.
LEMMA FieldParts ==
  ASSUME NEW f \in FormField, Range(f.name) \subseteq PlainChar
  PROVE  /\ FieldIs(FieldText(f), f.name, Encoded(f.value))
         /\ f.name \in Seq(PlainChar) /\ Encoded(f.value) \in Seq(FormChar)
<1>1. f.name \in Seq(1..255) /\ f.value \in Seq(1..255)
  BY DEF FormField, Text
<1>2. \A i \in 1..Len(f.name) : f.name[i] \in PlainChar
  <2>1. DOMAIN f.name = 1..Len(f.name)
    BY <1>1, LenProperties
  <2> QED BY <2>1 DEF Range
<1>3. PICK name \in Seq(PlainChar) : name = f.name
  BY <1>1, <1>2, Retyped
<1>4. PICK code \in Seq(FormChar) : code = Encoded(f.value)
  <2>1. Encoded(f.value) \in Seq(FormChar)
    <3>1. 0 \in Nat
      OBVIOUS
    <3> QED BY <1>1, <3>1, FormRoundTrip
  <2> QED BY <2>1
<1>5. PlainChar \subseteq FieldChar /\ FormChar \subseteq FieldChar /\ EqualsSign \in FieldChar
  BY DEF PlainChar, FormChar, FieldChar, Byte, CR, LF, Ampersand, EqualsSign, Plus, PercentSign
<1>6. /\ name \in Seq(FieldChar) /\ code \in Seq(FieldChar) /\ <<EqualsSign>> \in Seq(FieldChar)
      /\ Len(<<EqualsSign>>) = 1 /\ <<EqualsSign>>[1] = EqualsSign
  <2>1. name \in Seq(FieldChar) /\ code \in Seq(FieldChar)
    BY <1>5, SeqMonotonic
  <2> QED BY <1>5, <2>1
<1>7. PICK l \in Nat, k \in Nat : l = Len(name) /\ k = Len(code)
  BY LenProperties
<1>8. PICK a \in Seq(FieldChar) :
        /\ a = name \o <<EqualsSign>> /\ Len(a) = l + 1
        /\ \A i \in 1..l : a[i] = name[i]
        /\ a[l + 1] = EqualsSign
  <2>1. PICK q \in Seq(FieldChar) : q = <<EqualsSign>> /\ Len(q) = 1 /\ q[1] = EqualsSign
    BY <1>6
  <2>2. /\ name \o q \in Seq(FieldChar) /\ Len(name \o q) = Len(name) + Len(q)
        /\ \A i \in 1..Len(name) : (name \o q)[i] = name[i]
        /\ \A i \in 1..Len(q) : (name \o q)[Len(name) + i] = q[i]
    BY <1>6, Joined
  <2>3. (name \o q)[Len(name) + 1] = EqualsSign
    <3>1. 1 \in 1..Len(q)
      BY <2>1
    <3> QED BY <2>1, <2>2, <3>1
  <2> QED BY <1>7, <2>1, <2>2, <2>3, Zenon
<1>9. PICK t \in Seq(FieldChar) :
        /\ t = a \o code /\ Len(t) = l + 1 + k
        /\ \A i \in 1..l + 1 : t[i] = a[i]
        /\ \A i \in 1..k : t[l + 1 + i] = code[i]
  <2>1. /\ a \o code \in Seq(FieldChar) /\ Len(a \o code) = Len(a) + Len(code)
        /\ \A i \in 1..Len(a) : (a \o code)[i] = a[i]
        /\ \A i \in 1..Len(code) : (a \o code)[Len(a) + i] = code[i]
    BY <1>6, Joined
  <2>2. Len(a) = l + 1 /\ Len(code) = k
    BY <1>7, <1>8
  <2> QED BY <2>1, <2>2, Zenon
<1>10. /\ \A i \in 1..l : t[i] = name[i] /\ name[i] \in PlainChar
       /\ t[l + 1] = EqualsSign
  <2>1. l + 1 \in 1..l + 1 /\ \A i \in 1..l : i \in 1..l + 1
    OBVIOUS
  <2>2. t[l + 1] = EqualsSign
    BY <1>8, <1>9, <2>1, Zenon
  <2>3. \A i \in 1..l : t[i] = name[i]
    BY <1>8, <1>9, <2>1, Zenon
  <2> QED BY <1>2, <1>3, <1>7, <2>2, <2>3, Zenon
<1>11. FieldIs(t, name, code)
  BY <1>7, <1>9, <1>10, Zenon DEF FieldIs
<1>12. t = FieldText(f)
  BY <1>3, <1>4, <1>8, <1>9, Zenon DEF FieldText
<1> QED BY <1>3, <1>4, <1>11, <1>12, Zenon

\* A text with one field has it at its start.
LEMMA FirstField ==
  ASSUME NEW t \in Seq(FieldChar), Len(t) > 0
  PROVE  /\ t \in Seq(LineChar) /\ IsStart(t, 1) /\ FieldAt(t, 1, t)
         /\ \A p \in Nat : IsStart(t, p) => p = 1
<1>1. Len(t) \in Nat /\ \A i \in 1..Len(t) : t[i] \in FieldChar
  BY LenProperties, ElementOfSeq
<1>2. \A c \in FieldChar : c \in LineChar /\ c # Ampersand
  BY DEF FieldChar, LineChar
<1>3. t \in Seq(LineChar)
  <2>1. FieldChar \subseteq LineChar
    BY <1>2
  <2> QED BY <2>1, SeqMonotonic
<1>4. IsStart(t, 1)
  BY <1>1 DEF IsStart
<1>5. FieldAt(t, 1, t)
  <2>1. \A i \in 1..Len(t) : 1 + i - 1 = i
    OBVIOUS
  <2>2. 1 + Len(t) - 1 <= Len(t) /\ ~(1 + Len(t) <= Len(t))
    BY <1>1
  <2>3. \A i \in 1..Len(t) : t[1 + i - 1] = t[i]
    BY <2>1
  <2> QED BY <2>2, <2>3 DEF FieldAt
<1>6. ASSUME NEW p \in Nat, IsStart(t, p) PROVE p = 1
  <2>1. SUFFICES ASSUME p # 1 PROVE FALSE
    OBVIOUS
  <2>2. p \in 1..Len(t) + 1 /\ t[p - 1] = Ampersand
    BY <1>6, <2>1 DEF IsStart
  <2>3. p - 1 \in 1..Len(t)
    BY <1>1, <2>1, <2>2
  <2> QED BY <1>1, <1>2, <2>2, <2>3
<1> QED BY <1>3, <1>4, <1>5, <1>6

\* A field that is appended starts behind the ampersand, and the others stay.
LEMMA NextField ==
  ASSUME NEW line \in Seq(LineChar), NEW t \in Seq(FieldChar), Len(t) > 0
  PROVE  LET new == Append(line, Ampersand) \o t
         IN /\ new \in Seq(LineChar) /\ Len(new) > 0
            /\ IsStart(new, Len(line) + 2) /\ FieldAt(new, Len(line) + 2, t)
            /\ \A p \in Nat : IsStart(new, p) <=> IsStart(line, p) \/ p = Len(line) + 2
            /\ \A u, p : p \in Nat /\ p >= 1 /\ Len(u) \in Nat /\ FieldAt(line, p, u) => FieldAt(new, p, u)
<1>1. PICK l \in Nat, k \in Nat \ {0} : l = Len(line) /\ k = Len(t)
  BY LenProperties
<1>2. \A c \in FieldChar : c \in LineChar /\ c # Ampersand
  BY DEF FieldChar, LineChar
<1>3. PICK a \in Seq(LineChar) :
        /\ a = Append(line, Ampersand) /\ Len(a) = l + 1
        /\ \A i \in 1..l : a[i] = line[i]
        /\ a[l + 1] = Ampersand
  <2>1. Ampersand \in LineChar
    BY DEF Ampersand, LineChar, Byte, CR, LF
  <2>2. /\ Append(line, Ampersand) \in Seq(LineChar)
        /\ Len(Append(line, Ampersand)) = Len(line)+1
        /\ \A i \in 1.. Len(line) : Append(line, Ampersand)[i] = line[i]
        /\ Append(line, Ampersand)[Len(line)+1] = Ampersand
    BY <2>1, AppendProperties
  <2> QED BY <1>1, <2>2, Zenon
<1>4. t \in Seq(LineChar)
  <2>1. FieldChar \subseteq LineChar
    BY <1>2
  <2> QED BY <2>1, SeqMonotonic
<1>5. PICK new \in Seq(LineChar) :
        /\ new = a \o t /\ Len(new) = l + 1 + k
        /\ \A i \in 1..l + 1 : new[i] = a[i]
        /\ \A i \in 1..k : new[l + 1 + i] = t[i]
  <2>1. /\ a \o t \in Seq(LineChar) /\ Len(a \o t) = Len(a) + Len(t)
        /\ \A i \in 1..Len(a) : (a \o t)[i] = a[i]
        /\ \A i \in 1..Len(t) : (a \o t)[Len(a) + i] = t[i]
    BY <1>4, Joined
  <2>2. Len(a) = l + 1 /\ Len(t) = k
    BY <1>1, <1>3
  <2> QED BY <2>1, <2>2, ZenonT(60)
<1>6. /\ \A i \in 1..l : new[i] = line[i]
      /\ new[l + 1] = Ampersand
  <2>1. l + 1 \in 1..l + 1 /\ \A i \in 1..l : i \in 1..l + 1
    OBVIOUS
  <2> QED BY <1>3, <1>5, <2>1, Zenon
<1>7. \A i \in 1..k : new[l + 1 + i] # Ampersand
  <2>1. \A i \in 1..k : t[i] \in FieldChar
    BY <1>1, ElementOfSeq
  <2> QED BY <1>2, <1>5, <2>1
<1>8. IsStart(new, l + 2)
  <2>1. l + 2 \in 1..l + 1 + k + 1 /\ l + 2 - 1 = l + 1
    OBVIOUS
  <2> QED BY <1>5, <1>6, <2>1, SMTT(30) DEF IsStart
<1>9. FieldAt(new, l + 2, t)
  <2>1. l + 2 + k - 1 <= l + 1 + k /\ ~(l + 2 + k <= l + 1 + k)
    OBVIOUS
  <2>2. \A i \in 1..k : l + 2 + i - 1 = l + 1 + i
    OBVIOUS
  <2>3. \A i \in 1..k : new[l + 2 + i - 1] = t[i]
    BY <1>5, <2>2
  <2> QED BY <1>1, <1>5, <2>1, <2>3, Zenon DEF FieldAt
<1>10. ASSUME NEW p \in Nat PROVE IsStart(new, p) <=> IsStart(line, p) \/ p = l + 2
  <2>1. ASSUME IsStart(line, p) PROVE IsStart(new, p)
    <3>1. p \in 1..l + 1 /\ (p = 1 \/ line[p - 1] = Ampersand)
      BY <1>1, <2>1 DEF IsStart
    <3>2. p \in 1..l + 1 + k + 1 /\ (p = 1 \/ p - 1 \in 1..l)
      BY <3>1
    <3>3. p = 1 \/ new[p - 1] = Ampersand
      BY <1>6, <3>1, <3>2
    <3> QED BY <1>5, <3>2, <3>3 DEF IsStart
  <2>2. ASSUME IsStart(new, p), p # l + 2 PROVE IsStart(line, p)
    <3>1. p \in 1..l + 1 + k + 1 /\ (p = 1 \/ new[p - 1] = Ampersand)
      BY <1>5, <2>2 DEF IsStart
    <3>2. CASE p > l + 2
      <4>1. p - l - 2 \in 1..k /\ l + 1 + (p - l - 2) = p - 1
        BY <3>1, <3>2
      <4>2. new[p - 1] # Ampersand
        BY <1>7, <4>1
      <4> QED BY <3>1, <3>2, <4>2
    <3>3. CASE p <= l + 1
      <4>1. p \in 1..l + 1 /\ (p = 1 \/ p - 1 \in 1..l)
        BY <3>1, <3>3
      <4>2. p = 1 \/ line[p - 1] = Ampersand
        BY <1>6, <3>1, <4>1
      <4> QED BY <1>1, <4>1, <4>2 DEF IsStart
    <3>4. p > l + 2 \/ p <= l + 1
      BY <2>2
    <3> QED BY <3>2, <3>3, <3>4
  <2> QED BY <1>8, <2>1, <2>2
<1>11. ASSUME NEW p \in Nat, NEW u, p >= 1, Len(u) \in Nat, FieldAt(line, p, u)
       PROVE  FieldAt(new, p, u)
  <2>1. PICK m \in Nat : m = Len(u)
    BY <1>11
  <2>2. /\ p + m - 1 <= l
        /\ \A i \in 1..m : line[p + i - 1] = u[i]
        /\ p + m <= l => line[p + m] = Ampersand
    BY <1>1, <1>11, <2>1, Zenon DEF FieldAt
  <2>3. \A i \in 1..m : p + i - 1 \in 1..l
    BY <1>11, <2>2
  <2>4. \A i \in 1..m : new[p + i - 1] = u[i]
    BY <1>6, <2>2, <2>3
  <2>5. new[p + m] = Ampersand
    <3>1. CASE p + m <= l
      <4>1. p + m \in 1..l
        BY <1>11, <3>1
      <4> QED BY <1>6, <2>2, <3>1, <4>1
    <3>2. CASE ~(p + m <= l)
      <4>1. p + m = l + 1
        BY <2>2, <3>2
      <4> QED BY <1>6, <4>1
    <3> QED BY <3>1, <3>2
  <2>6. p + m - 1 <= l + 1 + k
    BY <2>2
  <2> QED BY <1>5, <2>1, <2>4, <2>5, <2>6, Zenon DEF FieldAt
<1>12. Len(new) > 0
  BY <1>5
<1> QED BY <1>1, <1>3, <1>5, <1>8, <1>9, <1>10, <1>11, <1>12, Zenon

Plainly(form) == \A k \in DOMAIN form : Range(form[k].name) \subseteq PlainChar

\* The fields of a form that has one, one after the other.
LEMMA FormRuns ==
  ASSUME NEW form \in Seq(FormField), Plainly(form), Len(form) > 0
  PROVE  IsLine(FormText(form), form, Len(form))
<1> DEFINE step == [field \in FormField |-> [s \in Seq(Byte) |-> AndField(s, field)]]
<1>1. PICK m \in Nat : m = Len(form) /\ m > 0
  BY LenProperties
<1>2. \A n \in 1..m : form[n] \in FormField
  BY <1>1, ElementOfSeq
<1>3. PICK L : /\ L[0] = <<>>
               /\ \A n \in 1..Len(form) : L[n] = step[form[n]][L[n - 1]]
               /\ Loop(step, <<>>, form) = L[Len(form)]
  <2> HIDE DEF step
  <2>1. ASSUME NEW t, Len(t) \in Nat, NEW s0
        PROVE  \E E : /\ E[0] = s0
                      /\ \A n \in 1..Len(t) : E[n] = step[t[n]][E[n - 1]]
                      /\ Loop(step, s0, t) = E[Len(t)]
    BY <2>1, LoopRuns
  <2>2. Len(form) \in Nat
    BY <1>1
  <2> QED BY <2>1, <2>2, Zenon
<1>4. ASSUME NEW n \in 1..m
      PROVE  /\ FieldText(form[n]) \in Seq(FieldChar) /\ Len(FieldText(form[n])) \in Nat
             /\ Len(FieldText(form[n])) > 0
  <2>1. Range(form[n].name) \subseteq PlainChar
    <3>1. DOMAIN form = 1..Len(form)
      BY LenProperties
    <3> QED BY <1>1, <3>1 DEF Plainly
  <2>2. PICK f \in FormField : f = form[n]
    BY <1>2
  <2>3. FieldIs(FieldText(f), f.name, Encoded(f.value))
    BY <2>1, <2>2, FieldParts
  <2>4. FieldText(f) \in Seq(FieldChar) /\ Len(FieldText(f)) > 0
    <3>1. /\ FieldText(f) \in Seq(FieldChar)
          /\ \E l \in Nat, k \in Nat : Len(FieldText(f)) = l + 1 + k
      BY <2>3, Zenon DEF FieldIs
    <3> QED BY <3>1
  <2> QED BY <2>2, <2>4, LenProperties
<1>5. ASSUME NEW n \in 1..m, L[n - 1] \in Seq(Byte) PROVE L[n] = AndField(L[n - 1], form[n])
  <2>1. step[form[n]][L[n - 1]] = AndField(L[n - 1], form[n])
    BY <1>2, <1>5
  <2> HIDE DEF step
  <2> QED BY <1>1, <1>3, <2>1
<1>6. IsLine(L[1], form, 1)
  <2>1. L[1] = FieldText(form[1])
    <3>1. 1 \in 1..m /\ 1 - 1 = 0
      BY <1>1
    <3>2. L[0] \in Seq(Byte)
      BY <1>3, EmptySeq, Zenon
    <3>3. L[1] = AndField(<<>>, form[1])
      <4> HIDE DEF step
      <4>1. L[1 - 1] = <<>> /\ L[1 - 1] \in Seq(Byte)
        BY <1>3, <3>1, <3>2, Zenon
      <4>2. L[1] = AndField(L[1 - 1], form[1])
        BY <1>5, <3>1, <4>1, Zenon
      <4> QED BY <4>1, <4>2, Zenon
    <3>4. FieldText(form[1]) \in Seq(FieldChar)
      BY <1>4, <3>1
    <3>5. <<>> \o FieldText(form[1]) = FieldText(form[1])
      BY <3>4, ConcatEmptySeq
    <3> QED BY <3>3, <3>5 DEF AndField
  <2>2. PICK t \in Seq(FieldChar) : t = FieldText(form[1]) /\ Len(t) > 0 /\ t = L[1]
    <3>1. 1 \in 1..m
      BY <1>1
    <3> QED BY <1>4, <2>1, <3>1
  <2>3. /\ t \in Seq(LineChar) /\ IsStart(t, 1) /\ FieldAt(t, 1, t)
        /\ \A p \in Nat : IsStart(t, p) => p = 1
    BY <2>2, FirstField
  <2>4. \A p \in Nat : IsStart(t, p) => \E j \in 1..1 : FieldAt(t, p, FieldText(form[j]))
    <3>1. TAKE p \in Nat
    <3>2. HAVE IsStart(t, p)
    <3>3. p = 1 /\ 1 \in 1..1
      BY <2>3, <3>2
    <3>4. FieldAt(t, p, FieldText(form[1]))
      BY <2>2, <2>3, <3>3, Zenon
    <3> QED BY <3>3, <3>4
  <2>5. \A j \in 1..1 : \E p \in Nat : IsStart(t, p) /\ FieldAt(t, p, FieldText(form[j]))
    <3>1. TAKE j \in 1..1
    <3>2. j = 1 /\ 1 \in Nat
      OBVIOUS
    <3>3. FieldText(form[j]) = t /\ IsStart(t, 1) /\ FieldAt(t, 1, t)
      BY <2>2, <2>3, <3>2, Zenon
    <3>4. IsStart(t, 1) /\ FieldAt(t, 1, FieldText(form[j]))
      BY <3>3, Zenon
    <3> QED BY <3>2, <3>4, Zenon
  <2> QED BY <2>2, <2>3, <2>4, <2>5, Zenon DEF IsLine
<1>7. ASSUME NEW n \in 1..m, n > 1, IsLine(L[n - 1], form, n - 1) PROVE IsLine(L[n], form, n)
  <2>1. PICK line \in Seq(LineChar), l \in Nat \ {0} : line = L[n - 1] /\ l = Len(line)
    BY <1>7, LenProperties, SMTT(30) DEF IsLine
  <2>2. PICK t \in Seq(FieldChar) : t = FieldText(form[n]) /\ Len(t) > 0 /\ Len(t) \in Nat
    BY <1>4
  <2>3. PICK new : new = Append(line, Ampersand) \o t
    OBVIOUS
  <2>4. L[n] = new
    <3>1. line \in Seq(Byte)
      <4>1. LineChar \subseteq Byte
        BY DEF LineChar
      <4> QED BY <4>1, SeqMonotonic
    <3>2. L[n] = AndField(line, form[n])
      BY <1>5, <2>1, <3>1
    <3>3. line # <<>>
      BY <2>1
    <3> QED BY <2>2, <2>3, <3>2, <3>3 DEF AndField
  <2>5. /\ new \in Seq(LineChar) /\ Len(new) > 0
        /\ IsStart(new, l + 2) /\ FieldAt(new, l + 2, t)
        /\ \A p \in Nat : IsStart(new, p) <=> IsStart(line, p) \/ p = l + 2
        /\ \A u, p : p \in Nat /\ p >= 1 /\ Len(u) \in Nat /\ FieldAt(line, p, u) => FieldAt(new, p, u)
    BY <2>1, <2>2, <2>3, NextField, Zenon
  <2>6. /\ \A j \in 1..n - 1 : j \in 1..n /\ j \in 1..m
        /\ \A j \in 1..n : j \in 1..n - 1 \/ j = n
        /\ n \in 1..n /\ l + 2 \in Nat
    BY <1>1
  <2>7. \A p \in Nat : IsStart(line, p) => p >= 1
    BY DEF IsStart
  <2>8. \A p \in Nat : IsStart(new, p) => \E j \in 1..n : FieldAt(new, p, FieldText(form[j]))
    <3>1. TAKE p \in Nat
    <3>2. HAVE IsStart(new, p)
    <3>3. CASE IsStart(line, p)
      <4>1. PICK j \in 1..n - 1 : FieldAt(line, p, FieldText(form[j]))
        BY <1>7, <2>1, <3>3 DEF IsLine
      <4>2. p >= 1 /\ Len(FieldText(form[j])) \in Nat
        BY <1>4, <2>6, <2>7, <3>3
      <4>3. FieldAt(new, p, FieldText(form[j]))
        BY <2>5, <4>1, <4>2, Zenon
      <4> QED BY <2>6, <4>3
    <3>4. CASE p = l + 2
      BY <2>2, <2>5, <2>6, <3>4, Zenon
    <3> QED BY <2>5, <3>2, <3>3, <3>4, Zenon
  <2>9. \A j \in 1..n : \E p \in Nat : IsStart(new, p) /\ FieldAt(new, p, FieldText(form[j]))
    <3>1. TAKE j \in 1..n
    <3>2. CASE j \in 1..n - 1
      <4>1. PICK p \in Nat : IsStart(line, p) /\ FieldAt(line, p, FieldText(form[j]))
        BY <1>7, <2>1, <3>2 DEF IsLine
      <4>2. p >= 1 /\ Len(FieldText(form[j])) \in Nat
        BY <1>4, <2>6, <2>7, <3>2, <4>1
      <4>3. IsStart(new, p) /\ FieldAt(new, p, FieldText(form[j]))
        BY <2>5, <4>1, <4>2, Zenon
      <4> QED BY <4>3
    <3>3. CASE j = n
      BY <2>2, <2>5, <2>6, <3>3, Zenon
    <3> QED BY <2>6, <3>2, <3>3
  <2> QED BY <2>4, <2>5, <2>8, <2>9, Zenon DEF IsLine
<1> DEFINE T == {n \in 0..m : n = 0 \/ IsLine(L[n], form, n)}
<1>8. 0 \in T
  BY <1>1
<1>9. ASSUME NEW n \in 1..m, n - 1 \in T PROVE n \in T
  <2>1. CASE n = 1
    BY <1>6, <2>1
  <2>2. CASE n # 1
    <3>1. n > 1 /\ n - 1 # 0
      BY <2>2
    <3>2. IsLine(L[n - 1], form, n - 1)
      BY <1>9, <3>1
    <3>3. IsLine(L[n], form, n)
      BY <1>7, <3>1, <3>2
    <3> QED BY <3>3
  <2> QED BY <2>1, <2>2
<1>10. IsLine(L[m], form, m)
  <2>1. \A n \in 0..m : n \in T
    <3> HIDE DEF T, step
    <3> QED BY <1>8, <1>9, AllPasses
  <2>2. m \in 0..m /\ m # 0
    BY <1>1
  <2> QED BY <2>1, <2>2
<1>11. FormText(form) = L[m]
  BY <1>1, <1>3, Zenon DEF FormText
<1> QED BY <1>1, <1>10, <1>11

\* A word stands at a place if it does so character by character.
LEMMA AtIs ==
  ASSUME NEW S, NEW line \in Seq(S), NEW p \in Nat \ {0}, NEW word \in Seq(S)
  PROVE  At(line, p, word) <=>
           p + Len(word) - 1 <= Len(line) /\ \A i \in 1..Len(word) : line[p + i - 1] = word[i]
<1>1. PICK l \in Nat, m \in Nat : l = Len(line) /\ m = Len(word)
  BY LenProperties
<1>2. SUFFICES ASSUME p + m - 1 <= l
               PROVE  SubSeq(line, p, p + m - 1) = word <=> \A i \in 1..m : line[p + i - 1] = word[i]
  BY <1>1, Zenon DEF At
<1>3. PICK u \in Seq(S) :
        /\ u = SubSeq(line, p, p + m - 1) /\ Len(u) = m
        /\ \A i \in 1..m : u[i] = line[p + i - 1]
  <2>1. \A i \in p..p + m - 1 : line[i] \in S
    <3>1. TAKE i \in p..p + m - 1
    <3>2. i \in 1..l
      BY <1>2
    <3> QED BY <1>1, <3>2, ElementOfSeq
  <2>2. p \in Int /\ p + m - 1 \in Int
    OBVIOUS
  <2>3. /\ SubSeq(line, p, p + m - 1) \in Seq(S)
        /\ Len(SubSeq(line, p, p + m - 1)) = IF p <= p + m - 1 THEN p + m - 1 - p + 1 ELSE 0
        /\ \A i \in 1..p + m - 1 - p + 1 : SubSeq(line, p, p + m - 1)[i] = line[p + i - 1]
    BY <2>1, <2>2, SubSeqProperties
  <2>4. (IF p <= p + m - 1 THEN p + m - 1 - p + 1 ELSE 0) = m /\ p + m - 1 - p + 1 = m
    OBVIOUS
  <2> QED BY <2>3, <2>4, Zenon
<1>4. ASSUME \A i \in 1..m : line[p + i - 1] = word[i] PROVE u = word
  BY <1>1, <1>3, <1>4, SeqEqual
<1>5. ASSUME u = word PROVE \A i \in 1..m : line[p + i - 1] = word[i]
  BY <1>3, <1>5
<1> QED BY <1>3, <1>4, <1>5, Zenon

\* An argument is looked for by its name and the equals sign, and found only in its own field.
LEMMA ArgHere ==
  ASSUME NEW line \in Seq(LineChar), NEW p \in Nat \ {0}, NEW t, NEW name \in Seq(PlainChar), NEW code,
         FieldIs(t, name, code), FieldAt(line, p, t), NEW arg \in Seq(PlainChar)
  PROVE  IsArg(line, p, arg) <=> arg = name
<1>1. PICK l \in Nat, n \in Nat, k \in Nat, a \in Nat :
        l = Len(line) /\ n = Len(name) /\ k = Len(code) /\ a = Len(arg)
  BY LenProperties DEF FieldIs
<1>2. \A c \in PlainChar : c \in LineChar /\ c # EqualsSign /\ c # Ampersand
  BY DEF PlainChar, LineChar, Byte, EqualsSign, Ampersand, CR, LF
<1>3. /\ \A i \in 1..n : name[i] \in PlainChar
      /\ \A i \in 1..a : arg[i] \in PlainChar
  BY <1>1, ElementOfSeq
<1>4. PICK word \in Seq(LineChar) :
        /\ word = Append(arg, EqualsSign) /\ Len(word) = a + 1
        /\ \A i \in 1..a : word[i] = arg[i]
        /\ word[a + 1] = EqualsSign
  <2>1. arg \in Seq(LineChar) /\ EqualsSign \in LineChar
    <3>1. PlainChar \subseteq LineChar
      BY <1>2
    <3>2. EqualsSign \in LineChar
      BY DEF LineChar, Byte, EqualsSign, CR, LF
    <3> QED BY <3>1, <3>2, SeqMonotonic
  <2>2. /\ Append(arg, EqualsSign) \in Seq(LineChar)
        /\ Len(Append(arg, EqualsSign)) = Len(arg)+1
        /\ \A i \in 1.. Len(arg) : Append(arg, EqualsSign)[i] = arg[i]
        /\ Append(arg, EqualsSign)[Len(arg)+1] = EqualsSign
    BY <2>1, AppendProperties
  <2> QED BY <1>1, <2>2, Zenon
<1>5. IsArg(line, p, arg) <=>
        p + (a + 1) - 1 <= l /\ \A i \in 1..a + 1 : line[p + i - 1] = word[i]
  <2>1. At(line, p, word) <=>
          p + Len(word) - 1 <= Len(line) /\ \A i \in 1..Len(word) : line[p + i - 1] = word[i]
    BY AtIs
  <2>2. At(line, p, word) <=>
          p + (a + 1) - 1 <= l /\ \A i \in 1..a + 1 : line[p + i - 1] = word[i]
    BY <1>1, <1>4, <2>1, Zenon
  <2> QED BY <1>4, <2>2, Zenon DEF IsArg
<1>6. /\ Len(t) = n + 1 + k /\ t[n + 1] = EqualsSign
      /\ \A i \in 1..n : t[i] = name[i]
  BY <1>1, Zenon DEF FieldIs
<1>7. /\ p + (n + 1 + k) - 1 <= l
      /\ \A i \in 1..n + 1 + k : line[p + i - 1] = t[i]
  BY <1>1, <1>6, Zenon DEF FieldAt
<1>8. ASSUME arg = name PROVE IsArg(line, p, arg)
  <2>1. a = n
    BY <1>1, <1>8
  <2>2. p + (a + 1) - 1 <= l
    BY <1>7, <2>1
  <2>3. \A i \in 1..a + 1 : line[p + i - 1] = word[i]
    <3>1. TAKE i \in 1..a + 1
    <3>2. line[p + i - 1] = t[i]
      BY <1>7, <2>1
    <3>3. CASE i = a + 1
      BY <1>4, <1>6, <2>1, <3>2, <3>3
    <3>4. CASE i # a + 1
      <4>1. i \in 1..a
        BY <3>4
      <4> QED BY <1>4, <1>6, <1>8, <2>1, <3>2, <4>1
    <3> QED BY <3>3, <3>4
  <2> QED BY <1>5, <2>2, <2>3, Zenon
<1>9. ASSUME IsArg(line, p, arg) PROVE arg = name
  <2>1. \A i \in 1..a + 1 : line[p + i - 1] = word[i]
    BY <1>5, <1>9, Zenon
  <2>2. \A i \in 1..n + 1 : i <= a + 1 => t[i] = word[i]
    <3>1. \A i \in 1..n + 1 : i \in 1..n + 1 + k /\ (i <= a + 1 => i \in 1..a + 1)
      OBVIOUS
    <3> QED BY <1>7, <2>1, <3>1
  <2>3. ~(a < n)
    <3>1. SUFFICES ASSUME a < n PROVE FALSE
      OBVIOUS
    <3>2. a + 1 \in 1..n /\ a + 1 \in 1..n + 1
      BY <3>1
    <3>3. t[a + 1] = EqualsSign /\ t[a + 1] = name[a + 1] /\ name[a + 1] \in PlainChar
      BY <1>3, <1>4, <1>6, <2>2, <3>2
    <3> QED BY <1>2, <3>3
  <2>4. ~(n < a)
    <3>1. SUFFICES ASSUME n < a PROVE FALSE
      OBVIOUS
    <3>2. n + 1 \in 1..a /\ n + 1 \in 1..n + 1 /\ n + 1 <= a + 1
      BY <3>1
    <3>3. t[n + 1] = word[n + 1] /\ word[n + 1] = arg[n + 1] /\ arg[n + 1] \in PlainChar
      BY <1>3, <1>4, <2>2, <3>2
    <3> QED BY <1>2, <1>6, <3>3
  <2>5. a = n
    BY <2>3, <2>4
  <2>6. \A i \in 1..a : arg[i] = name[i]
    <3>1. TAKE i \in 1..a
    <3>2. i \in 1..n /\ i \in 1..n + 1 /\ i <= a + 1
      BY <2>5
    <3> QED BY <1>4, <1>6, <2>2, <3>2
  <2> QED BY <1>1, <2>5, <2>6, SeqEqual
<1> QED BY <1>8, <1>9, Zenon

\* What stands between a name and the end of its field is what was written for the value.
LEMMA ValueHere ==
  ASSUME NEW line \in Seq(LineChar), NEW p \in Nat \ {0}, NEW t, NEW name, NEW code \in Seq(FormChar),
         FieldIs(t, name, code), FieldAt(line, p, t)
  PROVE  UpTo(line, p + Len(name) + 1, {Ampersand}) = code
<1>1. PICK l \in Nat, n \in Nat, k \in Nat, q \in Nat \ {0} :
        l = Len(line) /\ n = Len(name) /\ k = Len(code) /\ q = p + Len(name) + 1
  BY LenProperties DEF FieldIs
<1>2. \A c \in FormChar : c # Ampersand /\ c \in Byte
  BY FormCharIsByte
<1>3. /\ p + (n + 1 + k) - 1 <= l
      /\ \A i \in 1..n + 1 + k : line[p + i - 1] = t[i]
      /\ p + (n + 1 + k) <= l => line[p + (n + 1 + k)] = Ampersand
  <2>1. Len(t) = n + 1 + k
    BY <1>1, Zenon DEF FieldIs
  <2> QED BY <1>1, <2>1, Zenon DEF FieldAt
<1>4. \A i \in 1..k : line[q + i - 1] = code[i]
  <2>1. TAKE i \in 1..k
  <2>2. n + 1 + i \in 1..n + 1 + k /\ p + (n + 1 + i) - 1 = q + i - 1
    BY <1>1
  <2>3. line[p + (n + 1 + i) - 1] = t[n + 1 + i]
    BY <1>3, <2>2
  <2>4. t[n + 1 + i] = code[i]
    BY <1>1, Zenon DEF FieldIs
  <2> QED BY <2>2, <2>3, <2>4
<1>5. q + k - 1 <= l /\ (q + k <= l => line[q + k] = Ampersand)
  <2>1. q + k = p + (n + 1 + k)
    BY <1>1
  <2> QED BY <1>3, <2>1
<1> DEFINE ends == {j \in q..Len(line) : line[j] \in {Ampersand}}
<1>6. \A j \in ends : q + k <= j
  <2>1. TAKE j \in ends
  <2>2. SUFFICES ASSUME j < q + k PROVE FALSE
    <3>1. j \in Nat
      BY <1>1
    <3> QED BY <3>1
  <2>3. j - q + 1 \in 1..k /\ q + (j - q + 1) - 1 = j
    BY <1>1, <2>2
  <2>4. line[j] = code[j - q + 1] /\ code[j - q + 1] \in FormChar
    BY <1>1, <1>4, <2>3, ElementOfSeq
  <2> QED BY <1>2, <2>4
<1>7. (IF ends = {} THEN Len(line) + 1 ELSE Least(ends)) - 1 = q + k - 1
  <2>1. CASE q + k <= l
    <3>1. q + k \in ends
      BY <1>1, <1>5, <2>1
    <3>2. ends \in SUBSET Nat
      BY <1>1
    <3>3. Least(ends) = q + k
      <4> HIDE DEF ends
      <4> QED BY <1>6, <3>1, <3>2, LeastIs
    <3> HIDE DEF ends
    <3> QED BY <3>1, <3>3
  <2>2. CASE ~(q + k <= l)
    <3>1. ends = {}
      BY <1>1, <1>6, <2>2
    <3>2. Len(line) + 1 - 1 = q + k - 1
      BY <1>1, <1>5, <2>2
    <3> HIDE DEF ends
    <3> QED BY <3>1, <3>2
  <2> QED BY <2>1, <2>2
<1>8. UpTo(line, q, {Ampersand}) = SubSeq(line, q, q + k - 1)
  BY <1>7, Zenon DEF UpTo
<1>9. SubSeq(line, q, q + k - 1) = code
  <2>1. code \in Seq(LineChar)
    <3>1. FormChar \subseteq LineChar
      BY FormCharIsByte DEF LineChar
    <3> QED BY <3>1, SeqMonotonic
  <2>2. At(line, q, code) <=>
          q + Len(code) - 1 <= Len(line) /\ \A i \in 1..Len(code) : line[q + i - 1] = code[i]
    BY <2>1, AtIs
  <2>3. At(line, q, code)
    BY <1>1, <1>4, <1>5, <2>2, Zenon
  <2> QED BY <1>1, <2>3, Zenon DEF At
<1> QED BY <1>1, <1>8, <1>9, Zenon

\* A field of a form is found in the text of the form, with the value that was typed.
THEOREM FormsDecode ==
  ASSUME NEW form \in Seq(FormField), Plainly(form),
         \A i, j \in DOMAIN form : form[i].name = form[j].name => i = j,
         NEW k \in DOMAIN form, NEW room \in Nat
  PROVE  FindArg(FormText(form), form[k].name, room)
           = [len |-> Len(First(form[k].value, room)), text |-> First(form[k].value, room)]
<1>1. PICK m \in Nat : m = Len(form) /\ m > 0 /\ DOMAIN form = 1..m /\ k \in 1..m
  BY LenProperties
<1>2. PICK line \in Seq(LineChar), l \in Nat :
        line = FormText(form) /\ l = Len(line) /\ IsLine(line, form, m)
  <2>1. IsLine(FormText(form), form, m)
    BY <1>1, FormRuns
  <2>2. FormText(form) \in Seq(LineChar)
    BY <2>1 DEF IsLine
  <2> QED BY <2>1, <2>2, LenProperties
<1>3. ASSUME NEW j \in 1..m
      PROVE  /\ FieldIs(FieldText(form[j]), form[j].name, Encoded(form[j].value))
             /\ form[j].name \in Seq(PlainChar) /\ Encoded(form[j].value) \in Seq(FormChar)
             /\ Len(FieldText(form[j])) > 0 /\ form[j].value \in Seq(1..255)
  <2>1. PICK f \in FormField : f = form[j]
    BY <1>1, ElementOfSeq
  <2>2. Range(f.name) \subseteq PlainChar
    BY <1>1, <2>1 DEF Plainly
  <2>3. /\ FieldIs(FieldText(f), f.name, Encoded(f.value))
        /\ f.name \in Seq(PlainChar) /\ Encoded(f.value) \in Seq(FormChar)
    BY <2>2, FieldParts
  <2>4. Len(FieldText(f)) > 0
    <3>1. \E n \in Nat, c \in Nat : Len(FieldText(f)) = n + 1 + c
      BY <2>3, Zenon DEF FieldIs
    <3> QED BY <3>1
  <2>5. f.value \in Seq(1..255)
    BY DEF FormField, Text
  <2> QED BY <2>1, <2>3, <2>4, <2>5
<1> DEFINE arg == form[k].name
           value == form[k].value
           starts == {1} \cup {j + 1 : j \in PositionsOf(Ampersand, line)}
           ends == {p \in starts : p > Len(line) \/ line[p] \in {CR, LF}}
           found == {p \in starts : IsArg(line, p, arg) /\ \A e \in ends : p < e}
           text == LET p == Least(found) + Len(arg) + 1
                   IN UrlDecode(UpTo(line, p, {Ampersand}), room)
<1>4. \A p : p \in starts <=> p \in Nat \ {0} /\ IsStart(line, p)
  <2>1. \A j : j \in PositionsOf(Ampersand, line) <=> j \in 1..l /\ line[j] = Ampersand
    BY <1>2, LenProperties DEF PositionsOf
  <2>2. ASSUME NEW p \in starts PROVE p \in Nat \ {0} /\ IsStart(line, p)
    <3>1. CASE p = 1
      BY <1>2, <3>1 DEF IsStart
    <3>2. CASE p # 1
      <4>1. PICK j : j \in 1..l /\ line[j] = Ampersand /\ p = j + 1
        BY <2>1, <2>2, <3>2
      <4>2. p \in 1..l + 1 /\ p - 1 = j
        BY <4>1
      <4> QED BY <1>2, <4>1, <4>2 DEF IsStart
    <3> QED BY <3>1, <3>2
  <2>3. ASSUME NEW p \in Nat \ {0}, IsStart(line, p) PROVE p \in starts
    <3>1. p \in 1..l + 1 /\ (p = 1 \/ line[p - 1] = Ampersand)
      BY <1>2, <2>3 DEF IsStart
    <3>2. CASE p = 1
      BY <3>2
    <3>3. CASE p # 1
      <4>1. p - 1 \in 1..l /\ line[p - 1] = Ampersand /\ p = (p - 1) + 1
        BY <3>1, <3>3
      <4>2. p - 1 \in PositionsOf(Ampersand, line)
        BY <2>1, <4>1
      <4> QED BY <4>1, <4>2
    <3> QED BY <3>2, <3>3
  <2> HIDE DEF starts
  <2> QED BY <2>2, <2>3
<1>5. ASSUME NEW p \in starts
      PROVE  /\ p \in 1..l
             /\ \E j \in 1..m : FieldAt(line, p, FieldText(form[j]))
  <2>1. p \in Nat \ {0} /\ IsStart(line, p)
    <3> HIDE DEF starts
    <3> QED BY <1>4
  <2>2. PICK j \in 1..m : FieldAt(line, p, FieldText(form[j]))
    BY <1>2, <2>1 DEF IsLine
  <2>3. PICK t : t = FieldText(form[j])
    OBVIOUS
  <2>4. Len(t) > 0 /\ Len(t) \in Nat /\ p + Len(t) - 1 <= l
    <3>1. Len(t) \in Nat
      BY <1>3, <2>3, LenProperties DEF FieldIs
    <3> QED BY <1>2, <1>3, <2>2, <2>3, <3>1 DEF FieldAt
  <2> QED BY <2>1, <2>2, <2>4
<1>6. ends = {}
  <2> SUFFICES ASSUME NEW p \in ends PROVE FALSE
    OBVIOUS
  <2>1. p \in starts /\ (p > l \/ line[p] \in {CR, LF})
    BY <1>2
  <2>2. p \in 1..l
    <3> HIDE DEF starts, ends
    <3> QED BY <1>5, <2>1
  <2>3. line[p] \in LineChar
    BY <1>2, <2>2, ElementOfSeq
  <2> HIDE DEF starts, ends
  <2> QED BY <2>1, <2>2, <2>3 DEF LineChar
<1> HIDE DEF starts, ends
<1>7. ASSUME NEW p, NEW j \in 1..m, p \in starts, FieldAt(line, p, FieldText(form[j]))
      PROVE  IsArg(line, p, arg) <=> j = k
  <2>1. p \in Nat \ {0}
    BY <1>4, <1>7
  <2>2. IsArg(line, p, arg) <=> arg = form[j].name
    BY <1>1, <1>3, <1>7, <2>1, ArgHere
  <2> QED BY <1>1, <2>2
<1>8. ASSUME NEW p \in found PROVE p \in Nat /\ p \in starts /\ FieldAt(line, p, FieldText(form[k]))
  <2>1. p \in starts /\ IsArg(line, p, arg)
    OBVIOUS
  <2>2. PICK j \in 1..m : FieldAt(line, p, FieldText(form[j]))
    BY <1>5, <2>1
  <2>3. j = k
    BY <1>7, <2>1, <2>2
  <2> QED BY <1>5, <2>1, <2>2, <2>3
<1>9. found # {}
  <2>1. PICK p \in Nat : IsStart(line, p) /\ FieldAt(line, p, FieldText(form[k]))
    BY <1>1, <1>2 DEF IsLine
  <2>2. p \in starts
    <3>1. p # 0
      BY <2>1 DEF IsStart
    <3> QED BY <1>4, <2>1, <3>1
  <2>3. IsArg(line, p, arg)
    BY <1>1, <1>7, <2>1, <2>2
  <2> QED BY <1>6, <2>2, <2>3
<1>10. PICK p : p = Least(found) /\ p \in found
  <2>1. found \in SUBSET Nat
    BY <1>8
  <2>2. PICK q \in found : \A j \in found : q <= j
    <3> HIDE DEF found
    <3> QED BY <1>9, <2>1, LeastOne
  <2>3. Least(found) = q
    <3> HIDE DEF found
    <3> QED BY <2>1, <2>2, LeastIs
  <2> HIDE DEF found
  <2> QED BY <2>2, <2>3
<1> HIDE DEF found
<1>11. UpTo(line, p + Len(arg) + 1, {Ampersand}) = Encoded(value)
  <2>1. p \in Nat \ {0} /\ FieldAt(line, p, FieldText(form[k]))
    BY <1>4, <1>8, <1>10
  <2> QED BY <1>1, <1>3, <2>1, ValueHere
<1>12. text = First(value, room)
  <2>1. UrlDecode(Encoded(value), room) = First(value, room)
    BY <1>1, <1>3, FormRoundTrip
  <2> QED BY <1>10, <1>11, <2>1, Zenon
<1>13. FindArg(line, arg, room) = IF found = {} THEN NotFoundText ELSE [len |-> Len(text), text |-> text]
  BY Zenon DEF FindArg, starts, ends, found
<1> QED BY <1>2, <1>9, <1>12, <1>13, Zenon

\* A field of a form whose client was not sent elsewhere is found, cut to the buffer.
LEMMA FieldFound ==
  ASSUME ProperForms, NEW v \in Visits, client.form = v.form, v.form # None,
         NEW k \in DOMAIN v.form
  PROVE  /\ v.form[k].value \in Seq(Nat)
         /\ Arg(v.form[k].name, ArgLen)
              = [len |-> Len(First(v.form[k].value, ArgLen)), text |-> First(v.form[k].value, ArgLen)]
<1>1. v.form \in Seq(FormField)
  BY VisitsAssumption
<1>2. v.form[k] \in FormField
  BY <1>1, LenProperties, ElementOfSeq
<1>3. FindArg(FormText(v.form), v.form[k].name, ArgLen)
        = [len |-> Len(First(v.form[k].value, ArgLen)), text |-> First(v.form[k].value, ArgLen)]
  <2>1. PICK form \in Seq(FormField), room \in Nat : form = v.form /\ room = ArgLen
    BY <1>1, SizesAssumption
  <2>2. Plainly(form) /\ \A i, j \in DOMAIN form : form[i].name = form[j].name => i = j
    BY <2>1 DEF ProperForms, Plainly
  <2>3. FindArg(FormText(form), form[k].name, room)
          = [len |-> Len(First(form[k].value, room)), text |-> First(form[k].value, room)]
    BY <2>1, <2>2, FormsDecode
  <2> QED
    BY <2>1, <2>3, Zenon
<1>4. Arg(v.form[k].name, ArgLen) = FindArg(FormText(v.form), v.form[k].name, ArgLen)
  BY Zenon DEF Arg
<1>5. v.form[k].value \in Seq(Nat)
  <2>1. v.form[k].value \in Seq(1..255)
    BY <1>2 DEF FormField, Text
  <2>2. 1..255 \subseteq Nat
    OBVIOUS
  <2> QED
    BY <2>1, <2>2, SeqMonotonic
<1> QED
  BY <1>3, <1>4, <1>5, Zenon

\* cgiWiFiConnect keeps what was typed.
LEMMA StationAsTyped ==
  ASSUME ProperForms, NEW v \in Visits, client.form = v.form, v.form # None, SetStation,
         NEW k \in DOMAIN v.form
  PROVE  /\ v.form[k].name = EssidName => stconf'.ssid = First(v.form[k].value, SsidLen)
         /\ v.form[k].name = PasswdName => stconf'.password = First(v.form[k].value, PassLen)
<1> DEFINE name == v.form[k].name
<1>1. PICK value \in Seq(Nat) :
        /\ value = v.form[k].value
        /\ Arg(name, ArgLen) = [len |-> Len(First(value, ArgLen)), text |-> First(value, ArgLen)]
  BY FieldFound
<1>2. Arg(name, ArgLen).text = First(value, ArgLen)
  BY <1>1
<1>3. /\ stconf'.ssid = First(Arg(EssidName, ArgLen).text, SsidLen)
      /\ stconf'.password = First(Arg(PasswdName, ArgLen).text, PassLen)
  BY DEF SetStation
<1>4. First(First(value, ArgLen), SsidLen) = First(value, SsidLen)
  BY SizesAssumption, FirstOfFirst
<1>5. First(First(value, ArgLen), PassLen) = First(value, PassLen)
  BY SizesAssumption, FirstOfFirst
<1> QED
  BY <1>1, <1>2, <1>3, <1>4, <1>5, Zenon

\* cgiLed keeps what was chosen.
LEMMA LedAsTyped ==
  ASSUME ProperForms, NEW v \in Visits, client.form = v.form, v.form # None, SetLed,
         NEW k \in DOMAIN v.form, v.form[k].name = LedName,
         Len(v.form[k].value) = 1, v.form[k].value[1] \in 48..57
  PROVE  led'.state = v.form[k].value[1] - 48
<1>1. PICK value \in Seq(Nat) :
        value = v.form[k].value
        /\ Arg(LedName, ArgLen) = [len |-> Len(First(value, ArgLen)), text |-> First(value, ArgLen)]
  BY FieldFound
<1>2. First(value, ArgLen) = value
  <2>1. Len(value) = 1
    BY <1>1, Zenon
  <2>2. (IF 1 < ArgLen THEN 1 ELSE ArgLen) = 1
    BY SizesAssumption
  <2>3. First(value, ArgLen) = SubSeq(value, 1, Len(value))
    BY <2>1, <2>2, Zenon DEF First
  <2> QED
    BY <2>3, SubSeqFull
<1>3. PICK arg : arg = Arg(LedName, ArgLen) /\ arg.len = 1 /\ arg.text = value
  <2>1. Len(value) = 1
    BY <1>1, Zenon
  <2>2. Arg(LedName, ArgLen) = [len |-> 1, text |-> value]
    BY <1>1, <1>2, <2>1, Zenon
  <2> QED
    BY <2>2
<1>4. led' \in LET values == CASE arg.len = -1 -> {0, 1}
                               [] arg.len = 0 -> {}
                               [] OTHER -> {Atoi(arg.text)}
               IN IF values = {} THEN {led} ELSE {[state |-> n, pin |-> ioLed(n)] : n \in values}
  BY <1>3, Zenon DEF SetLed
<1>5. led' \in {[state |-> n, pin |-> ioLed(n)] : n \in {Atoi(value)}}
  BY <1>3, <1>4
<1>6. Atoi(value) = value[1] - 48
  BY <1>1 DEF Atoi
<1> QED
  BY <1>1, <1>5, <1>6

FormTables == \A t \in Tables : FormsReach(t)

\* Every step keeps what was typed.
LEMMA FormStep ==
  ProperForms /\ FormTables /\ TypeOK /\ StartInv /\ VisitInv /\ MatchInv /\ FieldsKept /\ [Next]_vars
    => FieldsKept'
<1> SUFFICES ASSUME ProperForms, FormTables, TypeOK, StartInv, VisitInv, MatchInv, FieldsKept,
                    [Next]_vars,
                    client'.phase = "answered", client'.form # None, reply'.status = 302,
                    NEW k \in DOMAIN client'.form
             PROVE  Kept(client.form[k])'
  BY DEF FieldsKept
<1>1. CASE Aside
  <2>1. client' = client /\ reply' = reply /\ stconf' = stconf /\ led' = led
    BY <1>1 DEF Aside
  <2>2. Kept(client.form[k])
    BY <2>1 DEF FieldsKept
  <2> QED
    BY <2>1, <2>2 DEF Kept
<1>2. CASE CgiAnswers
  <2>1. PICK r : r = table[route]
    OBVIOUS
  <2>2. /\ IsRoute(r) /\ ~PassesOn(r) /\ reply' \in Answers(r) /\ Matches(r, client.url)
        /\ client'.url = client.url /\ client'.form = client.form /\ client.url \in Url
        /\ r.cgi = "cgiLed" => SetLed
        /\ r.cgi = "cgiWiFiConnect" => SetStation
    BY <1>2, <2>1 DEF CgiAnswers, Routed, MatchInv, TypeOK, Client
  <2>3. IsRoute(r)
    BY <2>2
  <2>4. r.cgi \in Redirecting
    BY <2>2, <2>3, AnswerShapes
  <2>5. PICK v \in Visits :
          client.form = v.form /\ v.form # None /\ client.host = v.host /\ client.url = v.url
    BY <2>2 DEF VisitInv
  <2>6. r.cgi # "cgiRedirectToHostname"
    <3>1. IsIp(HostText(client.host))
      BY <2>5 DEF FormTables, FormsReach, TypeOK
    <3> QED
      BY <2>2, <3>1 DEF PassesOn, KnowsHost
  <2>7. PICK field : field = v.form[k] /\ field = client'.form[k] /\ k \in DOMAIN v.form
    BY <2>2, <2>5
  <2>8. CASE client.url = ConnectCgi
    <3>1. r.cgi \notin {"cgiRedirect", "cgiLed", "cgiWiFiSetMode"}
      BY <1>2, <2>1, <2>2, <2>8 DEF FormTables, FormsReach, TypeOK, CgiAnswers
    <3>2. SetStation
      BY <2>2, <2>4, <2>6, <3>1 DEF Redirecting
    <3>3. /\ v.form[k].name = EssidName => stconf'.ssid = First(v.form[k].value, SsidLen)
          /\ v.form[k].name = PasswdName => stconf'.password = First(v.form[k].value, PassLen)
      BY <2>5, <2>7, <3>2, StationAsTyped
    <3>4. client'.url # LedCgi
      BY <2>2, <2>8 DEF ConnectCgi, LedCgi
    <3> QED
      BY <2>7, <3>3, <3>4 DEF Kept
  <2>9. CASE client.url = LedCgi
    <3>1. r.cgi \notin {"cgiRedirect", "cgiWiFiConnect", "cgiWiFiSetMode"}
      BY <1>2, <2>1, <2>2, <2>9 DEF FormTables, FormsReach, TypeOK, CgiAnswers
    <3>2. SetLed
      BY <2>2, <2>4, <2>6, <3>1 DEF Redirecting
    <3>3. ASSUME v.form[k].name = LedName PROVE led'.state = v.form[k].value[1] - 48
      <4>1. Len(v.form[k].value) = 1 /\ v.form[k].value[1] \in 48..57
        BY <2>5, <2>7, <2>9, <3>3 DEF FormTables, FormsReach, TypeOK
      <4> QED
        BY <2>5, <2>7, <3>2, <3>3, <4>1, LedAsTyped
    <3>4. client'.url # ConnectCgi
      BY <2>2, <2>9 DEF ConnectCgi, LedCgi
    <3> QED
      BY <2>7, <3>3, <3>4 DEF Kept
  <2>10. CASE client.url \notin {ConnectCgi, LedCgi}
    BY <2>2, <2>10 DEF Kept
  <2> QED
    BY <2>8, <2>9, <2>10
<1>3. ~PlainAnswer
  BY DEF PlainAnswer
<1> QED
  BY <1>1, <1>2, <1>3, StepKinds DEF GoesOn, LooksUp

\* A form leaves what was typed into it, cut to the room there is, and the page of the LED shows
\* what was set, for all forms of plain and distinct names and all tables that lead
\* them to their functions: no other route answers such a form with a redirect, and nothing
\* changes what it left while its answer is there (cgiLed, cgiWiFiConnect, httpdProcessRequest).
THEOREM FormsAreKept ==
  ASSUME ProperForms, FormTables
  PROVE  Spec => []FormAsTyped
<1> DEFINE Inv == TypeOK /\ StartInv /\ VisitInv /\ MatchInv /\ FieldsKept /\ LedPageShows
<1>1. Init => Inv
  <2>1. Init => FieldsKept /\ LedPageShows
    BY DEF Init, FieldsKept, LedPageShows
  <2> QED
    BY <2>1, StartType, AccessStart
<1>2. Inv /\ [Next]_vars => Inv'
  BY TypeStep, VisitStep, MatchStep, FormStep, LedStep
<1>3. Inv => FormAsTyped
  BY DEF FormAsTyped
<1> QED
  BY <1>1, <1>2, <1>3, PTL DEF Spec

-----------------------------------------------------------------------------
(* Names                                                                    *)

\* Where a function sends a client: to the same host, or to the one of its route.
LEMMA AnswerHosts ==
  ASSUME NEW r, NEW a \in Answers(r), a.location # None
  PROVE  a.location.host = None \/ (r.cgi = "cgiRedirectToHostname" /\ a.location.host = r.arg)
<1>1. CASE r.cgi = "cgiRedirectToHostname"
  BY <1>1 DEF Answers, RedirectToHost
<1>2. CASE r.cgi \in {"cgiRedirect", "cgiLed", "cgiWiFiConnect", "cgiWiFiSetMode"}
  <2>1. PICK url : a = RedirectTo(url)
    BY <1>2 DEF Answers, SetModeAnswer
  <2> QED
    BY <2>1 DEF RedirectTo, RedirectToHost
<1>3. CASE r.cgi = "cgiWiFiConnStatus"
  <2>1. PICK f : a = ShowsPage(f)
    BY <1>3 DEF Answers, StatusAnswers
  <2> QED
    BY <2>1, ReplyParts
<1>4. CASE r.cgi = "cgiEspFsTemplate"
  BY <1>4, ReplyParts DEF Answers
<1>5. CASE r.cgi \notin Redirecting \cup {"cgiWiFiConnStatus", "cgiEspFsTemplate"}
  <2>1. PICK n \in {200, 401} : a = Page(n)
    BY <1>5 DEF Answers, Redirecting
  <2> QED
    BY <2>1, ReplyParts
<1> QED
  BY <1>1, <1>2, <1>3, <1>4, <1>5 DEF Redirecting

HostInv ==
  /\ client.host \in Names
  /\ reply.location # None => reply.location.host \in {None} \cup Names

\* The datagrams that are on their way belong to the last query of the client.
DatagramInv ==
  /\ client.phase # "resolve" => toDns = NoReply /\ toClient = NoReply
  /\ toDns # NoReply =>
       asked \in Companions /\ \E isPointer \in BOOLEAN : toDns = Query(client.host, asked, isPointer)

\* A reply that reaches the client is what captdnsRecv makes of the last query that the client
\* sent, for the host it wants: none is left over from another host or another query.
RepliesToAsked ==
  toClient # NoReply =>
    /\ asked \in Companions /\ client.host \in Names
    /\ \E isPointer \in BOOLEAN : toClient = Reply(Query(client.host, asked, isPointer))

\* The hosts a client is sent to are among the names.
LEMMA HostStep == TypeOK /\ StartInv /\ HostInv /\ [Next]_vars => HostInv'
<1> SUFFICES ASSUME TypeOK, StartInv, HostInv, [Next]_vars PROVE HostInv'
  OBVIOUS
<1>1. CASE UNCHANGED <<client, reply>>
  BY <1>1 DEF HostInv
<1>2. CASE GoesOn
  BY <1>2 DEF GoesOn, HostInv
<1>3. CASE LooksUp(1) \/ LooksUp(route + 1)
  BY <1>3 DEF LooksUp, HostInv
<1>4. CASE PlainAnswer
  BY <1>4 DEF PlainAnswer, HostInv
<1>5. CASE CgiAnswers
  <2>1. /\ reply' \in Answers(table[route]) /\ client'.host = client.host
        /\ route \in DOMAIN table /\ table \in Tables
    BY <1>5 DEF CgiAnswers, TypeOK
  <2>2. table[route].cgi = "cgiRedirectToHostname" => table[route].arg \in Names
    BY <2>1 DEF Names
  <2> QED
    BY <2>1, <2>2, AnswerHosts DEF HostInv
<1> QED
  BY <1>1, <1>2, <1>3, <1>4, <1>5, StepKinds DEF Aside

\* Every step keeps the datagrams in step with the client.
LEMMA DatagramStep ==
  TypeOK /\ HostInv /\ DatagramInv /\ RepliesToAsked /\ [Next]_vars => DatagramInv' /\ RepliesToAsked'
<1> SUFFICES ASSUME TypeOK, HostInv, DatagramInv, RepliesToAsked, [Next]_vars
             PROVE  DatagramInv' /\ RepliesToAsked'
  OBVIOUS
<1> USE DEF DatagramInv, RepliesToAsked
<1>1. CASE UNCHANGED <<client, asked, toDns, toClient>>
  BY <1>1
<1>2. CASE CaptdnsRecv
  <2>1. PICK isPointer \in BOOLEAN : toDns = Query(client.host, asked, isPointer)
    BY <1>2 DEF CaptdnsRecv
  <2>2. /\ toClient' = Reply(Query(client.host, asked, isPointer)) /\ toDns' = NoReply
        /\ UNCHANGED <<client, asked>> /\ asked \in Companions /\ client.host \in Names
        /\ client.phase = "resolve"
    BY <1>2, <2>1 DEF CaptdnsRecv, HostInv
  <2> QED
    BY <2>2
<1>3. CASE Lost
  BY <1>3 DEF Lost
<1>4. CASE SendQuery
  <2>1. PICK types \in Companions, isPointer \in BOOLEAN :
          asked' = types /\ toDns' = Query(client.host, types, isPointer)
    BY <1>4 DEF SendQuery
  <2>2. client.phase = "resolve" /\ toClient' = NoReply /\ client' = client
    BY <1>4 DEF SendQuery
  <2> QED
    BY <2>1, <2>2
<1>5. CASE Resolved
  BY <1>5 DEF Resolved
<1>6. CASE Follow
  BY <1>6 DEF Follow
<1>7. CASE ServerStep
  <2>1. UNCHANGED <<toDns, toClient, asked>> /\ client.phase \in {"request", "routing"}
    BY <1>7 DEF ServerStep, Preflight, StartRouting, CgiNotFound, TryNextRoute, RunCgi, CgiNoMemory,
                Routed, network
  <2> QED
    BY <2>1
<1>8. CASE StartUp \/ HttpTaskStep \/ CreateSocket \/ BindSocket \/ UNCHANGED vars
  BY <1>1, <1>8 DEF StartUp, HttpTaskStep, CreateSocket, BindSocket, vars
<1> QED
  BY <1>2, <1>3, <1>4, <1>5, <1>6, <1>7, <1>8 DEF Next

\* A reply on its way is the reply to the query for the host that the client wants now, also after
\* lost datagrams, repeated queries and redirects to another host (captdnsRecv, captdnsTask,
\* cgiRedirectToHostname).
LEMMA RepliesMatch == Spec => []RepliesToAsked
<1> DEFINE Inv == TypeOK /\ StartInv /\ HostInv /\ DatagramInv /\ RepliesToAsked
<1>1. Init => Inv
  <2>1. Init => HostInv
    <3> SUFFICES ASSUME Init PROVE HostInv
      OBVIOUS
    <3>1. PICK v \in Visits : client.host = v.host
      BY DEF Init
    <3>2. reply.location = None
      BY ReplyParts DEF Init, NoAnswer
    <3> QED
      BY <3>1, <3>2 DEF HostInv, Names
  <2>2. Init => DatagramInv /\ RepliesToAsked
    BY DEF Init, DatagramInv, RepliesToAsked
  <2> QED
    BY <2>1, <2>2, StartType
<1>2. Inv /\ [Next]_vars => Inv'
  BY TypeStep, HostStep, DatagramStep
<1>3. Inv => RepliesToAsked
  OBVIOUS
<1> QED
  BY <1>1, <1>2, <1>3, PTL DEF Spec

-----------------------------------------------------------------------------
(* The answers to queries *)

\* What holds of the empty sequence and of every sequence with one more element holds of
\* all. P is the set of those of which it holds.
LEMMA BySequence ==
  ASSUME NEW S, NEW P, <<>> \in P, \A s \in Seq(S), e \in S : s \in P => Append(s, e) \in P
  PROVE  \A s \in Seq(S) : s \in P
<1>1. TAKE s \in Seq(S)
<1> DEFINE N == Len(s)
           T == {n \in 0..N : SubSeq(s, 1, n) \in P}
<1>2. N \in Nat
  BY LenProperties
<1>3. 0 \in T
  <2>1. SubSeq(s, 1, 0) = <<>> /\ 0 \in 0..N
    BY <1>2, SubSeqEmpty
  <2> QED BY <2>1
<1>4. ASSUME NEW n \in 1..N, n - 1 \in T PROVE n \in T
  <2>1. PICK m \in 0..N : m = n - 1 /\ SubSeq(s, 1, m) \in P
    BY <1>4
  <2>2. PICK u : u = SubSeq(s, 1, m)
    OBVIOUS
  <2>3. u \in Seq(S) /\ s[n] \in S /\ n \in 0..N
    <3>1. \A i \in 1..m : s[i] \in S
      <4>1. \A i \in 1..m : i \in 1..N
        BY <1>2
      <4> QED BY <4>1, ElementOfSeq
    <3> QED BY <1>2, <1>4, <2>2, <3>1, SubSeqProperties, ElementOfSeq
  <2>4. SubSeq(s, 1, n) = Append(u, s[n])
    BY <1>2, <2>1, <2>2
  <2>5. Append(u, s[n]) \in P
    BY <2>1, <2>2, <2>3
  <2>6. SubSeq(s, 1, n) \in P
    BY <2>4, <2>5, Zenon
  <2> QED BY <2>3, <2>6, Zenon
<1>5. N \in T
  <2>1. N \in 0..N
    BY <1>2
  <2> HIDE DEF T, N
  <2> QED BY <1>2, <1>3, <1>4, <2>1, AllPasses
<1>6. SubSeq(s, 1, N) = s
  BY <1>2
<1> QED BY <1>5, <1>6

\* A loop over nothing, and over one character more.
LEMMA LoopEmpty ==
  ASSUME NEW step, NEW s0 PROVE Loop(step, s0, <<>>) = s0
<1>1. Len(<<>>) = 0 /\ Len(<<>>) \in Nat
  OBVIOUS
<1>2. PICK f : f[0] = s0 /\ Loop(step, s0, <<>>) = f[Len(<<>>)]
  BY <1>1, LoopRuns
<1> QED BY <1>1, <1>2

\* f has the states of a loop over a text.
Unfolded(f, step, s0, text) ==
  f[0] = s0 /\ \A n \in 1..Len(text) : f[n] = step[text[n]][f[n - 1]]

\* The passes of a loop, as one formula.
LEMMA LoopUnfolds ==
  ASSUME NEW step, NEW s0, NEW text, Len(text) \in Nat
  PROVE  \E f : Unfolded(f, step, s0, text) /\ Loop(step, s0, text) = f[Len(text)]
BY LoopRuns DEF Unfolded

\* A loop over one character more takes one step more.
LEMMA LoopMore ==
  ASSUME NEW S, NEW a \in Seq(S), NEW c \in S, NEW step, NEW s0
  PROVE  Loop(step, s0, Append(a, c)) = step[c][Loop(step, s0, a)]
<1>1. PICK l \in Nat, b \in Seq(S) :
        /\ l = Len(a) /\ b = Append(a, c) /\ Len(b) = l + 1
        /\ \A i \in 1..l : b[i] = a[i]
        /\ b[l + 1] = c
  <2>1. PICK m \in Nat : m = Len(a)
    BY LenProperties
  <2>2. /\ Append(a, c) \in Seq(S) /\ Len(Append(a, c)) = m + 1
        /\ \A i \in 1..m : Append(a, c)[i] = a[i]
        /\ Append(a, c)[m + 1] = c
    BY <2>1, AppendProperties
  <2> QED BY <2>1, <2>2
<1>2. PICK f : Unfolded(f, step, s0, b) /\ Loop(step, s0, b) = f[l + 1]
  <2>1. Len(b) \in Nat
    BY <1>1
  <2>2. \E f : Unfolded(f, step, s0, b) /\ Loop(step, s0, b) = f[Len(b)]
    BY <2>1, LoopUnfolds
  <2> QED BY <1>1, <2>2
<1>3. PICK g : Unfolded(g, step, s0, a) /\ Loop(step, s0, a) = g[l]
  BY <1>1, LoopUnfolds
<1> DEFINE T == {n \in 0..l : f[n] = g[n]}
<1>4. \A n \in 0..l : n \in T
  <2>1. 0 \in T
    BY <1>2, <1>3 DEF Unfolded
  <2>2. ASSUME NEW n \in 1..l, n - 1 \in T PROVE n \in T
    <3>1. n \in 1..Len(b) /\ n \in 1..Len(a) /\ b[n] = a[n] /\ f[n - 1] = g[n - 1]
      BY <1>1, <2>2
    <3>2. f[n] = step[b[n]][f[n - 1]] /\ g[n] = step[a[n]][g[n - 1]]
      BY <1>2, <1>3, <3>1 DEF Unfolded
    <3> QED BY <3>1, <3>2
  <2> HIDE DEF T
  <2> QED BY <2>1, <2>2, AllPasses
<1>5. f[l] = g[l]
  BY <1>4
<1>6. f[l + 1] = step[c][f[l]]
  <2>1. l + 1 \in 1..Len(b) /\ (l + 1) - 1 = l
    BY <1>1
  <2>2. f[l + 1] = step[b[l + 1]][f[(l + 1) - 1]]
    BY <1>2, <2>1 DEF Unfolded
  <2> QED BY <1>1, <2>1, <2>2
<1> QED BY <1>1, <1>2, <1>3, <1>5, <1>6, Zenon

\* Appending and joining.
LEMMA AppendIsJoin ==
  ASSUME NEW S, NEW a \in Seq(S), NEW b \in Seq(S), NEW c \in S
  PROVE  a \o Append(b, c) = Append(a \o b, c) /\ a \o <<>> = a /\ <<>> \o a = a
OBVIOUS

\* A loop over two texts is a loop over the second from where that over the first ends.
LEMMA LoopJoins ==
  ASSUME NEW S, NEW a \in Seq(S), NEW step, NEW s0
  PROVE  \A b \in Seq(S) : Loop(step, s0, a \o b) = Loop(step, Loop(step, s0, a), b)
<1> DEFINE P == {b \in Seq(S) : Loop(step, s0, a \o b) = Loop(step, Loop(step, s0, a), b)}
<1>1. <<>> \in P
  <2>1. a \o <<>> = a /\ <<>> \in Seq(S)
    OBVIOUS
  <2> QED BY <2>1, LoopEmpty
<1>2. ASSUME NEW b \in Seq(S), NEW c \in S, b \in P PROVE Append(b, c) \in P
  <2>1. a \o Append(b, c) = Append(a \o b, c) /\ Append(b, c) \in Seq(S) /\ a \o b \in Seq(S)
    OBVIOUS
  <2>2. Loop(step, s0, Append(a \o b, c)) = step[c][Loop(step, s0, a \o b)]
    BY <2>1, LoopMore
  <2>3. Loop(step, Loop(step, s0, a), Append(b, c)) = step[c][Loop(step, Loop(step, s0, a), b)]
    BY LoopMore
  <2> QED BY <1>2, <2>1, <2>2, <2>3
<1>3. \A b \in Seq(S) : b \in P
  <2> HIDE DEF P
  <2> QED BY <1>1, <1>2, BySequence
<1> QED BY <1>3

\* The labels that DNS can carry and that survive being joined with dots.
DnsLabel == {l \in Seq(1..255) : Len(l) \in 1..63 /\ \A i \in 1..Len(l) : l[i] # Dot}

\* A label has at least one character.
LEMMA NoEmptyLabel == <<>> \notin DnsLabel
<1>1. Len(<<>>) = 0 /\ 0 \notin 1..63
  OBVIOUS
<1> QED BY <1>1 DEF DnsLabel

\* What labels and bytes are in terms of the sets of the model.
LEMMA LabelKinds ==
  /\ DnsLabel \subseteq Text /\ DnsLabel \subseteq Seq(Byte) /\ DnsLabel \subseteq Seq(Byte \ {Dot})
  /\ Seq(DnsLabel) \subseteq Seq(Text) /\ Seq(Byte) \subseteq Seq(Nat)
<1>1. 1..255 \subseteq Byte /\ Byte \subseteq Nat
  BY DEF Byte
<1>2. Seq(1..255) \subseteq Seq(Byte) /\ Seq(Byte) \subseteq Seq(Nat)
  BY <1>1, SeqMonotonic
<1>3. DnsLabel \subseteq Text /\ DnsLabel \subseteq Seq(Byte)
  BY <1>2 DEF DnsLabel, Text
<1>4. ASSUME NEW l \in DnsLabel PROVE l \in Seq(Byte \ {Dot})
  <2>1. l \in Seq(1..255) /\ \A i \in 1..Len(l) : l[i] # Dot
    BY DEF DnsLabel
  <2>2. \A i \in 1..Len(l) : l[i] \in 1..255
    BY <2>1, ElementOfSeq
  <2>3. \A i \in 1..Len(l) : l[i] \in Byte \ {Dot}
    BY <1>1, <2>1, <2>2
  <2> QED BY <2>1, <2>3, Retyped
<1>5. Seq(DnsLabel) \subseteq Seq(Text)
  BY <1>3, SeqMonotonic
<1> QED BY <1>2, <1>3, <1>4, <1>5

\* How a label is written: strToLabel and a resolver write it alike.
LEMMA LabelBytesAre ==
  ASSUME NEW l \in DnsLabel
  PROVE  /\ LabelBytes(l) \in Seq(Byte) /\ Label(l) = LabelBytes(l)
         /\ Len(l) \in 1..63 /\ Len(LabelBytes(l)) = Len(l) + 1
         /\ LabelBytes(l)[1] = Len(l) /\ \A i \in 1..Len(l) : LabelBytes(l)[i + 1] = l[i]
<1>1. l \in Seq(Byte)
  BY LabelKinds
<1>2. PICK k \in 1..63 : k = Len(l)
  BY DEF DnsLabel
<1>3. k \in Byte /\ k % 256 = k
  BY DEF Byte
<1>4. PICK q \in Seq(Byte) : q = <<k>> /\ Len(q) = 1 /\ q[1] = k
  <2>1. k \in Byte
    BY <1>3
  <2>2. <<k>> \in Seq(Byte) /\ Len(<<k>>) = 1 /\ <<k>>[1] = k
    BY <2>1
  <2> QED BY <2>2
<1>5. /\ q \o l \in Seq(Byte) /\ Len(q \o l) = Len(q) + Len(l)
      /\ \A i \in 1..Len(q) : (q \o l)[i] = q[i]
      /\ \A i \in 1..Len(l) : (q \o l)[Len(q) + i] = l[i]
  BY <1>1, <1>4, Joined
<1>6. LabelBytes(l) = q \o l /\ Label(l) = q \o l
  BY <1>2, <1>3, <1>4 DEF LabelBytes, Label
<1>7. PICK w : w = q \o l
  OBVIOUS
<1>8. w[1] = k /\ Len(w) = k + 1 /\ \A i \in 1..k : w[i + 1] = l[i]
  <2>1. 1 \in 1..Len(q)
    BY <1>4
  <2>2. \A i \in 1..k : w[1 + i] = l[i]
    BY <1>2, <1>4, <1>5, <1>7
  <2>3. \A i \in 1..k : i + 1 = 1 + i
    OBVIOUS
  <2> QED BY <1>2, <1>4, <1>5, <1>7, <2>1, <2>2, <2>3, SMTT(30)
<1> QED BY <1>2, <1>5, <1>6, <1>7, <1>8, Zenon

\* The bytes of the labels of a name, one label more.
LEMMA LabelsMore ==
  /\ Labels(<<>>) = <<>>
  /\ \A h \in Seq(DnsLabel) : Labels(h) \in Seq(Byte)
  /\ \A h \in Seq(DnsLabel), l \in DnsLabel : Labels(Append(h, l)) = Labels(h) \o LabelBytes(l)
<1> DEFINE step == [label \in Text |-> [s \in Seq(Nat) |-> s \o LabelBytes(label)]]
           P == {h \in Seq(DnsLabel) : Labels(h) \in Seq(Byte)}
<1>1. Labels(<<>>) = <<>> /\ <<>> \in Seq(Byte)
  BY LoopEmpty DEF Labels
<1>2. ASSUME NEW h \in Seq(DnsLabel), NEW l \in DnsLabel, Labels(h) \in Seq(Byte)
      PROVE  Labels(Append(h, l)) = Labels(h) \o LabelBytes(l) /\ Labels(Append(h, l)) \in Seq(Byte)
  <2>1. Labels(Append(h, l)) = step[l][Labels(h)]
    BY LoopMore DEF Labels
  <2>2. l \in Text /\ Labels(h) \in Seq(Nat)
    BY <1>2, LabelKinds
  <2>3. step[l][Labels(h)] = Labels(h) \o LabelBytes(l)
    BY <2>2
  <2>4. Labels(h) \o LabelBytes(l) \in Seq(Byte)
    BY <1>2, LabelBytesAre, ConcatProperties
  <2> QED BY <2>1, <2>3, <2>4
<1>3. \A h \in Seq(DnsLabel) : h \in P
  <2>1. <<>> \in P
    <3>1. <<>> \in Seq(DnsLabel)
      OBVIOUS
    <3> QED BY <1>1, <3>1
  <2>2. ASSUME NEW h \in Seq(DnsLabel), NEW l \in DnsLabel, h \in P PROVE Append(h, l) \in P
    BY <1>2, <2>2
  <2> HIDE DEF P
  <2> QED BY <2>1, <2>2, BySequence
<1> QED BY <1>1, <1>2, <1>3

\* The text of a name, one label more.
LEMMA HostTextMore ==
  /\ HostText(<<>>) = <<>>
  /\ \A h \in Seq(DnsLabel) : HostText(h) \in Seq(Byte) /\ (HostText(h) = <<>> <=> h = <<>>)
  /\ \A h \in Seq(DnsLabel), l \in DnsLabel : HostText(Append(h, l)) = Dotted(HostText(h), l)
<1> DEFINE step == [label \in Text |-> [s \in Seq(Byte) |-> Dotted(s, label)]]
           P == {h \in Seq(DnsLabel) : HostText(h) \in Seq(Byte) /\ (HostText(h) = <<>> <=> h = <<>>)}
<1>1. HostText(<<>>) = <<>> /\ <<>> \in Seq(Byte)
  BY LoopEmpty DEF HostText
<1>2. ASSUME NEW h \in Seq(DnsLabel), NEW l \in DnsLabel, HostText(h) \in Seq(Byte)
      PROVE  /\ HostText(Append(h, l)) = Dotted(HostText(h), l)
             /\ HostText(Append(h, l)) \in Seq(Byte) /\ HostText(Append(h, l)) # <<>>
  <2>1. HostText(Append(h, l)) = step[l][HostText(h)]
    BY LoopMore DEF HostText
  <2>2. l \in Text /\ l \in Seq(Byte) /\ l # <<>> /\ Dot \in Byte
    <3>1. l # <<>>
      BY NoEmptyLabel
    <3>2. Dot \in Byte
      BY DEF Dot, Byte
    <3> QED BY <3>1, <3>2, LabelKinds
  <2>3. step[l][HostText(h)] = Dotted(HostText(h), l)
    BY <1>2, <2>2
  <2>4. Dotted(HostText(h), l) \in Seq(Byte) /\ Dotted(HostText(h), l) # <<>>
    <3>1. Append(HostText(h), Dot) \in Seq(Byte)
      BY <1>2, <2>2, AppendProperties
    <3>2. Append(HostText(h), Dot) \o l \in Seq(Byte) /\ Append(HostText(h), Dot) \o l # <<>>
      BY <2>2, <3>1, ConcatProperties, ConcatEqualIffEmpty
    <3> QED BY <2>2, <3>2 DEF Dotted
  <2> QED BY <2>1, <2>3, <2>4
<1>3. \A h \in Seq(DnsLabel) : h \in P
  <2>1. <<>> \in P
    <3>1. <<>> \in Seq(DnsLabel)
      OBVIOUS
    <3> QED BY <1>1, <3>1
  <2>2. ASSUME NEW h \in Seq(DnsLabel), NEW l \in DnsLabel, h \in P PROVE Append(h, l) \in P
    <3>1. Append(h, l) \in Seq(DnsLabel) /\ Append(h, l) # <<>>
      BY AppendProperties
    <3> QED BY <1>2, <2>2, <3>1
  <2> HIDE DEF P
  <2> QED BY <2>1, <2>2, BySequence
<1> QED BY <1>1, <1>2, <1>3

SplitSteps == [c \in Byte |-> [s \in LabelState |-> CopyChar(s, c)]]
SplitStart == [done |-> <<>>, part |-> <<>>]

\* strToLabel copies characters without a dot.
LEMMA PartCopied ==
  ASSUME NEW done \in Seq(Byte), NEW part \in Seq(Byte)
  PROVE  \A l \in Seq(Byte \ {Dot}) :
           Loop(SplitSteps, [done |-> done, part |-> part], l) = [done |-> done, part |-> part \o l]
<1> DEFINE s0 == [done |-> done, part |-> part]
           P == {l \in Seq(Byte \ {Dot}) : Loop(SplitSteps, s0, l) = [done |-> done, part |-> part \o l]}
<1>1. <<>> \in P
  <2>1. part \o <<>> = part /\ <<>> \in Seq(Byte \ {Dot})
    OBVIOUS
  <2> QED BY <2>1, LoopEmpty
<1>2. ASSUME NEW l \in Seq(Byte \ {Dot}), NEW c \in Byte \ {Dot}, l \in P PROVE Append(l, c) \in P
  <2>1. Loop(SplitSteps, s0, Append(l, c)) = SplitSteps[c][Loop(SplitSteps, s0, l)]
    BY LoopMore
  <2>2. l \in Seq(Byte)
    <3>1. Byte \ {Dot} \subseteq Byte
      OBVIOUS
    <3> QED BY <3>1, SeqMonotonic
  <2>3. PICK r : r = [done |-> done, part |-> part \o l] /\ Loop(SplitSteps, s0, l) = r
    BY <1>2
  <2>4. r \in LabelState
    BY <2>2, <2>3 DEF LabelState
  <2>5. SplitSteps[c][r] = [done |-> done, part |-> Append(part \o l, c)]
    <3>1. SplitSteps[c][r] = CopyChar(r, c)
      BY <2>4 DEF SplitSteps
    <3>2. r.done = done /\ r.part = part \o l /\ c # Dot
      BY <2>3
    <3> QED BY <3>1, <3>2 DEF CopyChar
  <2>6. Append(part \o l, c) = part \o Append(l, c) /\ Append(l, c) \in Seq(Byte \ {Dot})
    BY <2>2, SMTT(30)
  <2> QED BY <2>1, <2>3, <2>5, <2>6
<1>3. \A l \in Seq(Byte \ {Dot}) : l \in P
  <2> HIDE DEF P
  <2> QED BY <1>1, <1>2, BySequence
<1> QED BY <1>3

\* What strToLabel has written of a dotted name: all labels but the last, and that.
Copied(r, h) == r \in LabelState /\ r.done \o Label(r.part) = Labels(h)

\* strToLabel takes the text of a name apart into its labels again.
LEMMA SplitsHost ==
  \A h \in Seq(DnsLabel) : h # <<>> => Copied(Loop(SplitSteps, SplitStart, HostText(h)), h)
<1> DEFINE Split(t) == Loop(SplitSteps, SplitStart, t)
           P == {h \in Seq(DnsLabel) : h # <<>> => Copied(Split(HostText(h)), h)}
<1>1. <<>> \in P
  OBVIOUS
<1>2. ASSUME NEW h \in Seq(DnsLabel), NEW l \in DnsLabel, h \in P
      PROVE  Copied(Split(HostText(Append(h, l))), Append(h, l))
  <2>1. /\ l \in Seq(Byte \ {Dot}) /\ l \in Seq(Byte) /\ Labels(h) \in Seq(Byte)
        /\ Label(l) = LabelBytes(l) /\ Labels(Append(h, l)) = Labels(h) \o LabelBytes(l)
        /\ HostText(Append(h, l)) = Dotted(HostText(h), l)
        /\ HostText(h) \in Seq(Byte) /\ Dot \in Byte
    <3>1. Dot \in Byte
      BY DEF Dot, Byte
    <3> QED BY <3>1, LabelKinds, LabelBytesAre, LabelsMore, HostTextMore
  <2>2. PICK r : r = [done |-> Labels(h), part |-> l]
    OBVIOUS
  <2>3. r \in LabelState /\ r.done = Labels(h) /\ r.part = l
    BY <2>1, <2>2 DEF LabelState
  <2>4. Copied(r, Append(h, l))
    BY <2>1, <2>3 DEF Copied
  <2>5. <<>> \in Seq(Byte) /\ <<>> \o l = l
    BY <2>1
  <2>6. CASE h = <<>>
    <3>1. Dotted(HostText(h), l) = l /\ Labels(h) = <<>>
      BY <2>6, HostTextMore, LabelsMore DEF Dotted
    <3>2. Split(l) = [done |-> <<>>, part |-> <<>> \o l]
      BY <2>1, <2>5, PartCopied DEF SplitStart
    <3> QED BY <2>1, <2>2, <2>4, <2>5, <3>1, <3>2
  <2>7. CASE h # <<>>
    <3>1. Dotted(HostText(h), l) = Append(HostText(h), Dot) \o l /\ Append(HostText(h), Dot) \in Seq(Byte)
      BY <2>1, <2>7, HostTextMore, AppendProperties DEF Dotted
    <3>2. Split(Append(HostText(h), Dot) \o l) = Loop(SplitSteps, Split(Append(HostText(h), Dot)), l)
      <4>1. PICK a \in Seq(Byte) : a = Append(HostText(h), Dot)
        BY <3>1
      <4>2. \A b \in Seq(Byte) : Loop(SplitSteps, SplitStart, a \o b)
                                 = Loop(SplitSteps, Loop(SplitSteps, SplitStart, a), b)
        BY LoopJoins
      <4> QED BY <2>1, <4>1, <4>2
    <3>3. Split(Append(HostText(h), Dot)) = SplitSteps[Dot][Split(HostText(h))]
      BY <2>1, LoopMore
    <3>4. PICK q : q = Split(HostText(h)) /\ Copied(q, h)
      BY <1>2, <2>7
    <3>5. SplitSteps[Dot][q] = [done |-> Labels(h), part |-> <<>>]
      <4>1. SplitSteps[Dot][q] = CopyChar(q, Dot)
        BY <2>1, <3>4 DEF SplitSteps, Copied
      <4> QED BY <3>4, <4>1 DEF CopyChar, Copied
    <3>6. Loop(SplitSteps, [done |-> Labels(h), part |-> <<>>], l) = [done |-> Labels(h), part |-> <<>> \o l]
      BY <2>1, <2>5, PartCopied
    <3>7. Split(HostText(Append(h, l))) = r
      <4> HIDE DEF Split
      <4> QED BY <2>1, <2>2, <2>5, <3>1, <3>2, <3>3, <3>4, <3>5, <3>6
    <3> QED BY <2>4, <3>7
  <2> QED BY <2>6, <2>7
<1>3. \A h \in Seq(DnsLabel) : h \in P
  <2>1. ASSUME NEW h \in Seq(DnsLabel), NEW l \in DnsLabel, h \in P PROVE Append(h, l) \in P
    <3>1. Append(h, l) \in Seq(DnsLabel)
      BY AppendProperties
    <3> QED BY <1>2, <2>1, <3>1
  <2> HIDE DEF P
  <2> QED BY <1>1, <2>1, BySequence
<1> QED BY <1>3

\* strToLabel turns a dotted name back into the bytes of the labels it was made of.
LEMMA NameWritten ==
  ASSUME NEW h \in Seq(DnsLabel), h # <<>>
  PROVE  StrToLabel(HostText(h)) = NameBytes(h)
<1>1. PICK r : r = Loop(SplitSteps, SplitStart, HostText(h)) /\ Copied(r, h)
  BY SplitsHost
<1>2. StrToLabel(HostText(h)) = (r.done \o Label(r.part)) \o <<0>>
  BY <1>1 DEF StrToLabel, SplitSteps, SplitStart
<1> QED BY <1>1, <1>2 DEF Copied, NameBytes

\* A sequence of bytes stands in a packet behind the first p of it.
Holds(packet, p, u) ==
  p + Len(u) <= Len(packet) /\ \A i \in 1..Len(u) : packet[p + i] = u[i]

\* What stands in a packet stands there in parts.
LEMMA HoldsParts ==
  ASSUME NEW packet \in Seq(Nat), NEW p \in Nat, NEW u \in Seq(Nat), NEW v \in Seq(Nat),
         Holds(packet, p, u \o v)
  PROVE  Holds(packet, p, u) /\ Holds(packet, p + Len(u), v) /\ p + Len(u) + Len(v) <= Len(packet)
<1>1. PICK l \in Nat, k \in Nat, n \in Nat : l = Len(u) /\ k = Len(v) /\ n = Len(packet)
  BY LenProperties
<1>2. PICK w : /\ w = u \o v /\ Len(w) = l + k
               /\ \A i \in 1..l : w[i] = u[i]
               /\ \A i \in 1..k : w[l + i] = v[i]
  <2>1. /\ Len(u \o v) = Len(u) + Len(v)
        /\ \A i \in 1..Len(u) : (u \o v)[i] = u[i]
        /\ \A i \in 1..Len(v) : (u \o v)[Len(u) + i] = v[i]
    BY Joined
  <2> QED BY <1>1, <2>1, Zenon
<1>3. p + (l + k) <= n /\ \A i \in 1..l + k : packet[p + i] = w[i]
  BY <1>1, <1>2 DEF Holds
<1>4. \A i \in 1..l : packet[p + i] = u[i]
  <2>1. \A i \in 1..l : i \in 1..l + k
    OBVIOUS
  <2> QED BY <1>2, <1>3, <2>1
<1>5. \A i \in 1..k : packet[p + l + i] = v[i]
  <2>1. \A i \in 1..k : l + i \in 1..l + k /\ p + (l + i) = p + l + i
    OBVIOUS
  <2> QED BY <1>2, <1>3, <2>1
<1> QED BY <1>1, <1>3, <1>4, <1>5 DEF Holds

\* The bytes that stand at a place of a packet are its bytes from there.
LEMMA HeldPart ==
  ASSUME NEW packet \in Seq(Nat), NEW p \in Nat, NEW u \in Seq(Nat), Holds(packet, p, u)
  PROVE  SubSeq(packet, p + 1, p + Len(u)) = u
<1>1. PICK k \in Nat : k = Len(u)
  BY LenProperties
<1>2. \A i \in 1..k : packet[p + i] = u[i] /\ u[i] \in Nat
  BY <1>1, ElementOfSeq DEF Holds
<1>3. \A i \in p + 1..p + k : packet[i] \in Nat
  <2>1. TAKE i \in p + 1..p + k
  <2>2. PICK j \in 1..k : i = p + j
    <3>1. i - p \in 1..k /\ i = p + (i - p)
      OBVIOUS
    <3> QED BY <3>1
  <2> QED BY <1>2, <2>2
<1>4. PICK w : w = SubSeq(packet, p + 1, p + k)
  OBVIOUS
<1>5. /\ w \in Seq(Nat) /\ Len(w) = (IF p + 1 <= p + k THEN p + k - (p + 1) + 1 ELSE 0)
      /\ \A i \in 1..p + k - (p + 1) + 1 : w[i] = packet[p + 1 + i - 1]
  BY <1>3, <1>4, SubSeqProperties
<1>6. Len(w) = k /\ \A i \in 1..k : w[i] = u[i]
  <2>1. Len(w) = k
    BY <1>5
  <2>2. \A i \in 1..k : p + 1 + i - 1 = p + i /\ i \in 1..p + k - (p + 1) + 1
    OBVIOUS
  <2> QED BY <1>2, <1>5, <2>1, <2>2
<1> QED BY <1>1, <1>4, <1>5, <1>6, SeqEqual

FrontOf(s, n) == SubSeq(s, 1, n)

\* The front of a sequence, one element more.
LEMMA FrontMore ==
  ASSUME NEW S, NEW s \in Seq(S)
  PROVE  /\ FrontOf(s, 0) = <<>> /\ FrontOf(s, Len(s)) = s
         /\ \A n \in 0..Len(s) : FrontOf(s, n) \in Seq(S)
         /\ \A n \in 1..Len(s) :
              n - 1 \in 0..Len(s) /\ s[n] \in S /\ FrontOf(s, n) = Append(FrontOf(s, n - 1), s[n])
<1>1. PICK N \in Nat : N = Len(s)
  BY LenProperties
<1>2. FrontOf(s, 0) = <<>> /\ FrontOf(s, N) = s
  BY <1>1, SubSeqEmpty, SubSeqFull DEF FrontOf
<1>3. ASSUME NEW n \in 0..N PROVE FrontOf(s, n) \in Seq(S) /\ Len(FrontOf(s, n)) = n
  <2>1. \A i \in 1..n : s[i] \in S
    <3>1. \A i \in 1..n : i \in 1..N
      BY <1>1
    <3> QED BY <1>1, <3>1, ElementOfSeq
  <2> QED BY <2>1, SubSeqProperties DEF FrontOf
<1>4. ASSUME NEW n \in 1..N
      PROVE  n - 1 \in 0..N /\ s[n] \in S /\ FrontOf(s, n) = Append(FrontOf(s, n - 1), s[n])
  <2>1. s[n] \in S /\ n - 1 \in 0..N
    BY <1>1, ElementOfSeq
  <2>2. PICK m \in 0..N : m = n - 1
    BY <2>1
  <2>3. SubSeq(s, 1, n) = Append(SubSeq(s, 1, m), s[n])
    BY <1>1, <2>2
  <2> QED BY <2>1, <2>2, <2>3 DEF FrontOf
<1> QED BY <1>1, <1>2, <1>3, <1>4

\* The label n of the name h in a packet is between A[n - 1] and A[n], and is followed by
\* another one or, at the end, by zero.
Laid(A, packet, h, n) ==
  /\ A[n - 1] \in Nat /\ A[n] \in Nat /\ A[n] = A[n - 1] + 1 + Len(h[n]) /\ A[n] < Len(packet)
  /\ packet[A[n - 1] + 1] = Len(h[n]) /\ SubSeq(packet, A[n - 1] + 2, A[n]) = h[n]
  /\ IF n = Len(h) THEN packet[A[n] + 1] = 0 ELSE packet[A[n] + 1] \in 1..63

\* A label that stands in a packet is read as itself.
LEMMA LabelHeld ==
  ASSUME NEW packet \in Seq(Nat), NEW a \in Nat, NEW l \in DnsLabel, Holds(packet, a, LabelBytes(l))
  PROVE  /\ packet[a + 1] = Len(l) /\ Len(l) \in 1..63 /\ a + 1 + Len(l) <= Len(packet)
         /\ SubSeq(packet, a + 2, a + 1 + Len(l)) = l
<1>1. PICK k \in 1..63, w \in Seq(Byte) :
        /\ k = Len(l) /\ w = LabelBytes(l) /\ Len(w) = k + 1
        /\ w[1] = k /\ \A i \in 1..k : w[i + 1] = l[i]
  <2>1. /\ LabelBytes(l) \in Seq(Byte)
         /\ Len(l) \in 1..63 /\ Len(LabelBytes(l)) = Len(l) + 1
         /\ LabelBytes(l)[1] = Len(l) /\ \A i \in 1..Len(l) : LabelBytes(l)[i + 1] = l[i]
    BY LabelBytesAre
  <2> QED BY <2>1, Zenon
<1>2. a + (k + 1) <= Len(packet) /\ \A i \in 1..k + 1 : packet[a + i] = w[i]
  BY <1>1 DEF Holds
<1>3. packet[a + 1] = k
  <2>1. 1 \in 1..k + 1
    OBVIOUS
  <2> QED BY <1>1, <1>2, <2>1
<1>4. \A i \in 1..k : packet[a + 1 + i] = l[i]
  <2>1. \A i \in 1..k : i + 1 \in 1..k + 1 /\ a + (i + 1) = a + 1 + i
    OBVIOUS
  <2> QED BY <1>1, <1>2, <2>1
<1>5. PICK n \in Nat : n = Len(packet)
  BY LenProperties
<1>6. a + 1 + k <= n
  BY <1>2, <1>5
<1>7. PICK b \in Nat : b = a + 1 /\ b + 1 = a + 2
  OBVIOUS
<1>8. Holds(packet, b, l)
  BY <1>1, <1>4, <1>5, <1>6, <1>7, Zenon DEF Holds
<1>9. SubSeq(packet, b + 1, b + Len(l)) = l
  <2>1. l \in Seq(Nat)
    BY LabelKinds
  <2> QED BY <1>8, <2>1, HeldPart
<1> QED BY <1>1, <1>3, <1>5, <1>6, <1>7, <1>9, Zenon

\* A name that stands in a packet is laid out label by label, with zero behind the last.
LEMMA NameLaid ==
  ASSUME NEW packet \in Seq(Nat), NEW p \in Nat, NEW h \in Seq(DnsLabel), h # <<>>,
         Holds(packet, p, NameBytes(h))
  PROVE  /\ p + Len(h) < Len(packet) /\ Len(NameBytes(h)) = Len(Labels(h)) + 1
         /\ \E A : /\ A[0] = p /\ A[Len(h)] = p + Len(Labels(h))
                   /\ \A n \in 1..Len(h) : Laid(A, packet, h, n)
<1>1. PICK M \in Nat \ {0} : M = Len(h)
  <2>1. Len(h) \in Nat /\ Len(h) # 0
    BY LenProperties, EmptySeq
  <2> QED BY <2>1
<1> DEFINE L(n) == Labels(FrontOf(h, n))
<1>2. \A n \in 0..M : L(n) \in Seq(Nat) /\ Len(L(n)) \in Nat
  BY <1>1, FrontMore, LabelsMore, LabelKinds, LenProperties
<1>3. ASSUME NEW n \in 1..M
      PROVE  /\ n - 1 \in 0..M /\ L(n) = L(n - 1) \o LabelBytes(h[n]) /\ LabelBytes(h[n]) \in Seq(Nat)
             /\ h[n] \in DnsLabel
  <2>1. h[n] \in DnsLabel /\ n - 1 \in 0..M /\ FrontOf(h, n) = Append(FrontOf(h, n - 1), h[n])
        /\ FrontOf(h, n - 1) \in Seq(DnsLabel)
    BY <1>1, FrontMore
  <2>2. LabelBytes(h[n]) \in Seq(Byte)
    BY <2>1, LabelBytesAre
  <2>3. LabelBytes(h[n]) \in Seq(Nat)
    BY <2>2, LabelKinds
  <2> QED BY <2>1, <2>3, LabelsMore
<1>4. NameBytes(h) = L(M) \o <<0>> /\ L(M) = Labels(h) /\ <<0>> \in Seq(Nat) /\ Len(<<0>>) = 1
      /\ <<0>>[1] = 0
  <2>1. <<0>> \in Seq(Nat) /\ Len(<<0>>) = 1 /\ <<0>>[1] = 0
    OBVIOUS
  <2> QED BY <1>1, <2>1, FrontMore DEF NameBytes
<1> HIDE DEF L
<1>5. M \in 0..M
  OBVIOUS
<1>6. /\ Holds(packet, p, L(M)) /\ Holds(packet, p + Len(L(M)), <<0>>)
      /\ Len(NameBytes(h)) = Len(L(M)) + 1
  <2>1. Holds(packet, p, L(M) \o <<0>>) /\ L(M) \in Seq(Nat)
    BY <1>2, <1>4, <1>5
  <2>2. Len(L(M) \o <<0>>) = Len(L(M)) + 1
    BY <1>4, <2>1, ConcatProperties
  <2> QED BY <1>4, <2>1, <2>2, HoldsParts
<1> DEFINE T == {i \in 0..M : Holds(packet, p, L(M - i))}
<1>7. \A i \in 0..M : i \in T
  <2>1. 0 \in T
    BY <1>6
  <2>2. ASSUME NEW i \in 1..M, i - 1 \in T PROVE i \in T
    <3>1. PICK n \in 1..M : n = M - (i - 1) /\ n - 1 = M - i
      OBVIOUS
    <3>2. Holds(packet, p, L(n))
      BY <2>2, <3>1
    <3>3. L(n) = L(n - 1) \o LabelBytes(h[n]) /\ L(n - 1) \in Seq(Nat) /\ LabelBytes(h[n]) \in Seq(Nat)
      BY <1>2, <1>3
    <3>4. Holds(packet, p, L(n - 1))
      BY <3>2, <3>3, HoldsParts
    <3> QED BY <3>1, <3>4
  <2> HIDE DEF T
  <2> QED BY <2>1, <2>2, AllPasses
<1>8. \A n \in 0..M : Holds(packet, p, L(n))
  <2>1. TAKE n \in 0..M
  <2>2. PICK i \in 0..M : i = M - n /\ M - i = n
    OBVIOUS
  <2>3. i \in T
    BY <1>7
  <2> QED BY <2>2, <2>3
<1>A. PICK A : \A n \in 0..M : A[n] = p + Len(L(n)) /\ A[n] \in Nat
  <2> DEFINE A == [n \in 0..M |-> p + Len(L(n))]
  <2>1. \A n \in 0..M : A[n] = p + Len(L(n)) /\ A[n] \in Nat
    BY <1>2
  <2> HIDE DEF A
  <2> QED BY <2>1
<1>B. ASSUME NEW n \in 1..M
      PROVE  /\ A[n - 1] \in Nat /\ h[n] \in DnsLabel /\ A[n] = A[n - 1] + 1 + Len(h[n])
             /\ Holds(packet, A[n - 1], LabelBytes(h[n]))
  <2>1. PICK u \in Seq(Nat), w \in Seq(Nat), l \in DnsLabel :
          /\ u = L(n - 1) /\ w = LabelBytes(h[n]) /\ l = h[n] /\ L(n) = u \o w
    BY <1>2, <1>3
  <2>2. Len(w) = Len(l) + 1 /\ Len(l) \in 1..63
    BY <2>1, LabelBytesAre
  <2>3. Len(u \o w) = Len(u) + Len(w) /\ Len(u) \in Nat
    BY Joined
  <2>4. Holds(packet, p, u \o w)
    <3>1. n \in 0..M
      OBVIOUS
    <3> QED BY <1>8, <2>1, <3>1, Zenon
  <2>5. Holds(packet, p + Len(u), w)
    BY <2>4, HoldsParts
  <2>6. A[n - 1] = p + Len(u) /\ A[n - 1] \in Nat /\ A[n] = p + Len(u \o w)
    BY <1>3, <1>A, <2>1, SMTT(30)
  <2>7. PICK k \in 1..63, m \in Nat : k = Len(l) /\ m = Len(u)
    BY <2>2, <2>3
  <2>8. A[n] = p + (m + (k + 1)) /\ A[n - 1] = p + m
    BY <2>2, <2>3, <2>6, <2>7
  <2>9. p + (m + (k + 1)) = p + m + 1 + k
    OBVIOUS
  <2>10. A[n] = A[n - 1] + 1 + Len(l)
    BY <2>7, <2>8, <2>9
  <2> QED BY <2>1, <2>5, <2>6, <2>10
<1>C. /\ A[0] = p /\ A[M] = p + Len(Labels(h)) /\ A[M] + 1 <= Len(packet) /\ packet[A[M] + 1] = 0
      /\ A[M] \in Nat
  <2>1. A[0] = p
    <3>1. L(0) = <<>> /\ Len(<<>>) = 0 /\ 0 \in 0..M
      BY FrontMore, LabelsMore DEF L
    <3> QED BY <1>A, <3>1
  <2>2. A[M] = p + Len(L(M)) /\ A[M] \in Nat
    BY <1>5, <1>A
  <2>3. Holds(packet, A[M], <<0>>)
    BY <1>6, <2>2
  <2>4. 1 \in 1..Len(<<0>>)
    BY <1>4
  <2>5. A[M] + Len(<<0>>) <= Len(packet) /\ packet[A[M] + 1] = <<0>>[1]
    BY <2>3, <2>4 DEF Holds
  <2> QED BY <1>4, <2>1, <2>2, <2>5
<1>9. ASSUME NEW n \in 1..M PROVE Laid(A, packet, h, n) /\ A[n - 1] < A[n]
  <2>1. PICK k \in 1..63, a \in Nat, l \in DnsLabel, b \in Nat :
          k = Len(l) /\ a = A[n - 1] /\ l = h[n] /\ b = A[n] /\ Holds(packet, a, LabelBytes(l))
    <3>1. Len(h[n]) \in 1..63
      BY <1>B, LabelBytesAre
    <3>2. n \in 0..M
      OBVIOUS
    <3>3. A[n] \in Nat
      BY <1>A, <3>2
    <3> QED BY <1>B, <3>1, <3>3
  <2>2. packet[a + 1] = k /\ SubSeq(packet, a + 2, a + 1 + k) = l
    BY <2>1, LabelHeld
  <2>3. b = a + 1 + k
    BY <1>B, <2>1
  <2>4. PICK N \in Nat : N = Len(packet)
    BY LenProperties
  <2>C. /\ A[n - 1] \in Nat /\ A[n] \in Nat /\ A[n] = A[n - 1] + 1 + Len(h[n])
        /\ packet[A[n - 1] + 1] = Len(h[n]) /\ SubSeq(packet, A[n - 1] + 2, A[n]) = h[n]
    BY <2>1, <2>2, <2>3
  <2>5. CASE n = M
    <3>1. packet[b + 1] = 0 /\ b + 1 <= N
      BY <1>C, <2>1, <2>4, <2>5
    <3>2. b < N
      BY <3>1
    <3>3. A[n] < Len(packet) /\ n = Len(h) /\ packet[A[n] + 1] = 0
      BY <1>1, <2>1, <2>4, <2>5, <3>1, <3>2
    <3>4. Laid(A, packet, h, n)
      BY <2>C, <3>3, Zenon DEF Laid
    <3> QED BY <2>1, <2>3, <3>4
  <2>6. CASE n # M
    <3>1. PICK m \in 1..M : m = n + 1 /\ m - 1 = n
      BY <2>6
    <3>2. PICK l2 \in DnsLabel : l2 = h[m] /\ Holds(packet, b, LabelBytes(l2))
      BY <1>B, <2>1, <3>1
    <3>3. PICK k2 \in 1..63 : k2 = Len(l2) /\ packet[b + 1] = k2 /\ b + 1 + k2 <= N
      BY <2>4, <3>2, LabelHeld
    <3>4. b < N
      BY <3>3
    <3>5. A[n] < Len(packet) /\ n # Len(h) /\ packet[A[n] + 1] \in 1..63
      BY <1>1, <2>1, <2>4, <2>6, <3>3, <3>4
    <3>6. Laid(A, packet, h, n)
      BY <2>C, <3>5, Zenon DEF Laid
    <3> QED BY <2>1, <2>3, <3>6
  <2> QED BY <2>5, <2>6
<1>11. p + M <= A[M]
  <2> DEFINE U == {n \in 0..M : p + n <= A[n]}
  <2>1. 0 \in U
    BY <1>C
  <2>2. ASSUME NEW n \in 1..M, n - 1 \in U PROVE n \in U
    <3>1. PICK a \in Nat, b \in Nat : a = A[n - 1] /\ b = A[n] /\ a < b
      <4>1. n \in 0..M
        OBVIOUS
      <4>2. A[n - 1] \in Nat /\ A[n] \in Nat
        BY <1>A, <1>B, <4>1
      <4> QED BY <1>9, <4>2
    <3>2. p + (n - 1) <= a
      BY <2>2, <3>1
    <3>3. p + n <= b
      BY <3>1, <3>2
    <3> QED BY <3>1, <3>3
  <2> HIDE DEF U
  <2>3. \A n \in 0..M : n \in U
    BY <2>1, <2>2, AllPasses
  <2> QED BY <1>5, <2>3 DEF U
<1>12. p + M < Len(packet)
  <2>1. PICK a \in Nat, N \in Nat : a = A[M] /\ N = Len(packet) /\ a + 1 <= N
    BY <1>C, LenProperties
  <2>2. p + M <= a
    BY <1>11, <2>1
  <2>3. p + M < N
    BY <2>1, <2>2
  <2> QED BY <2>1, <2>3
<1>13. \A n \in 1..Len(h) : Laid(A, packet, h, n)
  BY <1>1, <1>9
<1> QED BY <1>1, <1>4, <1>6, <1>12, <1>13, <1>C

WalkStep(packet, s) == IF s.on THEN ReadLabel(packet, s) ELSE s

\* The passes of labelToStr.
Walks(F, packet, p) ==
  /\ F[0] = [at |-> p, name |-> <<>>, end |-> 0, next |-> 0, on |-> TRUE]
  /\ \A i \in 1..Len(packet) : F[i - 1] \in WalkState => F[i] = WalkStep(packet, F[i - 1])

\* The passes of labelToStr.
LEMMA WalkRuns ==
  ASSUME NEW packet \in Seq(Byte), NEW p \in Nat
  PROVE  \E F : Walks(F, packet, p) /\ LabelToStr(packet, p) = F[Len(packet)]
<1>1. PICK N \in Nat : N = Len(packet)
  BY LenProperties
<1> DEFINE passes == [i \in 1..N |-> i]
           step == [i \in 1..N |-> [s \in WalkState |-> WalkStep(packet, s)]]
           s0 == [at |-> p, name |-> <<>>, end |-> 0, next |-> 0, on |-> TRUE]
<1>2. Len(passes) = N
  OBVIOUS
<1>3. LabelToStr(packet, p) = Loop(step, s0, passes)
  BY <1>1 DEF LabelToStr, WalkStep
<1>4. PICK F : /\ F[0] = s0
               /\ \A n \in 1..N : F[n] = step[passes[n]][F[n - 1]]
               /\ Loop(step, s0, passes) = F[N]
  <2>1. \E F : /\ F[0] = s0
               /\ \A n \in 1..Len(passes) : F[n] = step[passes[n]][F[n - 1]]
               /\ Loop(step, s0, passes) = F[Len(passes)]
    <3>1. Len(passes) \in Nat
      BY <1>2
    <3> HIDE DEF passes, step, s0
    <3> QED BY <3>1, LoopRuns
  <2> HIDE DEF passes, step, s0
  <2> QED BY <1>2, <2>1, Zenon
<1>5. ASSUME NEW n \in 1..N, F[n - 1] \in WalkState PROVE F[n] = WalkStep(packet, F[n - 1])
  <2>1. F[n] = step[passes[n]][F[n - 1]] /\ passes[n] = n
    BY <1>4
  <2>2. step[n][F[n - 1]] = WalkStep(packet, F[n - 1])
    BY <1>5
  <2> HIDE DEF passes, step
  <2> QED BY <2>1, <2>2
<1>6. Walks(F, packet, p)
  BY <1>1, <1>4, <1>5 DEF Walks
<1> QED BY <1>1, <1>3, <1>4, <1>6

\* What the walk has read of the name h after n labels of it, end being the place after the
\* pointer that led to it.
Reads(s, A, h, n, end) ==
  /\ s \in WalkState /\ s.at = A[n] /\ s.name = HostText(FrontOf(h, n)) /\ s.end = end
  /\ s.on <=> n # Len(h)
  /\ n = Len(h) => s.next = IF end = 0 THEN A[n] + 1 ELSE end

\* One pass of labelToStr reads one label of the name.
LEMMA LabelIsRead ==
  ASSUME NEW packet \in Seq(Byte), NEW A, NEW h \in Seq(DnsLabel), NEW n \in 1..Len(h),
         Laid(A, packet, h, n), NEW s, NEW end \in Nat, Reads(s, A, h, n - 1, end)
  PROVE  Reads(WalkStep(packet, s), A, h, n, end)
<1>1. /\ h[n] \in DnsLabel /\ FrontOf(h, n) = Append(FrontOf(h, n - 1), h[n])
      /\ FrontOf(h, n - 1) \in Seq(DnsLabel) /\ FrontOf(h, n) \in Seq(DnsLabel)
  <2>1. n \in 0..Len(h)
    BY LenProperties
  <2> QED BY <2>1, FrontMore
<1>2. PICK a \in Nat, b \in Nat, k \in 1..63, l \in DnsLabel :
        /\ a = A[n - 1] /\ b = A[n] /\ l = h[n] /\ k = Len(l) /\ b = a + 1 + k /\ b < Len(packet)
        /\ packet[a + 1] = k /\ SubSeq(packet, a + 2, b) = l
        /\ IF n = Len(h) THEN packet[b + 1] = 0 ELSE packet[b + 1] \in 1..63
  <2>1. Len(h[n]) \in 1..63
    BY <1>1, LabelBytesAre
  <2> QED BY <1>1, <2>1 DEF Laid
<1>3. s \in WalkState /\ s.at = a /\ s.name = HostText(FrontOf(h, n - 1)) /\ s.end = end /\ s.on
  <2>1. n - 1 # Len(h)
    BY LenProperties
  <2> QED BY <1>2, <2>1 DEF Reads
<1>4. PICK name \in Seq(Byte) : name = Dotted(s.name, l) /\ name = HostText(FrontOf(h, n))
  <2>1. HostText(Append(FrontOf(h, n - 1), h[n])) = Dotted(HostText(FrontOf(h, n - 1)), h[n])
    BY <1>1, HostTextMore
  <2>2. HostText(FrontOf(h, n)) \in Seq(Byte)
    BY <1>1, HostTextMore
  <2> QED BY <1>1, <1>2, <1>3, <2>1, <2>2
<1>5. PICK next \in Nat, on \in BOOLEAN :
        /\ next = IF packet[b + 1] = 0 THEN (IF end = 0 THEN b + 1 ELSE end) ELSE 0
        /\ on = (packet[b + 1] # 0)
  <2>1. (IF packet[b + 1] = 0 THEN (IF end = 0 THEN b + 1 ELSE end) ELSE 0) \in Nat
    OBVIOUS
  <2>2. (packet[b + 1] # 0) \in BOOLEAN
    OBVIOUS
  <2> QED BY <2>1, <2>2
<1>6. PICK r : r = [at |-> b, name |-> name, end |-> end, next |-> next, on |-> on]
  OBVIOUS
<1>7. WalkStep(packet, s) = r
  <2>1. k < 64 /\ s.at + 1 + k = b /\ s.at + 2 = a + 2
    <3>1. k < 64
      OBVIOUS
    <3>2. b = a + 1 + k /\ s.at = a
      BY <1>2, <1>3, Zenon
    <3> QED BY <3>1, <3>2
  <2>2. packet[s.at + 1] = k
    BY <1>2, <1>3
  <2>3. ReadLabel(packet, s) =
          [at |-> b, end |-> s.end, name |-> Dotted(s.name, SubSeq(packet, a + 2, b)),
           next |-> IF packet[b + 1] = 0 THEN (IF s.end = 0 THEN b + 1 ELSE s.end) ELSE 0,
           on |-> packet[b + 1] # 0]
    <3>1. packet[s.at + 1] < 64 /\ s.at + 1 + packet[s.at + 1] = b /\ s.at + 2 = a + 2
      BY <2>1, <2>2
    <3>2. ReadLabel(packet, s) =
            [at |-> b, end |-> s.end, name |-> Dotted(s.name, SubSeq(packet, a + 2, b)),
             next |-> IF b < Len(packet) /\ packet[b + 1] = 0
                      THEN (IF s.end = 0 THEN b + 1 ELSE s.end) ELSE 0,
             on |-> b < Len(packet) /\ packet[b + 1] # 0]
      BY ONLY <3>1, SMTT(30) DEF ReadLabel
    <3>3. b < Len(packet)
      BY <1>2
    <3> QED BY ONLY <3>2, <3>3, SMTT(30)
  <2> QED BY <1>2, <1>3, <1>4, <1>5, <1>6, <2>3 DEF WalkStep
<1>8. r \in WalkState /\ r.at = b /\ r.name = name /\ r.end = end /\ r.next = next /\ r.on = on
  BY <1>6 DEF WalkState
<1>9. (on <=> n # Len(h)) /\ (n = Len(h) => next = IF end = 0 THEN b + 1 ELSE end)
  <2>1. CASE n = Len(h)
    BY <1>2, <1>5, <2>1
  <2>2. CASE n # Len(h)
    <3>1. packet[b + 1] # 0
      <4>1. PICK c \in 1..63 : c = packet[b + 1]
        BY <1>2, <2>2
      <4>2. c # 0
        OBVIOUS
      <4> QED BY <4>1, <4>2, Zenon
    <3> QED BY <1>5, <2>2, <3>1
  <2> QED BY <2>1, <2>2
<1> QED BY <1>2, <1>4, <1>7, <1>8, <1>9, Zenon DEF Reads

\* All the labels of a name lie where the walk finds them.
AllLaid(A, packet, h) == \A n \in 1..Len(h) : Laid(A, packet, h, n)

\* The walk has read the whole name and goes on at next.
HasRead(s, h, next) == s.name = HostText(h) /\ s.next = next

\* From where a name begins, the walk reads it whole and ends.
LEMMA WalkAlong ==
  ASSUME NEW packet \in Seq(Byte), NEW h \in Seq(DnsLabel), h # <<>>,
         NEW A, AllLaid(A, packet, h), NEW F, NEW p, Walks(F, packet, p),
         NEW k \in Nat, NEW s0, s0 = F[k], NEW last \in Nat, last = k + Len(h), last <= Len(packet),
         NEW end \in Nat, Reads(s0, A, h, 0, end)
  PROVE  HasRead(F[Len(packet)], h, IF end = 0 THEN A[Len(h)] + 1 ELSE end)
<1>1. PICK M \in Nat \ {0}, N \in Nat : M = Len(h) /\ N = Len(packet)
  <2>1. Len(h) \in Nat /\ Len(h) # 0
    BY LenProperties, EmptySeq
  <2> QED BY <2>1, LenProperties
<1>2. \A i \in 1..N : F[i - 1] \in WalkState => F[i] = WalkStep(packet, F[i - 1])
  BY <1>1 DEF Walks
<1> DEFINE T == {n \in 0..M : Reads(F[k + n], A, h, n, end)}
<1>3. \A n \in 0..M : n \in T
  <2>1. 0 \in T
    <3>1. k + 0 = k /\ 0 \in 0..M
      OBVIOUS
    <3> QED BY <3>1
  <2>2. ASSUME NEW n \in 1..M, n - 1 \in T PROVE n \in T
    <3>1. PICK i \in 1..N : i = k + n /\ i - 1 = k + (n - 1)
      BY <1>1
    <3>2. Reads(F[i - 1], A, h, n - 1, end) /\ F[i - 1] \in WalkState
      BY <2>2, <3>1 DEF Reads
    <3>3. F[i] = WalkStep(packet, F[i - 1])
      BY <1>2, <3>2
    <3>4. n \in 1..Len(h) /\ Laid(A, packet, h, n)
      BY <1>1 DEF AllLaid
    <3>5. Reads(F[i], A, h, n, end)
      BY <3>2, <3>3, <3>4, LabelIsRead
    <3> QED BY <3>1, <3>5
  <2> HIDE DEF T
  <2> QED BY <2>1, <2>2, AllPasses
<1>4. PICK m \in 0..N : \E s : m = k + M /\ s = F[m] /\ Reads(s, A, h, M, end)
  <2>1. M \in 0..M
    OBVIOUS
  <2>2. Reads(F[k + M], A, h, M, end)
    BY <1>3, <2>1
  <2> QED BY <1>1, <2>2
<1>5. PICK s : m = k + M /\ s = F[m] /\ Reads(s, A, h, M, end)
  BY <1>4
<1>6. s \in WalkState /\ ~s.on
  BY <1>1, <1>5 DEF Reads
<1> DEFINE U == {j \in 0..N - m : F[m + j] = s}
<1>7. \A j \in 0..N - m : j \in U
  <2>1. 0 \in U
    BY <1>5
  <2>2. ASSUME NEW j \in 1..N - m, j - 1 \in U PROVE j \in U
    <3>1. PICK i \in 1..N : i = m + j /\ i - 1 = m + (j - 1)
      OBVIOUS
    <3>2. F[i - 1] = s
      BY <2>2, <3>1
    <3>3. F[i] = WalkStep(packet, s)
      BY <1>2, <1>6, <3>2
    <3>4. F[i] = s
      BY <1>6, <3>3 DEF WalkStep
    <3> QED BY <3>1, <3>4
  <2>3. N - m \in Nat
    OBVIOUS
  <2> HIDE DEF U
  <2> QED BY <2>1, <2>2, <2>3, AllPasses
<1>8. F[N] = s
  <2>1. PICK j \in 0..N - m : m + j = N
    <3>1. N - m \in 0..N - m /\ m + (N - m) = N
      OBVIOUS
    <3> QED BY <3>1
  <2> QED BY <1>7, <2>1
<1>9. FrontOf(h, M) = h
  BY <1>1, FrontMore
<1> QED BY <1>1, <1>5, <1>8, <1>9 DEF Reads, HasRead

\* At the start of a name nothing of it is read.
LEMMA WalkStarts ==
  ASSUME NEW at \in Nat, NEW end \in Nat, NEW h \in Seq(DnsLabel), h # <<>>, NEW A, A[0] = at
  PROVE  Reads([at |-> at, name |-> <<>>, end |-> end, next |-> 0, on |-> TRUE], A, h, 0, end)
<1>1. PICK s : s = [at |-> at, name |-> <<>>, end |-> end, next |-> 0, on |-> TRUE]
  OBVIOUS
<1>2. <<>> \in Seq(Byte) /\ HostText(FrontOf(h, 0)) = <<>> /\ Len(h) # 0
  <2>1. Len(h) # 0
    BY EmptySeq
  <2> QED BY <2>1, FrontMore, HostTextMore
<1>3. s \in WalkState /\ s.at = at /\ s.name = <<>> /\ s.end = end /\ s.on
  BY <1>1, <1>2 DEF WalkState
<1> QED BY <1>1, <1>2, <1>3 DEF Reads

\* labelToStr reads the name that is written as labels, and goes on behind it.
LEMMA NameRead ==
  ASSUME NEW packet \in Seq(Byte), NEW p \in Nat, NEW h \in Seq(DnsLabel), h # <<>>,
         Holds(packet, p, NameBytes(h))
  PROVE  /\ LabelToStr(packet, p).name = HostText(h)
         /\ LabelToStr(packet, p).next = p + Len(NameBytes(h))
<1>1. PICK F : Walks(F, packet, p) /\ LabelToStr(packet, p) = F[Len(packet)]
  BY WalkRuns
<1>2. packet \in Seq(Nat) /\ Len(packet) \in Nat /\ Len(h) \in Nat
  BY LabelKinds, LenProperties
<1>3. /\ p + Len(h) < Len(packet) /\ Len(NameBytes(h)) = Len(Labels(h)) + 1
      /\ \E A : /\ A[0] = p /\ A[Len(h)] = p + Len(Labels(h))
                /\ \A n \in 1..Len(h) : Laid(A, packet, h, n)
  BY <1>2, NameLaid
<1>4. PICK A : /\ A[0] = p /\ A[Len(h)] = p + Len(Labels(h))
               /\ \A n \in 1..Len(h) : Laid(A, packet, h, n)
  BY <1>3
<1>5. PICK k \in Nat, last \in Nat : k = 0 /\ last = Len(h)
  BY <1>2
<1>6. last = k + Len(h) /\ last <= Len(packet)
  BY <1>2, <1>3, <1>5
<1>7. /\ F[Len(packet)].name = HostText(h)
      /\ F[Len(packet)].next = A[Len(h)] + 1
  <2>1. PICK s0 : s0 = F[k] /\ Reads(s0, A, h, 0, k)
    <3>1. F[k] = [at |-> p, name |-> <<>>, end |-> k, next |-> 0, on |-> TRUE]
      BY <1>1, <1>5 DEF Walks
    <3>2. Reads([at |-> p, name |-> <<>>, end |-> k, next |-> 0, on |-> TRUE], A, h, 0, k)
      BY <1>4, WalkStarts
    <3> QED BY <3>1, <3>2
  <2>2. AllLaid(A, packet, h) /\ Walks(F, packet, p)
    BY <1>1, <1>4 DEF AllLaid
  <2>3. HasRead(F[Len(packet)], h, IF k = 0 THEN A[Len(h)] + 1 ELSE k)
    BY <1>6, <2>1, <2>2, WalkAlong
  <2> QED BY <1>5, <2>3 DEF HasRead
<1>8. Labels(h) \in Seq(Byte)
  BY LabelsMore
<1>9. PICK l \in Nat : l = Len(Labels(h))
  BY <1>8, LenProperties
<1>10. p + l + 1 = p + (l + 1)
  OBVIOUS
<1> QED BY <1>1, <1>3, <1>4, <1>7, <1>9, <1>10

\* A pointer makes labelToStr go to the first name of the packet.
LEMMA PointerIsRead ==
  ASSUME NEW packet \in Seq(Byte), NEW p \in Nat, Holds(packet, p, <<192, HeaderSize>>),
         HeaderSize < Len(packet), packet[HeaderSize + 1] # 0
  PROVE  WalkStep(packet, [at |-> p, name |-> <<>>, end |-> 0, next |-> 0, on |-> TRUE])
           = [at |-> HeaderSize, name |-> <<>>, end |-> p + 2, next |-> 0, on |-> TRUE]
<1>1. PICK s : s = [at |-> p, name |-> <<>>, end |-> 0, next |-> 0, on |-> TRUE]
  OBVIOUS
<1>2. s.at = p /\ s.name = <<>> /\ s.end = 0 /\ s.on
  BY <1>1
<1>3. packet[p + 1] = 192 /\ packet[p + 2] = 12 /\ HeaderSize = 12
  <2>1. PICK w : w = <<192, 12>> /\ Len(w) = 2 /\ w[1] = 192 /\ w[2] = 12
    <3>1. Len(<<192, 12>>) = 2 /\ <<192, 12>>[1] = 192 /\ <<192, 12>>[2] = 12
      OBVIOUS
    <3> QED BY <3>1
  <2>2. Holds(packet, p, w) /\ 1 \in 1..2 /\ 2 \in 1..2
    BY <2>1 DEF HeaderSize
  <2> QED BY <2>1, <2>2 DEF Holds, HeaderSize
<1>4. Value16(packet, p) - 192 * 256 = 12 /\ ~(packet[p + 1] < 64)
  <2>1. Value16(packet, p) = 192 * 256 + 12
    BY <1>3 DEF Value16
  <2> QED BY <1>3, <2>1
<1>5. ReadLabel(packet, s) = [at |-> 12, name |-> <<>>, end |-> p + 2, next |-> 0, on |-> TRUE]
  <2>1. 12 < Len(packet) /\ packet[12 + 1] # 0
    BY <1>3
  <2>2. ~(packet[s.at + 1] < 64) /\ Value16(packet, s.at) - 192 * 256 = 12
    BY <1>2, <1>4
  <2>3. ReadLabel(packet, s) =
          [at |-> 12, end |-> s.at + 2, name |-> s.name,
           next |-> IF 12 < Len(packet) /\ packet[12 + 1] = 0
                    THEN (IF s.at + 2 = 0 THEN 12 + 1 ELSE s.at + 2) ELSE 0,
           on |-> 12 < Len(packet) /\ packet[12 + 1] # 0]
    BY <2>2 DEF ReadLabel
  <2> QED BY <1>2, <2>1, <2>3
<1> QED BY <1>1, <1>2, <1>3, <1>5 DEF WalkStep

\* It reads a pointer to the first name of the packet as that name, and goes on behind the
\* pointer.
LEMMA PointerRead ==
  ASSUME NEW packet \in Seq(Byte), NEW p \in Nat, NEW h \in Seq(DnsLabel), h # <<>>,
         Holds(packet, p, <<192, HeaderSize>>), Holds(packet, HeaderSize, NameBytes(h))
  PROVE  LabelToStr(packet, p).name = HostText(h) /\ LabelToStr(packet, p).next = p + 2
<1>1. PICK F : Walks(F, packet, p) /\ LabelToStr(packet, p) = F[Len(packet)]
  BY WalkRuns
<1>2. packet \in Seq(Nat) /\ Len(packet) \in Nat /\ Len(h) \in Nat \ {0} /\ HeaderSize \in Nat
  <2>1. Len(h) \in Nat /\ Len(h) # 0
    BY LenProperties, EmptySeq
  <2> QED BY <2>1, LabelKinds, LenProperties DEF HeaderSize
<1>3. PICK A : /\ A[0] = HeaderSize
               /\ \A n \in 1..Len(h) : Laid(A, packet, h, n)
  BY <1>2, NameLaid
<1>4. HeaderSize + Len(h) < Len(packet)
  BY <1>2, NameLaid
<1>5. HeaderSize < Len(packet) /\ 1 + Len(h) <= Len(packet) /\ 1 \in 1..Len(packet) /\ 1 \in 1..Len(h)
  BY <1>2, <1>4 DEF HeaderSize
<1>6. packet[HeaderSize + 1] # 0
  <2>1. Laid(A, packet, h, 1) /\ h[1] \in DnsLabel
    BY <1>3, <1>5, ElementOfSeq
  <2>2. packet[HeaderSize + 1] = Len(h[1])
    <3>1. packet[A[1 - 1] + 1] = Len(h[1])
      BY <2>1 DEF Laid
    <3> QED BY <1>3, <3>1
  <2>3. PICK k \in 1..63 : k = Len(h[1])
    BY <2>1, LabelBytesAre
  <2>4. k # 0
    OBVIOUS
  <2> QED BY <2>2, <2>3, <2>4, Zenon
<1>7. F[1] = [at |-> HeaderSize, name |-> <<>>, end |-> p + 2, next |-> 0, on |-> TRUE]
  <2>1. F[0] = [at |-> p, name |-> <<>>, end |-> 0, next |-> 0, on |-> TRUE]
    BY <1>1 DEF Walks
  <2>2. F[0] \in WalkState
    <3>1. <<>> \in Seq(Byte)
      OBVIOUS
    <3> QED BY <2>1, <3>1 DEF WalkState
  <2>3. F[1] = WalkStep(packet, F[0])
    <3>1. F[1 - 1] \in WalkState => F[1] = WalkStep(packet, F[1 - 1])
      BY <1>1, <1>5, Zenon DEF Walks
    <3> QED BY <2>2, <3>1
  <2> QED BY <1>5, <1>6, <2>1, <2>3, PointerIsRead
<1>8. PICK end \in Nat : end = p + 2 /\ end # 0
  OBVIOUS
<1>9. Reads(F[1], A, h, 0, end)
  <2>1. Reads([at |-> HeaderSize, name |-> <<>>, end |-> end, next |-> 0, on |-> TRUE], A, h, 0, end)
    BY <1>2, <1>3, WalkStarts
  <2> QED BY <1>7, <1>8, <2>1
<1>10. HasRead(F[Len(packet)], h, IF end = 0 THEN A[Len(h)] + 1 ELSE end)
  <2>1. PICK k \in Nat, last \in Nat : k = 1 /\ last = k + Len(h)
    BY <1>2
  <2>2. last <= Len(packet)
    BY <1>5, <2>1
  <2>3. PICK s0 : s0 = F[k] /\ Reads(s0, A, h, 0, end)
    BY <1>9, <2>1
  <2>4. AllLaid(A, packet, h) /\ Walks(F, packet, p)
    BY <1>1, <1>3 DEF AllLaid
  <2> QED BY <2>1, <2>2, <2>3, <2>4, WalkAlong
<1> QED BY <1>1, <1>8, <1>10 DEF HasRead

\* A number of 16 bits is its two bytes.
LEMMA TwoBytes ==
  \A t \in Type16 : t \div 256 \in Byte /\ t % 256 \in Byte /\ (t \div 256) * 256 + (t % 256) = t
<1>1. TAKE t \in Type16
<1>2. t \in Nat /\ t <= 256 * 256 - 1
  <2>1. MaxType16 \in Nat /\ MaxType16 <= 256 * 256 - 1
    BY DEF MaxType16
  <2> QED BY <2>1 DEF Type16
<1>3. t \div 256 \in 0..255 /\ t % 256 \in 0..255 /\ (t \div 256) * 256 + (t % 256) = t
  <2>1. t \div 256 \in 0..255
    BY <1>2
  <2>2. t % 256 \in 0..255
    BY <1>2
  <2>3. (t \div 256) * 256 + (t % 256) = t
    BY <1>2
  <2> QED BY <2>1, <2>2, <2>3
<1> QED BY <1>3 DEF Byte

\* The parts of a question.
QuestionName(host, isPointer) == IF isPointer THEN <<192, HeaderSize>> ELSE NameBytes(host)
QuestionFooter(type) == <<type \div 256, type % 256, 0, QCLASS_IN>>

\* A question is a name, or a pointer to one, and a footer.
LEMMA QuestionParts ==
  ASSUME NEW h \in Seq(DnsLabel), NEW t \in Type16, NEW b \in BOOLEAN
  PROVE  /\ NameBytes(h) \in Seq(Byte) /\ Len(NameBytes(h)) \in Nat \ {0}
         /\ QuestionName(h, b) \in Seq(Byte) /\ QuestionFooter(t) \in Seq(Byte)
         /\ Question(h, t, b) = QuestionName(h, b) \o QuestionFooter(t)
         /\ Question(h, t, b) \in Seq(Byte)
         /\ Len(QuestionName(h, b)) \in Nat /\ Len(QuestionFooter(t)) = 4
         /\ Len(Question(h, t, b)) = Len(QuestionName(h, b)) + 4
         /\ QuestionFooter(t)[1] = t \div 256 /\ QuestionFooter(t)[2] = t % 256
<1>1. PICK hi \in Byte, lo \in Byte : hi = t \div 256 /\ lo = t % 256
  BY TwoBytes
<1>2. PICK f \in Seq(Byte) : f = QuestionFooter(t) /\ Len(f) = 4 /\ f[1] = hi /\ f[2] = lo
  <2>1. 0 \in Byte /\ 1 \in Byte
    BY DEF Byte
  <2>2. <<hi, lo, 0, 1>> \in Seq(Byte)
    BY <2>1
  <2>3. Len(<<hi, lo, 0, 1>>) = 4 /\ <<hi, lo, 0, 1>>[1] = hi /\ <<hi, lo, 0, 1>>[2] = lo
    OBVIOUS
  <2> QED BY <1>1, <2>2, <2>3 DEF QuestionFooter, QCLASS_IN
<1>3. PICK z \in Seq(Byte) : z = NameBytes(h) /\ Len(z) \in Nat \ {0}
  <2>1. Labels(h) \in Seq(Byte)
    BY LabelsMore
  <2>2. 0 \in Byte
    BY DEF Byte
  <2>3. <<0>> \in Seq(Byte) /\ Len(<<0>>) = 1
    BY <2>2
  <2>4. /\ Labels(h) \o <<0>> \in Seq(Byte) /\ Len(Labels(h)) \in Nat
        /\ Len(Labels(h) \o <<0>>) = Len(Labels(h)) + 1
    BY <2>1, <2>3, Joined
  <2>5. Len(Labels(h)) + 1 \in Nat \ {0}
    BY <2>4
  <2> QED BY <2>4, <2>5 DEF NameBytes
<1>4. PICK q \in Seq(Byte) : q = QuestionName(h, b) /\ Len(q) \in Nat
  <2>1. 192 \in Byte /\ 12 \in Byte
    BY DEF Byte
  <2>2. <<192, 12>> \in Seq(Byte)
    BY <2>1
  <2>3. QuestionName(h, b) \in Seq(Byte)
    BY <1>3, <2>2 DEF QuestionName, HeaderSize
  <2> QED BY <2>3, LenProperties
<1>5. q \o f \in Seq(Byte) /\ Len(q \o f) = Len(q) + Len(f)
  BY Joined
<1>6. Question(h, t, b) = q \o f
  BY <1>2, <1>4 DEF Question, QuestionName, QuestionFooter
<1> QED BY <1>1, <1>2, <1>3, <1>4, <1>5, <1>6, Zenon

\* The questions of a query, one more.
LEMMA QuestionsMore ==
  ASSUME NEW h \in Seq(DnsLabel), NEW ptr \in BOOLEAN
  PROVE  /\ Questions(h, <<>>, ptr) = <<>>
         /\ \A ts \in Seq(Type16) : Questions(h, ts, ptr) \in Seq(Byte)
         /\ \A ts \in Seq(Type16), t \in Type16 :
              Questions(h, Append(ts, t), ptr) = Questions(h, ts, ptr) \o Question(h, t, ptr /\ ts # <<>>)
<1> DEFINE Q(ts) == Questions(h, ts, ptr)
           P == {ts \in Seq(Type16) : Q(ts) \in Seq(Byte) /\ (Q(ts) = <<>> <=> ts = <<>>)}
<1>1. Q(<<>>) = <<>>
  BY LoopEmpty DEF Questions
<1>2. ASSUME NEW ts \in Seq(Type16), NEW t \in Type16, ts \in P
      PROVE  /\ Q(Append(ts, t)) = Q(ts) \o Question(h, t, ptr /\ ts # <<>>)
             /\ Append(ts, t) \in P
  <2>1. Q(Append(ts, t)) = QuestionsStep(h, ptr)[t][Q(ts)]
    BY LoopMore DEF Questions
  <2>2. Q(ts) \in Seq(Byte) /\ Q(ts) \in Seq(Nat) /\ (Q(ts) = <<>> <=> ts = <<>>)
    BY <1>2, LabelKinds
  <2>3. PICK b \in BOOLEAN : b = (ptr /\ ts # <<>>) /\ b = (ptr /\ Q(ts) # <<>>)
    BY <2>2
  <2>4. PICK q \in Seq(Byte) : q = Question(h, t, b) /\ Len(q) # 0
    <3>1. Question(h, t, b) \in Seq(Byte) /\ Len(QuestionName(h, b)) \in Nat
          /\ Len(Question(h, t, b)) = Len(QuestionName(h, b)) + 4
      BY QuestionParts
    <3>2. Len(Question(h, t, b)) # 0
      BY <3>1
    <3> QED BY <3>1, <3>2
  <2>5. QuestionsStep(h, ptr)[t][Q(ts)] = Q(ts) \o q
    <3> HIDE DEF Q
    <3>1. QuestionsStep(h, ptr)[t][Q(ts)] = Q(ts) \o Question(h, t, ptr /\ Q(ts) # <<>>)
      <4>1. PICK u \in Seq(Nat) : u = Q(ts)
        BY <2>2
      <4>3. QuestionsStep(h, ptr)[t] =
              [s \in Seq(Nat) |-> s \o Question(h, t, ptr /\ s # <<>>)]
        BY DEF QuestionsStep
      <4>4. QuestionsStep(h, ptr)[t][u] = u \o Question(h, t, ptr /\ u # <<>>)
        BY <4>3
      <4> QED BY <4>1, <4>4
    <3> QED BY <2>3, <2>4, <3>1
  <2>6. Q(ts) \o q \in Seq(Byte) /\ Q(ts) \o q # <<>>
    <3>1. q # <<>>
      BY <2>4
    <3> QED BY <2>2, <3>1, ConcatProperties, ConcatEqualIffEmpty
  <2>7. Append(ts, t) \in Seq(Type16) /\ Append(ts, t) # <<>>
    BY AppendProperties
  <2>8. Q(Append(ts, t)) = Q(ts) \o q
    <3> HIDE DEF Q
    <3> QED BY <2>1, <2>5
  <2>9. Append(ts, t) \in P
    BY <2>6, <2>7, <2>8
  <2> QED BY <2>3, <2>4, <2>8, <2>9
<1>3. \A ts \in Seq(Type16) : ts \in P
  <2>1. <<>> \in P
    <3>1. <<>> \in Seq(Type16) /\ <<>> \in Seq(Byte)
      OBVIOUS
    <3> QED BY <1>1, <3>1
  <2>2. \A ts \in Seq(Type16), t \in Type16 : ts \in P => Append(ts, t) \in P
    BY <1>2
  <2> HIDE DEF P
  <2> QED BY <2>1, <2>2, BySequence
<1> QED BY <1>1, <1>2, <1>3

AnsweredTypes == {QTYPE_A, QTYPE_NS, QTYPE_URI}

\* A record is empty if and only if the server does not answer questions of its type.
LEMMA RecordParts ==
  ASSUME NEW h \in Seq(DnsLabel), h # <<>>, NEW t \in Type16
  PROVE  /\ RecordFor(t, HostText(h)) = Record(h, t)
         /\ Record(h, t) \in Seq(Octet)
         /\ Record(h, t) = <<>> <=> t \notin AnsweredTypes
<1>1. PICK z \in Seq(Byte) : z = NameBytes(h) /\ z = StrToLabel(HostText(h)) /\ z # <<>>
  <2>1. NameBytes(h) \in Seq(Byte) /\ Len(NameBytes(h)) \in Nat \ {0}
    <3>1. PICK b \in BOOLEAN : TRUE
      OBVIOUS
    <3> QED BY QuestionParts
  <2>2. NameBytes(h) # <<>>
    BY <2>1
  <2> QED BY <2>1, <2>2, NameWritten
<1>2. Byte \subseteq Octet /\ Junk \in Octet
  BY DEF Octet
<1>3. z \in Seq(Octet) /\ MyAddr \in Seq(Octet)
  <2>1. Seq(Byte) \subseteq Seq(Octet)
    BY <1>2, SeqMonotonic
  <2> QED BY <2>1, DnsAssumption
<1>4. PICK r1, r2, r3 :
        /\ r1 = <<0, 1, 0, 1, 0, 0, 0, 0, 0, 4>> /\ r1 \in Seq(Octet)
        /\ r2 = <<0, 2, 0, 1, 0, 0, Junk, Junk, 0, 4>> /\ r2 \in Seq(Octet)
        /\ r3 = <<1, 0, 1, 0, 0, 0, Junk, Junk, 0, 20>> /\ r3 \in Seq(Octet)
  <2>1. 0 \in Octet /\ 1 \in Octet /\ 2 \in Octet /\ 4 \in Octet /\ 20 \in Octet
    BY DEF Octet, Byte
  <2>2. <<0, 1, 0, 1, 0, 0, 0, 0, 0, 4>> \in Seq(Octet)
    BY <2>1
  <2>3. <<0, 2, 0, 1, 0, 0, Junk, Junk, 0, 4>> \in Seq(Octet)
    BY <1>2, <2>1
  <2>4. <<1, 0, 1, 0, 0, 0, Junk, Junk, 0, 20>> \in Seq(Octet)
    BY <1>2, <2>1
  <2> QED BY <2>2, <2>3, <2>4
<1>5. UriHdr \in Seq(Octet) /\ Uri \in Seq(Octet) /\ NsName \in Seq(Octet)
  <2>1. 0 \in Octet /\ 10 \in Octet /\ 1 \in Octet /\ 2 \in Octet /\ 110 \in Octet /\ 115 \in Octet /\ 120 \in Octet
    BY DEF Octet, Byte
  <2>2. <<0, 10, 0, 1>> \in Seq(Octet)
    BY <2>1
  <2>3. <<2, 110, 115, 0>> \in Seq(Octet)
    BY <2>1
  <2>4. [k \in 1..16 |-> 120] \in Seq(Octet)
    BY <2>1
  <2> QED BY <2>2, <2>3, <2>4 DEF UriHdr, Uri, NsName
<1>6. /\ Resource(QTYPE_A, QCLASS_IN, WholeTtl, 4) = r1
      /\ Resource(QTYPE_NS, QCLASS_IN, HalfTtl, 4) = r2
      /\ Resource(QTYPE_URI, QCLASS_URI, HalfTtl, 20) = r3
  <2>1. /\ 1 \div 256 = 0 /\ 1 % 256 = 1 /\ 2 \div 256 = 0 /\ 2 % 256 = 2 /\ 4 \div 256 = 0 /\ 4 % 256 = 4
        /\ 20 \div 256 = 0 /\ 20 % 256 = 20 /\ 256 \div 256 = 1 /\ 256 % 256 = 0
    OBVIOUS
  <2>2. /\ WholeTtl[1] = 0 /\ WholeTtl[2] = 0 /\ WholeTtl[3] = 0 /\ WholeTtl[4] = 0
    BY DEF WholeTtl
  <2>3. /\ HalfTtl[1] = 0 /\ HalfTtl[2] = 0 /\ HalfTtl[3] = Junk /\ HalfTtl[4] = Junk
    BY DEF HalfTtl
  <2> QED BY <1>4, <2>1, <2>2, <2>3 DEF Resource, QTYPE_A, QTYPE_NS, QTYPE_URI, QCLASS_IN, QCLASS_URI
<1>7. ASSUME NEW r \in Seq(Octet), NEW d \in Seq(Octet)
      PROVE  z \o r \o d \in Seq(Octet) /\ z \o r \o d # <<>>
  <2>1. z \o r \in Seq(Octet) /\ z \o r # <<>>
    BY <1>1, <1>3, ConcatProperties, ConcatEqualIffEmpty
  <2> QED BY <2>1, ConcatProperties, ConcatEqualIffEmpty
<1>13. QTYPE_A # QTYPE_NS /\ QTYPE_A # QTYPE_URI /\ QTYPE_NS # QTYPE_URI
  BY DEF QTYPE_A, QTYPE_NS, QTYPE_URI
<1>8. CASE t = QTYPE_A
  <2>1. RecordFor(t, HostText(h)) = z \o r1 \o MyAddr /\ Record(h, t) = z \o r1 \o MyAddr
    <3>1. RecordFor(t, HostText(h))
            = StrToLabel(HostText(h)) \o Resource(QTYPE_A, QCLASS_IN, WholeTtl, 4) \o MyAddr
      BY <1>8, <1>13 DEF RecordFor
    <3>2. Record(h, t) = NameBytes(h) \o <<0, 1, 0, 1, 0, 0, 0, 0, 0, 4>> \o MyAddr
      BY <1>8, <1>13 DEF Record
    <3> QED BY <1>1, <1>4, <1>6, <3>1, <3>2, Zenon
  <2> QED BY <1>3, <1>4, <1>7, <1>8, <2>1 DEF AnsweredTypes
<1>9. CASE t = QTYPE_NS
  <2>1. RecordFor(t, HostText(h)) = z \o r2 \o NsName /\ Record(h, t) = z \o r2 \o NsName
    <3>1. RecordFor(t, HostText(h))
            = StrToLabel(HostText(h)) \o Resource(QTYPE_NS, QCLASS_IN, HalfTtl, 4) \o NsName
      BY <1>9, <1>13 DEF RecordFor
    <3>2. Record(h, t) = NameBytes(h) \o <<0, 2, 0, 1, 0, 0, Junk, Junk, 0, 4>> \o NsName
      BY <1>9, <1>13 DEF Record
    <3> QED BY <1>1, <1>4, <1>6, <3>1, <3>2, Zenon
  <2> QED BY <1>4, <1>5, <1>7, <1>9, <2>1 DEF AnsweredTypes
<1>10. CASE t = QTYPE_URI
  <2>1. t # QTYPE_A /\ t # QTYPE_NS
    BY <1>10 DEF QTYPE_A, QTYPE_NS, QTYPE_URI
  <2>2. RecordFor(t, HostText(h)) = z \o r3 \o UriHdr \o Uri /\ Record(h, t) = z \o r3 \o UriHdr \o Uri
    BY <1>1, <1>4, <1>6, <1>10, <2>1 DEF RecordFor, Record, UriHdr
  <2>3. z \o r3 \o UriHdr \in Seq(Octet) /\ z \o r3 \o UriHdr # <<>>
    BY <1>4, <1>5, <1>7
  <2>4. z \o r3 \o UriHdr \o Uri \in Seq(Octet) /\ z \o r3 \o UriHdr \o Uri # <<>>
    BY <1>5, <2>3, ConcatProperties, ConcatEqualIffEmpty
  <2> QED BY <1>10, <2>2, <2>4 DEF AnsweredTypes
<1>11. CASE t \notin AnsweredTypes
  BY <1>11 DEF AnsweredTypes, RecordFor, Record
<1> QED BY <1>8, <1>9, <1>10, <1>11 DEF AnsweredTypes

\* The records of a reply, one more.
LEMMA RecordsMore ==
  ASSUME NEW h \in Seq(DnsLabel), h # <<>>
  PROVE  /\ Records(h, <<>>) = <<>>
         /\ \A ts \in Seq(Type16) : Records(h, ts) \in Seq(Octet)
         /\ \A ts \in Seq(Type16), t \in Type16 : Records(h, Append(ts, t)) = Records(h, ts) \o Record(h, t)
<1> DEFINE step == [type \in Type16 |-> [s \in Seq(Nat) |-> s \o Record(h, type)]]
           P == {ts \in Seq(Type16) : Records(h, ts) \in Seq(Octet)}
<1>1. Records(h, <<>>) = <<>> /\ <<>> \in Seq(Octet)
  BY LoopEmpty DEF Records
<1>2. Seq(Octet) \subseteq Seq(Nat)
  <2>1. Octet \subseteq Nat
    BY DEF Octet, Byte, Junk
  <2> QED BY <2>1, SeqMonotonic
<1>3. ASSUME NEW ts \in Seq(Type16), NEW t \in Type16, Records(h, ts) \in Seq(Octet)
      PROVE  /\ Records(h, Append(ts, t)) = Records(h, ts) \o Record(h, t)
             /\ Records(h, Append(ts, t)) \in Seq(Octet)
  <2>1. Records(h, Append(ts, t)) = step[t][Records(h, ts)]
    BY LoopMore DEF Records
  <2>2. step[t][Records(h, ts)] = Records(h, ts) \o Record(h, t)
    BY <1>2, <1>3
  <2>3. Records(h, ts) \o Record(h, t) \in Seq(Octet)
    BY <1>3, RecordParts, ConcatProperties
  <2> QED BY <2>1, <2>2, <2>3
<1>4. \A ts \in Seq(Type16) : ts \in P
  <2>1. <<>> \in P
    <3>1. <<>> \in Seq(Type16)
      OBVIOUS
    <3> QED BY <1>1, <3>1
  <2>2. ASSUME NEW ts \in Seq(Type16), NEW t \in Type16, ts \in P PROVE Append(ts, t) \in P
    <3>1. Append(ts, t) \in Seq(Type16)
      BY AppendProperties
    <3> QED BY <1>3, <2>2, <3>1
  <2> HIDE DEF P
  <2> QED BY <2>1, <2>2, BySequence
<1> QED BY <1>1, <1>3, <1>4

KnownIn(ts) == {k \in DOMAIN ts : ts[k] \in AnsweredTypes}

\* How many questions are answered, one more.
LEMMA KnownMore ==
  ASSUME NEW ts \in Seq(Type16), NEW n \in 1..Len(ts)
  PROVE  /\ KnownIn(FrontOf(ts, 0)) = {} /\ Cardinality(KnownIn(FrontOf(ts, n - 1))) \in Nat
         /\ Cardinality(KnownIn(FrontOf(ts, n)))
              = Cardinality(KnownIn(FrontOf(ts, n - 1))) + IF ts[n] \in AnsweredTypes THEN 1 ELSE 0
<1>1. PICK N \in Nat : N = Len(ts)
  BY LenProperties
<1>2. ASSUME NEW m \in 0..N
      PROVE  KnownIn(FrontOf(ts, m)) = {k \in 1..m : ts[k] \in AnsweredTypes}
  <2>1. \A i \in 1..m : ts[i] \in Type16
    <3>1. \A i \in 1..m : i \in 1..N
      OBVIOUS
    <3> QED BY <1>1, <3>1, ElementOfSeq
  <2>2. PICK f : f = SubSeq(ts, 1, m)
    OBVIOUS
  <2>3. f \in Seq(Type16) /\ Len(f) = (IF 1 <= m THEN m - 1 + 1 ELSE 0)
        /\ \A i \in 1..m - 1 + 1 : f[i] = ts[1 + i - 1]
    BY <2>1, <2>2, SubSeqProperties
  <2>4. DOMAIN f = 1..m /\ \A i \in 1..m : f[i] = ts[i]
    <3>1. Len(f) = m /\ DOMAIN f = 1..Len(f)
      BY <2>3, LenProperties
    <3>2. \A i \in 1..m : i \in 1..m - 1 + 1 /\ 1 + i - 1 = i
      OBVIOUS
    <3> QED BY <2>3, <3>1, <3>2
  <2> QED BY <2>2, <2>4 DEF KnownIn, FrontOf
<1>3. PICK m \in 0..N : m = n - 1 /\ n = m + 1 /\ n \in 0..N
  BY <1>1
<1> DEFINE S == {k \in 1..m : ts[k] \in AnsweredTypes}
<1>4. KnownIn(FrontOf(ts, m)) = S /\ KnownIn(FrontOf(ts, n)) = {k \in 1..n : ts[k] \in AnsweredTypes}
  BY <1>2, <1>3
<1>5. IsFiniteSet(S) /\ Cardinality(S) \in Nat
  <2>1. IsFiniteSet(1..m)
    BY FS_Interval
  <2>2. IsFiniteSet(S)
    BY <2>1, FS_Subset
  <2> QED BY <2>2, FS_CardinalityType
<1>6. n \notin S
  BY <1>3
<1>7. {k \in 1..n : ts[k] \in AnsweredTypes} = IF ts[n] \in AnsweredTypes THEN S \cup {n} ELSE S
  BY <1>3
<1>8. Cardinality(S \cup {n}) = Cardinality(S) + 1
  <2> HIDE DEF S
  <2> QED BY <1>5, <1>6, FS_AddElement
<1>9. KnownIn(FrontOf(ts, 0)) = {}
  BY <1>2
<1> HIDE DEF S
<1>10. CASE ts[n] \in AnsweredTypes
  <2>1. Cardinality(KnownIn(FrontOf(ts, n))) = Cardinality(KnownIn(FrontOf(ts, m))) + 1
    BY <1>4, <1>7, <1>8, <1>10
  <2> QED BY <1>3, <1>4, <1>5, <1>9, <1>10, <2>1
<1>11. CASE ts[n] \notin AnsweredTypes
  <2>1. Cardinality(KnownIn(FrontOf(ts, n))) = Cardinality(KnownIn(FrontOf(ts, m)))
    BY <1>4, <1>7, <1>11
  <2> QED BY <1>3, <1>4, <1>5, <1>9, <1>11, <2>1
<1> QED BY <1>10, <1>11

\* What follows the first p of a packet stands in it there.
LEMMA HeldBehind ==
  ASSUME NEW a \in Seq(Nat), NEW b \in Seq(Nat) PROVE Holds(a \o b, Len(a), b)
<1>1. /\ Len(a \o b) = Len(a) + Len(b) /\ Len(a) \in Nat /\ Len(b) \in Nat
      /\ \A i \in 1..Len(b) : (a \o b)[Len(a) + i] = b[i]
  BY Joined
<1>2. Len(a) + Len(b) <= Len(a \o b)
  BY <1>1
<1> QED BY <1>1, <1>2 DEF Holds

\* The questions before n, and question n, stand in a packet that has all of them.
LEMMA QuestionHeld ==
  ASSUME NEW packet \in Seq(Nat), NEW h \in Seq(DnsLabel), NEW ptr \in BOOLEAN,
         NEW ts \in Seq(Type16), Holds(packet, HeaderSize, Questions(h, ts, ptr))
  PROVE  \A n \in 1..Len(ts) :
           LET before == Questions(h, FrontOf(ts, n - 1), ptr)
               question == Question(h, ts[n], ptr /\ n # 1)
           IN /\ Questions(h, FrontOf(ts, n), ptr) = before \o question
              /\ Holds(packet, HeaderSize + Len(before), question)
<1>1. PICK N \in Nat : N = Len(ts)
  BY LenProperties
<1> DEFINE Q(n) == Questions(h, FrontOf(ts, n), ptr)
           Ask(n) == Question(h, ts[n], ptr /\ n # 1)
<1>2. \A n \in 0..N : Q(n) \in Seq(Nat)
  <2>1. TAKE n \in 0..N
  <2>2. FrontOf(ts, n) \in Seq(Type16)
    BY <1>1, FrontMore
  <2>3. Q(n) \in Seq(Byte)
    BY <2>2, QuestionsMore
  <2> QED BY <2>3, LabelKinds
<1>3. ASSUME NEW n \in 1..N PROVE Q(n) = Q(n - 1) \o Ask(n) /\ Ask(n) \in Seq(Nat) /\ n - 1 \in 0..N
  <2>1. /\ ts[n] \in Type16 /\ n - 1 \in 0..N /\ FrontOf(ts, n) = Append(FrontOf(ts, n - 1), ts[n])
        /\ FrontOf(ts, n - 1) \in Seq(Type16)
    BY <1>1, FrontMore
  <2>2. FrontOf(ts, n - 1) # <<>> <=> n # 1
    <3>1. CASE n = 1
      BY <3>1, FrontMore
    <3>2. CASE n # 1
      <4>1. PICK m \in 1..N : m = n - 1
        BY <3>2
      <4>2. FrontOf(ts, m) = Append(FrontOf(ts, m - 1), ts[m]) /\ FrontOf(ts, m - 1) \in Seq(Type16)
            /\ ts[m] \in Type16
        BY <1>1, FrontMore
      <4>3. FrontOf(ts, m) # <<>>
        BY <4>2, AppendProperties, SMTT(30)
      <4> QED BY <3>2, <4>1, <4>3
    <3> QED BY <3>1, <3>2
  <2>3. PICK b \in BOOLEAN : b = (ptr /\ n # 1) /\ b = (ptr /\ FrontOf(ts, n - 1) # <<>>)
    BY <2>2
  <2>4. Questions(h, Append(FrontOf(ts, n - 1), ts[n]), ptr) = Q(n - 1) \o Question(h, ts[n], b)
    <3>1. Questions(h, Append(FrontOf(ts, n - 1), ts[n]), ptr)
            = Q(n - 1) \o Question(h, ts[n], ptr /\ FrontOf(ts, n - 1) # <<>>)
      BY <2>1, QuestionsMore
    <3> QED BY <2>3, <3>1, Zenon
  <2>5. Question(h, ts[n], b) \in Seq(Byte)
    BY <2>1, QuestionParts
  <2>6. Question(h, ts[n], b) \in Seq(Nat)
    BY <2>5, LabelKinds
  <2> QED BY <2>1, <2>3, <2>4, <2>6
<1>4. Q(N) = Questions(h, ts, ptr) /\ N \in 0..N
  BY <1>1, FrontMore
<1> HIDE DEF Q, Ask
<1> DEFINE T == {i \in 0..N : Holds(packet, HeaderSize, Q(N - i))}
<1>5. HeaderSize \in Nat
  BY DEF HeaderSize
<1>6. \A i \in 0..N : i \in T
  <2>1. 0 \in T
    BY <1>4
  <2>2. ASSUME NEW i \in 1..N, i - 1 \in T PROVE i \in T
    <3>1. PICK n \in 1..N : n = N - (i - 1) /\ n - 1 = N - i
      OBVIOUS
    <3>2. Holds(packet, HeaderSize, Q(n))
      BY <2>2, <3>1
    <3>3. Q(n) = Q(n - 1) \o Ask(n) /\ Q(n - 1) \in Seq(Nat) /\ Ask(n) \in Seq(Nat)
      BY <1>2, <1>3
    <3>4. Holds(packet, HeaderSize, Q(n - 1))
      BY <1>5, <3>2, <3>3, HoldsParts
    <3> QED BY <3>1, <3>4
  <2> HIDE DEF T
  <2> QED BY <2>1, <2>2, AllPasses
<1>7. ASSUME NEW n \in 1..N PROVE Q(n) = Q(n - 1) \o Ask(n) /\ Holds(packet, HeaderSize + Len(Q(n - 1)), Ask(n))
  <2>1. PICK i \in 0..N : i = N - n /\ N - i = n
    OBVIOUS
  <2>2. i \in T
    BY <1>6
  <2>3. Holds(packet, HeaderSize, Q(n))
    BY <2>1, <2>2
  <2>4. Q(n) = Q(n - 1) \o Ask(n) /\ Q(n - 1) \in Seq(Nat) /\ Ask(n) \in Seq(Nat)
    BY <1>2, <1>3
  <2> QED BY <1>5, <2>3, <2>4, HoldsParts
<1> QED BY <1>1, <1>7 DEF Q, Ask

\* Where captdnsRecv is after one more question.
OneMoreAnswered(s, h, t, b) ==
  [p |-> s.p + Len(Question(h, t, b)), rend |-> s.rend \o Record(h, t),
   answers |-> s.answers + (IF t \in AnsweredTypes THEN 1 ELSE 0), failed |-> FALSE]

\* One question answered: the record for it is appended, and the next question is next.
LEMMA OneQuestion ==
  ASSUME NEW packet \in Seq(Byte), NEW h \in Seq(DnsLabel), h # <<>>, NEW t \in Type16,
         NEW b \in BOOLEAN, NEW s \in PassState, ~s.failed, Holds(packet, s.p, Question(h, t, b)),
         b => Holds(packet, HeaderSize, NameBytes(h))
  PROVE  AnswerQuestion(packet, s) = OneMoreAnswered(s, h, t, b)
<1>1. PICK p \in Nat, k \in Nat, name, footer \in Seq(Nat) :
        /\ p = s.p /\ name = QuestionName(h, b) /\ footer = QuestionFooter(t) /\ name \in Seq(Nat)
        /\ k = Len(name) /\ Len(footer) = 4 /\ Len(Question(h, t, b)) = k + 4
        /\ Question(h, t, b) = name \o footer
        /\ footer[1] = t \div 256 /\ footer[2] = t % 256
  <2>1. s.p \in Nat
    BY DEF PassState
  <2>2. QuestionName(h, b) \in Seq(Nat) /\ QuestionFooter(t) \in Seq(Nat)
    <3>1. h \in Seq(DnsLabel) /\ t \in Type16 /\ b \in BOOLEAN
      OBVIOUS
    <3>2. QuestionName(h, b) \in Seq(Byte) /\ QuestionFooter(t) \in Seq(Byte)
      BY ONLY <3>1, QuestionParts
    <3> QED BY <3>2, LabelKinds
  <2>3. /\ Question(h, t, b) = QuestionName(h, b) \o QuestionFooter(t)
        /\ Len(QuestionName(h, b)) \in Nat /\ Len(QuestionFooter(t)) = 4
        /\ Len(Question(h, t, b)) = Len(QuestionName(h, b)) + 4
        /\ QuestionFooter(t)[1] = t \div 256 /\ QuestionFooter(t)[2] = t % 256
    <3>1. h \in Seq(DnsLabel) /\ t \in Type16 /\ b \in BOOLEAN
      OBVIOUS
    <3> QED BY ONLY <3>1, QuestionParts
  <2> QED BY <2>1, <2>2, <2>3, ZenonT(60)
<1>2. packet \in Seq(Nat)
  BY LabelKinds
<1>3. Holds(packet, p, name) /\ Holds(packet, p + k, footer)
  <2>1. Holds(packet, p, name \o footer) /\ name \in Seq(Nat)
    BY <1>1
  <2>2. Holds(packet, p, name) /\ Holds(packet, p + Len(name), footer)
    BY <1>2, <2>1, HoldsParts
  <2> QED BY <1>1, <2>2
<1>4. PICK q : q = LabelToStr(packet, p) /\ q.name = HostText(h) /\ q.next = p + k
  <2>1. CASE b
    <3>1. name = <<192, HeaderSize>> /\ Len(<<192, HeaderSize>>) = 2
      BY <1>1, <2>1 DEF QuestionName
    <3>2. Holds(packet, p, <<192, HeaderSize>>) /\ k = 2
      BY <1>1, <1>3, <3>1
    <3>3. LabelToStr(packet, p).name = HostText(h) /\ LabelToStr(packet, p).next = p + 2
      BY <2>1, <3>2, PointerRead
    <3> QED BY <3>2, <3>3
  <2>2. CASE ~b
    <3>1. name = NameBytes(h)
      BY <1>1, <2>2 DEF QuestionName
    <3>2. /\ LabelToStr(packet, p).name = HostText(h)
          /\ LabelToStr(packet, p).next = p + Len(NameBytes(h))
      BY <1>3, <3>1, NameRead
    <3> QED BY <1>1, <3>1, <3>2
  <2> QED BY <2>1, <2>2
<1>5. q.next # 0
  <2>1. k # 0
    <3>1. CASE b
      <4>1. Len(<<192, HeaderSize>>) = 2
        OBVIOUS
      <4> QED BY <1>1, <3>1, <4>1 DEF QuestionName
    <3>2. CASE ~b
      <4>1. Len(NameBytes(h)) # 0
        <5>1. h \in Seq(DnsLabel) /\ t \in Type16 /\ b \in BOOLEAN
          OBVIOUS
        <5> QED BY ONLY <5>1, QuestionParts
      <4> QED BY <1>1, <3>2, <4>1 DEF QuestionName
    <3> QED BY <3>1, <3>2
  <2> QED BY <1>4, <2>1
<1>6. Value16(packet, q.next) = t
  <2>1. 1 \in 1..Len(footer) /\ 2 \in 1..Len(footer)
    BY <1>1
  <2>2. packet[p + k + 1] = t \div 256 /\ packet[p + k + 2] = t % 256
    BY <1>1, <1>3, <2>1 DEF Holds
  <2>3. Value16(packet, q.next) = (t \div 256) * 256 + (t % 256)
    BY <1>4, <2>2 DEF Value16
  <2> QED BY <2>3, TwoBytes
<1>7. RecordFor(t, q.name) = Record(h, t) /\ (Record(h, t) = <<>> <=> t \notin AnsweredTypes)
  BY <1>4, RecordParts
<1>8. NextQuestion(q) = p + (k + 4)
  BY <1>4 DEF NextQuestion, FooterSize
<1>9. AnswerQuestion(packet, s) =
        [p |-> NextQuestion(q), rend |-> s.rend \o Record(h, t),
         answers |-> s.answers + (IF Record(h, t) = <<>> THEN 0 ELSE 1), failed |-> FALSE]
  BY <1>1, <1>4, <1>5, <1>6, <1>7, ZenonT(60) DEF AnswerQuestion
<1>10. (IF Record(h, t) = <<>> THEN 0 ELSE 1) = (IF t \in AnsweredTypes THEN 1 ELSE 0)
  BY <1>7
<1> QED BY <1>1, <1>8, <1>9, <1>10, ZenonT(60) DEF OneMoreAnswered

\* The first question of a query has the name that is asked for in full.
LEMMA FirstName ==
  ASSUME NEW packet \in Seq(Nat), NEW h \in Seq(DnsLabel), NEW ptr \in BOOLEAN,
         NEW ts \in Seq(Type16), Holds(packet, HeaderSize, Questions(h, ts, ptr)), 1 \in 1..Len(ts)
  PROVE  Holds(packet, HeaderSize, NameBytes(h))
<1>1. Questions(h, FrontOf(ts, 1 - 1), ptr) = <<>>
  BY FrontMore, QuestionsMore
<1>2. Holds(packet, HeaderSize + Len(<<>>), Question(h, ts[1], ptr /\ 1 # 1))
  BY <1>1, QuestionHeld
<1>3. PICK b \in BOOLEAN, t \in Type16 : b = (ptr /\ 1 # 1) /\ b = FALSE /\ t = ts[1]
  BY ElementOfSeq
<1>4. HeaderSize \in Nat /\ HeaderSize + Len(<<>>) = HeaderSize
  BY DEF HeaderSize
<1>5. Holds(packet, HeaderSize, Question(h, t, b))
  BY <1>2, <1>3, <1>4, Zenon
<1>6. /\ Question(h, t, b) = QuestionName(h, b) \o QuestionFooter(t)
      /\ QuestionName(h, b) \in Seq(Nat) /\ QuestionFooter(t) \in Seq(Nat)
  <2>1. /\ Question(h, t, b) = QuestionName(h, b) \o QuestionFooter(t)
        /\ QuestionName(h, b) \in Seq(Byte) /\ QuestionFooter(t) \in Seq(Byte)
    <3>1. h \in Seq(DnsLabel) /\ t \in Type16 /\ b \in BOOLEAN
      BY <1>3
    <3> QED BY ONLY <3>1, QuestionParts, SMTT(30)
  <2>2. Seq(Byte) \subseteq Seq(Nat)
    BY LabelKinds
  <2> QED BY <2>1, <2>2, Zenon
<1>7. Holds(packet, HeaderSize, QuestionName(h, b) \o QuestionFooter(t))
  BY <1>5, <1>6
<1>8. Holds(packet, HeaderSize, QuestionName(h, b))
  BY <1>4, <1>6, <1>7, HoldsParts
<1> QED BY <1>3, <1>8 DEF QuestionName

\* Where captdnsRecv is after n questions.
After(h, ts, ptr, n) ==
  [p |-> HeaderSize + Len(Questions(h, FrontOf(ts, n), ptr)), rend |-> Records(h, FrontOf(ts, n)),
   answers |-> Cardinality(KnownIn(FrontOf(ts, n))), failed |-> FALSE]

\* These are states of the loop.
LEMMA AfterFits ==
  ASSUME NEW h \in Seq(DnsLabel), h # <<>>, NEW ptr \in BOOLEAN, NEW ts \in Seq(Type16),
         NEW n \in 0..Len(ts)
  PROVE  After(h, ts, ptr, n) \in PassState
<1>1. FrontOf(ts, n) \in Seq(Type16) /\ Len(ts) \in Nat
  BY FrontMore, LenProperties
<1>2. PICK k \in Nat : k = Len(Questions(h, FrontOf(ts, n), ptr))
  <2>1. Questions(h, FrontOf(ts, n), ptr) \in Seq(Byte)
    BY <1>1, QuestionsMore
  <2> QED BY <2>1, LenProperties
<1>3. HeaderSize + k \in Nat
  BY DEF HeaderSize
<1>4. Records(h, FrontOf(ts, n)) \in Seq(Octet)
  BY <1>1, RecordsMore
<1>5. Cardinality(KnownIn(FrontOf(ts, n))) \in Nat
  <2>1. DOMAIN FrontOf(ts, n) = 1..Len(FrontOf(ts, n)) /\ Len(FrontOf(ts, n)) \in Nat
    BY <1>1, LenProperties
  <2>2. IsFiniteSet(1..Len(FrontOf(ts, n)))
    BY <2>1, FS_Interval
  <2>3. KnownIn(FrontOf(ts, n)) \subseteq 1..Len(FrontOf(ts, n))
    BY <2>1 DEF KnownIn
  <2>4. IsFiniteSet(KnownIn(FrontOf(ts, n)))
    BY <2>2, <2>3, FS_Subset
  <2> QED BY <2>4, FS_CardinalityType
<1> QED BY <1>2, <1>3, <1>4, <1>5 DEF After, PassState

\* One pass of the loop answers one question.
LEMMA AfterMore ==
  ASSUME NEW packet \in Seq(Byte), NEW h \in Seq(DnsLabel), h # <<>>, NEW ptr \in BOOLEAN,
         NEW ts \in Seq(Type16), Holds(packet, HeaderSize, Questions(h, ts, ptr)), NEW n \in 1..Len(ts)
  PROVE  AnswerQuestion(packet, After(h, ts, ptr, n - 1)) = After(h, ts, ptr, n)
<1>1. PICK m \in 0..Len(ts) : m = n - 1 /\ Len(ts) \in Nat
  <2>1. Len(ts) \in Nat
    BY LenProperties
  <2>2. n - 1 \in 0..Len(ts)
    BY <2>1
  <2> QED BY <2>1, <2>2
<1>2. PICK s \in PassState :
        /\ s = After(h, ts, ptr, m) /\ s.failed = FALSE
        /\ s.p = HeaderSize + Len(Questions(h, FrontOf(ts, m), ptr))
        /\ s.rend = Records(h, FrontOf(ts, m)) /\ s.answers = Cardinality(KnownIn(FrontOf(ts, m)))
  <2>1. After(h, ts, ptr, m) \in PassState
    BY <1>1, AfterFits
  <2> QED BY <2>1 DEF After
<1>3. PICK b \in BOOLEAN, t \in Type16 : b = (ptr /\ n # 1) /\ t = ts[n]
  BY ElementOfSeq
<1>4. packet \in Seq(Nat)
  BY LabelKinds
<1>5. /\ Questions(h, FrontOf(ts, n), ptr) = Questions(h, FrontOf(ts, m), ptr) \o Question(h, t, b)
      /\ Holds(packet, HeaderSize + Len(Questions(h, FrontOf(ts, m), ptr)), Question(h, t, b))
  <2>1. LET before == Questions(h, FrontOf(ts, n - 1), ptr)
            question == Question(h, ts[n], ptr /\ n # 1)
        IN /\ Questions(h, FrontOf(ts, n), ptr) = before \o question
           /\ Holds(packet, HeaderSize + Len(before), question)
    BY <1>4, QuestionHeld
  <2> QED BY <1>1, <1>3, <2>1, Zenon
<1>6. b => Holds(packet, HeaderSize, NameBytes(h))
  <2>1. 1 \in 1..Len(ts)
    BY <1>1
  <2> QED BY <1>4, <2>1, FirstName
<1>7. AnswerQuestion(packet, s) = OneMoreAnswered(s, h, t, b)
  <2>1. Holds(packet, s.p, Question(h, t, b)) /\ ~s.failed /\ h # <<>>
    BY <1>2, <1>5
  <2> QED BY <1>6, <2>1, OneQuestion
<1>8. FrontOf(ts, m) \in Seq(Type16) /\ FrontOf(ts, n) = Append(FrontOf(ts, m), t)
  <2>1. FrontOf(ts, n) = Append(FrontOf(ts, n - 1), ts[n])
    BY FrontMore
  <2>2. FrontOf(ts, m) \in Seq(Type16)
    BY FrontMore
  <2> QED BY <1>1, <1>3, <2>1, <2>2
<1>9. s.p + Len(Question(h, t, b)) = HeaderSize + Len(Questions(h, FrontOf(ts, n), ptr))
  <2>1. PICK u, v \in Seq(Byte) :
          /\ u = Questions(h, FrontOf(ts, m), ptr) /\ v = Question(h, t, b) /\ v \in Seq(Byte)
          /\ u \in Seq(Byte)
    <3>1. Questions(h, FrontOf(ts, m), ptr) \in Seq(Byte)
      BY <1>8, QuestionsMore
    <3>2. Question(h, t, b) \in Seq(Byte)
      <4>1. h \in Seq(DnsLabel) /\ t \in Type16 /\ b \in BOOLEAN
        OBVIOUS
      <4> QED BY ONLY <4>1, QuestionParts
    <3> QED BY <3>1, <3>2
  <2>2. Len(u \o v) = Len(u) + Len(v) /\ Len(u) \in Nat /\ Len(v) \in Nat
    BY <2>1, Joined
  <2>3. HeaderSize \in Nat
    BY DEF HeaderSize
  <2>4. (HeaderSize + Len(u)) + Len(v) = HeaderSize + Len(u \o v)
    BY <2>2, <2>3
  <2> QED BY <1>2, <1>5, <2>1, <2>4
<1>10. s.rend \o Record(h, t) = Records(h, FrontOf(ts, n))
  BY <1>2, <1>8, RecordsMore
<1>11. s.answers + (IF t \in AnsweredTypes THEN 1 ELSE 0) = Cardinality(KnownIn(FrontOf(ts, n)))
  <2>1. Cardinality(KnownIn(FrontOf(ts, n)))
          = Cardinality(KnownIn(FrontOf(ts, n - 1))) + IF ts[n] \in AnsweredTypes THEN 1 ELSE 0
    BY KnownMore
  <2> QED BY <1>1, <1>2, <1>3, <2>1
<1> QED BY <1>1, <1>2, <1>7, <1>9, <1>10, <1>11, Zenon DEF After, OneMoreAnswered

\* The passes of the loop of captdnsRecv over n questions.
Answering(packet, n) ==
  Loop([i \in 1..n |-> [s \in PassState |-> AnswerQuestion(packet, s)]],
       [p |-> HeaderSize, rend |-> <<>>, answers |-> 0, failed |-> FALSE], [i \in 1..n |-> i])

\* After the passes of its loop captdnsRecv has read all questions of the query and answered
\* those it knows.
LEMMA AllAnswered ==
  ASSUME NEW packet \in Seq(Byte), NEW h \in Seq(DnsLabel), h # <<>>, NEW ptr \in BOOLEAN,
         NEW ts \in Seq(Type16), Holds(packet, HeaderSize, Questions(h, ts, ptr)),
         NEW N, N = Len(ts)
  PROVE  Answering(packet, N) = After(h, ts, ptr, N)
<1> DEFINE passes == [i \in 1..N |-> i]
           step == [i \in 1..N |-> [s \in PassState |-> AnswerQuestion(packet, s)]]
           s0 == [p |-> HeaderSize, rend |-> <<>>, answers |-> 0, failed |-> FALSE]
<1>1. N \in Nat /\ Len(passes) = N
  <2>1. N \in Nat
    BY LenProperties
  <2> QED BY <2>1
<1>2. PICK F : /\ F[0] = s0
               /\ \A n \in 1..N : F[n] = step[passes[n]][F[n - 1]]
               /\ Loop(step, s0, passes) = F[N]
  <2>1. \E F : /\ F[0] = s0
               /\ \A n \in 1..Len(passes) : F[n] = step[passes[n]][F[n - 1]]
               /\ Loop(step, s0, passes) = F[Len(passes)]
    <3>1. Len(passes) \in Nat
      BY <1>1
    <3> HIDE DEF passes, step, s0
    <3> QED BY <3>1, LoopRuns
  <2> HIDE DEF passes, step, s0
  <2> QED BY <1>1, <2>1, Zenon
<1> DEFINE T == {n \in 0..N : F[n] = After(h, ts, ptr, n)}
<1>3. 0 \in T
  <2>1. Questions(h, FrontOf(ts, 0), ptr) = <<>> /\ Records(h, FrontOf(ts, 0)) = <<>>
    BY FrontMore, QuestionsMore, RecordsMore
  <2>2. KnownIn(FrontOf(ts, 0)) = {}
    <3>1. FrontOf(ts, 0) = <<>> /\ DOMAIN <<>> = {}
      BY FrontMore
    <3> QED BY <3>1 DEF KnownIn
  <2>3. Cardinality(KnownIn(FrontOf(ts, 0))) = 0
    BY <2>2, FS_EmptySet
  <2>4. HeaderSize + Len(<<>>) = HeaderSize
    BY DEF HeaderSize
  <2>5. After(h, ts, ptr, 0) = s0
    BY <2>1, <2>3, <2>4 DEF After
  <2>6. 0 \in 0..N
    BY <1>1
  <2>7. F[0] = After(h, ts, ptr, 0)
    BY <1>2, <2>5, Zenon
  <2> QED BY <2>6, <2>7
<1>4. ASSUME NEW n \in 1..N, n - 1 \in T PROVE n \in T
  <2>1. PICK s \in PassState : s = F[n - 1] /\ s = After(h, ts, ptr, n - 1)
    <3>1. n - 1 \in 0..Len(ts)
      BY <1>1
    <3>2. After(h, ts, ptr, n - 1) \in PassState
      BY <3>1, AfterFits
    <3> QED BY <1>4, <3>2
  <2>2. F[n] = step[n][s]
    <3>1. passes[n] = n
      OBVIOUS
    <3>2. F[n] = step[passes[n]][F[n - 1]]
      BY <1>2
    <3> QED BY <2>1, <3>1, <3>2
  <2>3. step[n][s] = AnswerQuestion(packet, s)
    OBVIOUS
  <2>4. AnswerQuestion(packet, s) = After(h, ts, ptr, n)
    BY <2>1, AfterMore
  <2>5. n \in 0..N
    BY <1>1
  <2> QED BY <2>2, <2>3, <2>4, <2>5
<1>5. N \in T
  <2>1. N \in 0..N
    BY <1>1
  <2> HIDE DEF T
  <2> QED BY <1>1, <1>3, <1>4, <2>1, AllPasses
<1>6. F[N] = After(h, ts, ptr, N)
  BY <1>5
<1> QED BY <1>2, <1>6 DEF Answering

\* What is in the header of a query.
HeaderHas(w, flags, q) ==
  /\ w[1] = 0 /\ w[2] = 7 /\ w[3] = flags /\ w[4] = 0
  /\ w[5] = q \div 256 /\ w[6] = q % 256 /\ w[7] = 0 /\ w[8] = 0
  /\ w[9] = 0 /\ w[10] = 0 /\ w[11] = 0 /\ w[12] = 0

\* How the header of a query is written.
LEMMA QueryHeader ==
  ASSUME NEW flags \in Byte, NEW q \in Type16
  PROVE  /\ Header(flags, q, 0) \in Seq(Byte) /\ Len(Header(flags, q, 0)) = HeaderSize
         /\ HeaderHas(Header(flags, q, 0), flags, q)
<1>1. PICK hi \in Byte, lo \in Byte : hi = q \div 256 /\ lo = q % 256
  BY TwoBytes
<1>2. 0 \in Byte /\ 7 \in Byte /\ 0 \div 256 = 0 /\ 0 % 256 = 0
  BY DEF Byte
<1>3. PICK w : w = <<0, 7, flags, 0, hi, lo, 0, 0, 0, 0, 0, 0>>
  OBVIOUS
<1>4. w \in Seq(Byte)
  BY <1>2, <1>3
<1>5. /\ Len(w) = 12 /\ w[1] = 0 /\ w[2] = 7 /\ w[3] = flags /\ w[4] = 0 /\ w[5] = hi /\ w[6] = lo
      /\ w[7] = 0 /\ w[8] = 0 /\ w[9] = 0 /\ w[10] = 0 /\ w[11] = 0 /\ w[12] = 0
  BY <1>3
<1>6. Header(flags, q, 0) = w
  BY <1>1, <1>2, <1>3 DEF Header
<1>7. HeaderHas(w, flags, q)
  BY <1>1, <1>5, Zenon DEF HeaderHas
<1> QED BY <1>4, <1>5, <1>6, <1>7, Zenon DEF HeaderSize

\* How a query is laid out: its header is followed by the questions.
LEMMA QueryLaid ==
  ASSUME NEW h \in Seq(DnsLabel), NEW ptr \in BOOLEAN, NEW ts \in Seq(Type16), Len(ts) \in Type16,
         NEW packet, packet = Query(h, ts, ptr)
  PROVE  /\ packet \in Seq(Byte) /\ Len(packet) = HeaderSize + Len(Questions(h, ts, ptr))
         /\ Len(Questions(h, ts, ptr)) \in Nat
         /\ Holds(packet, HeaderSize, Questions(h, ts, ptr))
         /\ SubSeq(packet, HeaderSize + 1, Len(packet)) = Questions(h, ts, ptr)
         /\ \A k \in 1..HeaderSize : packet[k] = Header(1, Len(ts), 0)[k]
<1>1. PICK a \in Seq(Byte) : a = Header(1, Len(ts), 0) /\ Len(a) = HeaderSize
  <2>1. 1 \in Byte
    BY DEF Byte
  <2> QED BY <2>1, QueryHeader
<1>2. PICK b \in Seq(Byte) : b = Questions(h, ts, ptr)
  BY QuestionsMore
<1>3. packet = a \o b
  BY <1>1, <1>2 DEF Query
<1>4. /\ a \o b \in Seq(Byte) /\ Len(a \o b) = Len(a) + Len(b) /\ Len(b) \in Nat
      /\ \A i \in 1..Len(a) : (a \o b)[i] = a[i]
  BY Joined
<1>5. Holds(packet, HeaderSize, b)
  <2>1. a \in Seq(Nat) /\ b \in Seq(Nat)
    BY LabelKinds
  <2>2. Holds(a \o b, Len(a), b)
    BY <2>1, HeldBehind
  <2> QED BY <1>1, <1>3, <2>2, Zenon
<1>6. SubSeq(packet, HeaderSize + 1, HeaderSize + Len(b)) = b
  <2>1. packet \in Seq(Nat) /\ b \in Seq(Nat) /\ HeaderSize \in Nat
    BY <1>3, <1>4, LabelKinds DEF HeaderSize
  <2> QED BY <1>5, <2>1, HeldPart
<1> QED BY <1>1, <1>2, <1>3, <1>4, <1>5, <1>6, Zenon

\* captdnsRecv takes such a query for one, with as many questions as it has.
LEMMA QueryTaken ==
  ASSUME NEW h \in Seq(DnsLabel), NEW ptr \in BOOLEAN, NEW ts \in Seq(Type16), Len(ts) \in Type16,
         NEW packet, packet = Query(h, ts, ptr), Len(packet) <= DnsLen
  PROVE  ~Ignored(packet) /\ Value16(packet, 4) = Len(ts)
<1>1. PICK n \in Type16 : n = Len(ts)
  OBVIOUS
<1>2. /\ Len(packet) = HeaderSize + Len(Questions(h, ts, ptr)) /\ Len(Questions(h, ts, ptr)) \in Nat
      /\ \A k \in 1..HeaderSize : packet[k] = Header(1, n, 0)[k]
  <2>1. /\ Len(packet) = HeaderSize + Len(Questions(h, ts, ptr)) /\ Len(Questions(h, ts, ptr)) \in Nat
        /\ \A k \in 1..HeaderSize : packet[k] = Header(1, Len(ts), 0)[k]
    BY QueryLaid
  <2> QED BY <1>1, <2>1, Zenon
<1>3. PICK w : w = Header(1, n, 0) /\ \A k \in 1..12 : packet[k] = w[k]
  BY <1>2 DEF HeaderSize
<1>4. HeaderHas(w, 1, n)
  <2>1. 1 \in Byte
    BY DEF Byte
  <2> QED BY <1>3, <2>1, QueryHeader
<1>5. /\ packet[3] = 1 /\ packet[5] = n \div 256 /\ packet[6] = n % 256 /\ packet[7] = 0 /\ packet[8] = 0
      /\ packet[9] = 0 /\ packet[10] = 0 /\ packet[11] = 0 /\ packet[12] = 0
  <2>1. /\ 3 \in 1..12 /\ 5 \in 1..12 /\ 6 \in 1..12 /\ 7 \in 1..12 /\ 8 \in 1..12
        /\ 9 \in 1..12 /\ 10 \in 1..12 /\ 11 \in 1..12 /\ 12 \in 1..12
    OBVIOUS
  <2>2. \A k \in 1..12 : packet[k] = w[k]
    BY <1>3
  <2> QED BY <1>4, <2>1, <2>2, ZenonT(60) DEF HeaderHas
<1>6. Value16(packet, 4) = n
  <2>1. Value16(packet, 4) = (n \div 256) * 256 + (n % 256)
    BY <1>5 DEF Value16
  <2> QED BY <2>1, TwoBytes
<1>7. Value16(packet, 6) = 0 /\ Value16(packet, 8) = 0 /\ Value16(packet, 10) = 0
  BY <1>5, SMTT(30) DEF Value16
<1>8. (packet[3] \div 2) % 2 # 1
  BY <1>5
<1>9. ~(Len(packet) < HeaderSize) /\ ~(Len(packet) > DnsLen)
  <2>1. PICK k \in Nat : k = Len(Questions(h, ts, ptr)) /\ Len(packet) = 12 + k
    BY <1>2 DEF HeaderSize
  <2> QED BY <2>1, DnsAssumption DEF HeaderSize
<1> QED BY <1>1, <1>6, <1>7, <1>8, <1>9 DEF Ignored

\* captdnsRecv answers such a query as it should, if there is room for the reply.
LEMMA QueryAnswered ==
  ASSUME NEW h \in Seq(DnsLabel), h # <<>>, NEW ptr \in BOOLEAN, NEW ts \in Seq(Type16),
         Len(ts) \in Type16, Len(AnswerFor(h, ts, ptr)) <= DnsLen
  PROVE  Reply(Query(h, ts, ptr)) = AnswerFor(h, ts, ptr)
<1>1. PICK packet \in Seq(Byte) : packet = Query(h, ts, ptr)
  BY QueryLaid
<1>2. PICK n \in Type16 : n = Len(ts)
  OBVIOUS
<1>3. PICK u \in Seq(Byte) :
        /\ u = Questions(h, ts, ptr) /\ Len(packet) = HeaderSize + Len(u)
        /\ Holds(packet, HeaderSize, u) /\ SubSeq(packet, HeaderSize + 1, Len(packet)) = u
        /\ \A k \in 1..HeaderSize : packet[k] = Header(1, n, 0)[k]
  <2>1. Questions(h, ts, ptr) \in Seq(Byte)
    BY QuestionsMore
  <2> QED BY <1>1, <1>2, <2>1, QueryLaid
<1>4. PICK d \in PassState :
        /\ d = After(h, ts, ptr, n) /\ ~d.failed /\ d.rend = Records(h, ts)
        /\ d.answers = Cardinality(KnownIn(ts))
  <2>1. n \in 0..Len(ts)
    BY <1>2, LenProperties
  <2>2. After(h, ts, ptr, n) \in PassState
    BY <2>1, AfterFits
  <2>3. FrontOf(ts, n) = ts
    BY <1>2, FrontMore
  <2> QED BY <2>2, <2>3 DEF After
<1>5. PICK w : w = Header(129, n, d.answers)
  OBVIOUS
<1>6. /\ w \in Seq(Nat) /\ Len(w) = 12
      /\ w[1] = 0 /\ w[2] = 7 /\ w[3] = 129 /\ w[4] = 0 /\ w[5] = n \div 256 /\ w[6] = n % 256
      /\ w[7] = d.answers \div 256 /\ w[8] = d.answers % 256
      /\ w[9] = 0 /\ w[10] = 0 /\ w[11] = 0 /\ w[12] = 0
  <2>1. PICK hi \in Byte, lo \in Byte : hi = n \div 256 /\ lo = n % 256
    BY TwoBytes
  <2>2. PICK ahi \in Nat, alo \in Nat : ahi = d.answers \div 256 /\ alo = d.answers % 256
    <3>1. d.answers \in Nat
      BY DEF PassState
    <3>2. d.answers \div 256 \in Nat
      BY <3>1
    <3>3. d.answers % 256 \in Nat
      BY <3>1
    <3> QED BY <3>2, <3>3
  <2>3. w = <<0, 7, 129, 0, hi, lo, ahi, alo, 0, 0, 0, 0>>
    BY <1>5, <2>1, <2>2 DEF Header
  <2>4. w \in Seq(Nat)
    <3>1. hi \in Nat /\ lo \in Nat
      BY DEF Byte
    <3> QED BY <2>3, <3>1
  <2>5. /\ Len(w) = 12 /\ w[1] = 0 /\ w[2] = 7 /\ w[3] = 129 /\ w[4] = 0 /\ w[5] = hi /\ w[6] = lo
        /\ w[7] = ahi /\ w[8] = alo /\ w[9] = 0 /\ w[10] = 0 /\ w[11] = 0 /\ w[12] = 0
    BY <2>3
  <2> QED BY <2>1, <2>2, <2>4, <2>5
<1>7. AnswerFor(h, ts, ptr) = w \o u \o d.rend
  <2>1. {k \in DOMAIN ts : ts[k] \in {QTYPE_A, QTYPE_NS, QTYPE_URI}} = KnownIn(ts)
    BY DEF KnownIn, AnsweredTypes
  <2>2. AnswerFor(h, ts, ptr)
          = Header(129, Len(ts), Cardinality(KnownIn(ts))) \o Questions(h, ts, ptr) \o Records(h, ts)
    BY <2>1, Zenon DEF AnswerFor
  <2> QED BY <1>2, <1>3, <1>4, <1>5, <2>2, Zenon
<1>8. Len(packet) <= DnsLen
  <2>1. d.rend \in Seq(Nat)
    <3>1. d.rend \in Seq(Octet) /\ Octet \subseteq Nat
      BY DEF PassState, Octet, Byte, Junk
    <3>2. Seq(Octet) \subseteq Seq(Nat)
      BY <3>1, SeqMonotonic
    <3> QED BY <3>1, <3>2
  <2>2. u \in Seq(Nat)
    BY LabelKinds
  <2>3. w \o u \in Seq(Nat) /\ Len(w \o u) = Len(w) + Len(u) /\ Len(u) \in Nat
    <3>1. w \in Seq(Nat)
      BY <1>6
    <3> QED BY <2>2, <3>1, Joined
  <2>4. Len((w \o u) \o d.rend) = Len(w \o u) + Len(d.rend) /\ Len(d.rend) \in Nat
    BY <2>1, <2>3, Joined
  <2>5. PICK i \in Nat, j \in Nat :
          /\ i = Len(u) /\ j = Len(d.rend) /\ Len(packet) = 12 + i
          /\ Len(AnswerFor(h, ts, ptr)) = (12 + i) + j
    <3>1. Len(packet) = 12 + Len(u)
      BY <1>3 DEF HeaderSize
    <3>2. Len(AnswerFor(h, ts, ptr)) = (12 + Len(u)) + Len(d.rend)
      BY <1>6, <1>7, <2>3, <2>4
    <3> QED BY <2>3, <2>4, <3>1, <3>2
  <2>6. (12 + i) + j <= DnsLen /\ DnsLen \in Nat
    BY <2>5, DnsAssumption
  <2>7. 12 + i <= DnsLen
    BY <2>6
  <2> QED BY <2>5, <2>7
<1>9. ~Ignored(packet) /\ Value16(packet, 4) = n
  BY <1>1, <1>2, <1>8, QueryTaken
<1> DEFINE Headed(a) == [k \in 1..HeaderSize |->
                          CASE k = 3 -> WithQr(packet[3])
                            [] k \in {7, 8} -> Bytes16(a)[k - 6]
                            [] OTHER -> packet[k]]
           header == Headed(d.answers)
<1>10. Answering(packet, n) = d
  <2>1. Holds(packet, HeaderSize, Questions(h, ts, ptr))
    BY <1>3
  <2>2. Answering(packet, n) = After(h, ts, ptr, n)
    BY <1>2, <2>1, AllAnswered
  <2> QED BY <1>4, <2>2
<1>11. Reply(packet) = (header \o u) \o d.rend
  <2>1. Reply(packet) =
          IF Ignored(packet) \/ Answering(packet, Value16(packet, 4)).failed THEN NoReply
          ELSE (Headed(Answering(packet, Value16(packet, 4)).answers) \o SubSeq(packet, HeaderSize + 1, Len(packet)))
                 \o Answering(packet, Value16(packet, 4)).rend
    BY Zenon DEF Reply, Answering
  <2> HIDE DEF Headed
  <2>2. Answering(packet, Value16(packet, 4)) = d
    BY <1>9, <1>10, Zenon
  <2>3. Reply(packet) = (header \o SubSeq(packet, HeaderSize + 1, Len(packet))) \o d.rend
    BY <1>4, <1>9, <2>1, <2>2
  <2> QED BY <1>3, <2>3, Zenon
<1>12. header = w
  <2>1. PICK v : v = Header(1, n, 0)
    OBVIOUS
  <2>2. HeaderHas(v, 1, n)
    <3>1. 1 \in Byte
      BY DEF Byte
    <3> QED BY <2>1, <3>1, QueryHeader
  <2>3. \A k \in 1..12 : packet[k] = v[k]
    BY <1>3, <2>1 DEF HeaderSize
  <2>4. packet[3] = 1 /\ WithQr(packet[3]) = 129
    <3>1. 3 \in 1..12 /\ v[3] = 1
      BY <2>2 DEF HeaderHas
    <3>2. packet[3] = 1
      BY <2>3, <3>1, Zenon
    <3> QED BY <3>2 DEF WithQr
  <2>5. Bytes16(d.answers)[1] = d.answers \div 256 /\ Bytes16(d.answers)[2] = d.answers % 256
    BY DEF Bytes16
  <2>6. header = [k \in 1..12 |-> CASE k = 3 -> 129
                                   [] k \in {7, 8} -> Bytes16(d.answers)[k - 6]
                                   [] OTHER -> packet[k]]
    BY <2>4 DEF HeaderSize
  <2>7. \A k \in 1..12 : w[k] = header[k]
    <3>1. w[3] = header[3]
      BY <1>6, <2>6, SMTT(30)
    <3>2. w[7] = header[7]
      <4>1. header[7] = Bytes16(d.answers)[1]
        BY <2>6
      <4> QED BY <1>6, <2>5, <4>1
    <3>3. w[8] = header[8]
      <4>1. header[8] = Bytes16(d.answers)[2]
        BY <2>6
      <4> QED BY <1>6, <2>5, <4>1
    <3>4. ASSUME NEW k \in {1, 2, 4, 5, 6, 9, 10, 11, 12} PROVE w[k] = header[k]
      <4>1. header[k] = packet[k]
        BY <2>6, SMTT(30)
      <4>2. packet[k] = v[k]
        <5>1. k \in 1..12
          OBVIOUS
        <5> QED BY <2>3, <5>1
      <4>3. v[k] = w[k]
        <5>1. /\ v[1] = w[1] /\ v[2] = w[2] /\ v[4] = w[4] /\ v[5] = w[5] /\ v[6] = w[6]
              /\ v[9] = w[9] /\ v[10] = w[10] /\ v[11] = w[11] /\ v[12] = w[12]
          BY <1>6, <2>2, ZenonT(60) DEF HeaderHas
        <5> QED BY <5>1
      <4> QED BY <4>1, <4>2, <4>3
    <3>5. \A k \in 1..12 : k \in {1, 2, 4, 5, 6, 9, 10, 11, 12} \/ k \in {3, 7, 8}
      OBVIOUS
    <3> HIDE DEF header
    <3> QED BY <3>1, <3>2, <3>3, <3>4, <3>5
  <2>8. DOMAIN w = 1..12 /\ w = [k \in 1..12 |-> w[k]]
    BY <1>6
  <2> QED BY <2>6, <2>7, <2>8
<1> QED BY <1>1, <1>7, <1>11, <1>12, Zenon

\* The names that are asked for are names that DNS can carry.
LEMMA NamesFit == ASSUME ProperNames PROVE \A host \in Names : host \in Seq(DnsLabel) /\ host # <<>>
<1>1. TAKE host \in Names
<1>2. host \in Seq(Text)
  <2>1. CASE host \in {v.host : v \in Visits}
    <3>1. PICK v \in Visits : host = v.host
      BY <2>1
    <3> QED BY <3>1, VisitsAssumption DEF HostName
  <2>2. CASE host \in UNION {{t[k].arg : k \in {j \in DOMAIN t : t[j].cgi = "cgiRedirectToHostname"}} : t \in Tables}
    <3>1. PICK t \in Tables : \E k \in DOMAIN t : t[k].cgi = "cgiRedirectToHostname" /\ host = t[k].arg
      BY <2>2
    <3>2. PICK k \in DOMAIN t : t[k].cgi = "cgiRedirectToHostname" /\ host = t[k].arg
      BY <3>1
    <3>3. IsRoute(t[k])
      BY <3>1, <3>2, TablesAssumption
    <3> QED BY <3>2, <3>3 DEF IsRoute, HostName
  <2> QED BY <2>1, <2>2 DEF Names
<1>3. host # <<>> /\ \A k \in DOMAIN host : Len(host[k]) \in 1..63 /\ Dot \notin Range(host[k])
  BY DEF ProperNames
<1>4. ASSUME NEW k \in 1..Len(host) PROVE host[k] \in DnsLabel
  <2>1. k \in DOMAIN host /\ host[k] \in Text
    BY <1>2, ElementOfSeq, LenProperties
  <2>2. PICK l \in Seq(1..255) : l = host[k] /\ Len(l) \in 1..63 /\ Dot \notin Range(l)
    BY <1>3, <2>1 DEF Text
  <2>3. \A i \in 1..Len(l) : l[i] # Dot
    <3>1. DOMAIN l = 1..Len(l)
      BY <2>2, LenProperties
    <3> QED BY <2>2, <3>1 DEF Range
  <2> QED BY <2>2, <2>3 DEF DnsLabel
<1>5. host \in Seq(DnsLabel)
  BY <1>2, <1>4, Retyped
<1> QED BY <1>3, <1>5

\* Every query for a name is answered with its questions, and with a record for each of them
\* that the server knows how to answer, in order and for the name that was asked, also where
\* the name was given as a pointer (captdnsRecv, labelToStr, strToLabel).
THEOREM QueriesAreAnswered ==
  ASSUME ProperNames
  PROVE  \A host \in Names, types \in Companions, isPointer \in BOOLEAN :
           Reply(Query(host, types, isPointer)) = AnswerFor(host, types, isPointer)
<1>1. TAKE host \in Names, types \in Companions, isPointer \in BOOLEAN
<1>2. host \in Seq(DnsLabel) /\ host # <<>>
  BY NamesFit
<1>3. types \in Seq(Type16) /\ Len(types) \in Type16
  BY DEF ProperNames
<1>4. Len(AnswerFor(host, types, isPointer)) <= DnsLen
  BY DEF ProperNames
<1> QED BY <1>2, <1>3, <1>4, QueryAnswered

\* A reply that reaches a client answers every question of its last query with the name that
\* was asked (captdnsRecv).
THEOREM NamesAreAnswered ==
  ASSUME ProperNames
  PROVE  Spec => []AnswersName
<1>1. RepliesToAsked => AnswersName
  BY QueriesAreAnswered DEF RepliesToAsked, AnswersName
<1> QED
  BY <1>1, RepliesMatch, PTL

=============================================================================
