----------------------------- MODULE WifiScan -----------------------------
(***************************************************************************)
(* The list of access points (cgiWiFiScan): one scan result for all        *)
(* clients, filled by the WiFi driver's task while the server task sends   *)
(* it, one access point a call.                                            *)
(***************************************************************************)
EXTENDS Naturals, Sequences, FiniteSets

CONSTANTS
  Conns,       \* the connections, one request each
  MaxAps,      \* AP_SCAN_LIST_SIZE
  MaxFound,    \* the most access points a scan finds
  None

ASSUME ApsAssumption == MaxAps \in Nat \ {0} /\ MaxFound \in Nat /\ None \notin Nat

VARIABLES
  scanresult,     \* the number of the scan whose buffer is allocated, or None
  ap_scan_state,  \* 1 while a scan is under way
  aps,            \* the first ApNum records of the buffer
  scans,          \* how many scans were started
  driver,         \* [buf, todo]: the buffer of the scan that runs and what it will still report
  found,          \* scan -> what it reports in all
  calls,          \* conn -> [phase, gone, pos, body]
  overtaken,      \* the connections whose listing another one ended, or that found no memory
  blocks          \* how many blocks of the heap the function holds

vars == <<scanresult, ap_scan_state, aps, scans, driver, found, calls, overtaken, blocks>>
scanVars == <<scanresult, ap_scan_state, aps, scans, driver, found>>

Idle == [buf |-> None, todo |-> <<>>]
ApNum == Len(aps)

Init ==
  /\ scanresult = None /\ ap_scan_state = 0 /\ aps = <<>> /\ scans = 0
  /\ driver = Idle /\ found = <<>>
  /\ calls = [c \in Conns |-> [phase |-> "none", gone |-> FALSE, pos |-> 0, body |-> <<>>]]
  /\ overtaken = {} /\ blocks = 0

-----------------------------------------------------------------------------
(* The driver's task: ap_scan_result_handler *)

\* Mutants.
AfterScanIfRoom(full) == IF full THEN ap_scan_state ELSE 0
SeparatorAlways(pos) == ","

Stored(record) == IF ApNum < MaxAps THEN Append(aps, record) ELSE aps

ScanFound ==
  /\ driver.todo # <<>>
  /\ aps' = Stored(Head(driver.todo))
  /\ driver' = [driver EXCEPT !.todo = Tail(@)]
  /\ UNCHANGED <<scanresult, ap_scan_state, scans, found, calls, overtaken, blocks>>

\* The report of completion carries no access point: full says whether one would fit.
AfterScan(full) == 0

ScanComplete ==
  /\ driver.buf # None /\ driver.todo = <<>>
  /\ ap_scan_state' = AfterScan(ApNum = MaxAps)
  /\ driver' = Idle
  /\ UNCHANGED <<scanresult, aps, scans, found, calls, overtaken, blocks>>

-----------------------------------------------------------------------------
(* The server's task: cgiWiFiScan *)

\* The server task is in no call.
TaskFree == \A c \in Conns : calls[c].phase # "call"

\* httpdSend: nothing is sent on a connection that is gone.
Sent(call, pieces) == IF call.gone THEN call.body ELSE call.body \o pieces

Done(c, pieces) ==
  calls' = [calls EXCEPT ![c].phase = "done", ![c].body = Sent(calls[c], pieces)]

\* The result of wifi_scan_networks is not looked at: the driver may have refused.
StartScan ==
  /\ scans' = scans + 1
  /\ scanresult' = scans'
  /\ ap_scan_state' = 1
  /\ aps' = <<>>
  /\ \/ /\ \E n \in 0..MaxFound :
             /\ found' = Append(found, [k \in 1..n |-> <<scans', k>>])
             /\ driver' = [buf |-> scans', todo |-> found'[scans']]
     \/ /\ found' = Append(found, <<>>)
        /\ driver' = Idle

\* The call is made for the first time, when what was sent has left, or to say that the
\* connection is gone, which the function does not ask.
Called(c, aborted) == calls[c].phase = "more" \/ (calls[c].phase = "none" /\ ~aborted)

ScanCallBegins(c) ==
  /\ TaskFree
  /\ \E aborted \in BOOLEAN :
       /\ Called(c, aborted)
       /\ calls' = [calls EXCEPT ![c].phase = "call", ![c].gone = aborted]
  /\ IF scanresult = None
     THEN StartScan /\ blocks' = blocks + 2
     ELSE UNCHANGED scanVars /\ blocks' = blocks + 1
  /\ UNCHANGED overtaken

\* No memory: for the text buffer, or for the result of a scan.
ScanNoMemory(c) ==
  /\ TaskFree /\ Called(c, FALSE)
  /\ Done(c, <<>>)
  /\ overtaken' = overtaken \cup {c}
  /\ UNCHANGED <<scanVars, blocks>>

Opening(pos) == IF pos = 0 THEN <<"APs">> ELSE <<>>
Separator(pos) == IF pos + 1 = ApNum THEN "" ELSE ","
Listing(pos) == pos < ApNum

\* Mutant: a scan under way does not keep a client that left from freeing the result.
StillScanningFrees(c) ==
  /\ calls[c].phase = "call" /\ ap_scan_state = 1
  /\ Done(c, <<"inProgress">>)
  /\ scanresult' = IF calls[c].gone THEN None ELSE scanresult
  /\ blocks' = blocks - (IF calls[c].gone THEN 2 ELSE 1)
  /\ UNCHANGED <<ap_scan_state, aps, scans, driver, found, overtaken>>

StillScanning(c) ==
  /\ calls[c].phase = "call" /\ ap_scan_state = 1
  /\ Done(c, <<"inProgress">>)
  /\ blocks' = blocks - 1
  /\ UNCHANGED <<scanVars, overtaken>>

\* The place in the list moves on if httpdSend took the text; a connection that is gone
\* is not called again.
SendAp(c) ==
  LET call == calls[c]
      ap == <<[record |-> aps[call.pos + 1], sep |-> Separator(call.pos)]>>
  IN /\ call.phase = "call" /\ ap_scan_state = 0 /\ Listing(call.pos)
     /\ calls' = [calls EXCEPT ![c].phase = IF call.gone THEN "done" ELSE "more",
                               ![c].pos = IF call.gone THEN @ ELSE @ + 1,
                               ![c].body = Sent(call, Opening(call.pos) \o ap)]
     /\ blocks' = blocks - 1
     /\ UNCHANGED <<scanVars, overtaken>>

\* The end of a list frees the result, whoever else is in the middle of it.
EndList(c) ==
  LET call == calls[c]
  IN /\ call.phase = "call" /\ ap_scan_state = 0 /\ ~Listing(call.pos)
     /\ Done(c, Opening(call.pos) \o <<"]">>)
     /\ scanresult' = None
     /\ blocks' = blocks - 2
     /\ overtaken' = overtaken \cup {d \in Conns : calls[d].phase = "more"}
     /\ UNCHANGED <<ap_scan_state, aps, scans, driver, found>>

Next ==
  \/ ScanFound \/ ScanComplete
  \/ \E c \in Conns : \/ ScanCallBegins(c) \/ ScanNoMemory(c)
                      \/ StillScanning(c) \/ SendAp(c) \/ EndList(c)

\* The driver's task always gets to run, and a scan takes a bounded time.
Spec == Init /\ [][Next]_vars /\ WF_vars(ScanFound) /\ WF_vars(ScanComplete)

-----------------------------------------------------------------------------
(* Properties *)

\* The driver only writes into a buffer that is still allocated, and only into its own:
\* no call of cgiWiFiScan frees or replaces it under the driver, aborted ones included.
DriverHasBuffer == driver.buf \in {None, scanresult} /\ ApNum <= MaxAps

\* What a scan found, up to the room in the list, with the separators JSON wants.
Listed(scan) ==
  LET n == IF Len(found[scan]) < MaxAps THEN Len(found[scan]) ELSE MaxAps
  IN [k \in 1..n |-> [record |-> found[scan][k], sep |-> IF k = n THEN "" ELSE ","]]

\* A client that was neither cut off nor overtaken by the end of another client's listing
\* gets "in progress" or the complete list of one scan, never a part or a mixture of two.
ListIsExact ==
  \A c \in Conns : calls[c].phase = "done" /\ ~calls[c].gone /\ c \notin overtaken
    => \/ calls[c].body = <<"inProgress">>
       \/ \E scan \in 1..scans :
            calls[c].body = <<"APs">> \o Listed(scan) \o <<"]">>

\* Between its calls the function holds no memory but the result of the scan, on whatever
\* path the call ended.
NothingHeld ==
  blocks = Cardinality({c \in Conns : calls[c].phase = "call"})
           + (IF scanresult = None THEN 0 ELSE 1)

\* The memory of the function is kept as long as someone uses it, and no longer.
\* (cgiWiFiScan, ap_scan_result_handler)
MemoryKept == DriverHasBuffer /\ NothingHeld

\* A scan that the driver took on ends, and then clients get a list again.
ScanEnds == (driver.buf # None) ~> (ap_scan_state = 0)

=============================================================================
