# A TLA+ verification of RTLHTTPD

RTLHTTPD is the firmware of an RTL8710 WiFi module: a small web server
(`src/librtlhttpd`, a port of esphttpd to FreeRTOS and lwIP) with an example
application and a boot loader (`src/project`). This directory holds TLA+ models
of it, the TLC configurations that check them on small instances, and theorems
that TLAPS proves for every size. File and line references are to `src/`.

Run `tlc -config HttpdServer_tasks.cfg MCHttpdServer.tla` (and likewise for the
other configurations, each named after its module), and `tlapm` on each of the
proof modules: `HttpdServerProofs`, `SendPathProofs`, `HttpdRecvProofs`,
`WebsocketProofs`, `FlashUploadProofs`, `BootProofs`, `WifiScanProofs` and
`PortalProofs`.

## 1. Inventory

### The program

| Component | Source | State | Operations | Modelled in |
|---|---|---|---|---|
| Server task and sockets | `core/httpd-freertos.c` | `rconn[]`: fd, address, `needWriteDoneNotif`, `needsClose`; the lock `httpdMux` | one loop around `select()`: accept, sent/close branch, receive branch; `httpdPlatSendData`, `httpdPlatDisconnect`, lock and unlock | `HttpdServer`; the listening socket in `Portal` |
| Connections | `core/httpd.c` | `connData[]`: one `HttpdConnData` per client with its private and POST parts | `httpdConnectCb`, `httpdRecvCb`, `httpdSentCb`, `httpdContinue`, `httpdDisconCb`, `httpdRetireConn` | `HttpdServer` |
| Sending | `core/httpd.c` | send buffer of the running callback, chunk header, backlog, flags | `httpdSend`, `httpdEndHeaders`, `httpdFlushSendBuffer`, `httpdCgiIsDone`, `httpdConnSendStart/Finish` | `SendPath`, `ByteStream` |
| Receiving | `core/httpd.c` | head buffer, `post->len/buffLen/received` | the byte loop of `httpdRecvCb`, `httpdParseHeader` | `HttpdRecv` |
| Texts | `core/httpd.c`, `core/base64.c` | none | `httpdUrlDecode`, `httpdFindArg`, `httpdGetHeader`, base64 | `HttpdText` |
| Routing, authentication | `core/httpd.c`, `core/auth.c`, `user/http_server.c` | place in the route table | `httpdProcessRequest`, `cgiRedirect`, `cgiRedirectToHostname`, `authBasic` | `Portal` |
| Files and templates | `core/httpdespfs.c` | position in the file, token under construction | `serveStaticFile`, `cgiEspFsTemplate` | `StaticFiles` |
| File system | `espfs/espfs.c`, `espfs/mkespfsimage` | image in the flash, file handle | `espFsInit/Open/Flags/Read/Close`; the program that packs the image | `EspFs` |
| Compression | `lib/heatshrink` | windows, bit buffers, states of encoder and decoder | sink, poll, finish | `Heatshrink` |
| Websockets | `util/cgiwebsocket.c` | list of websockets, frame parser of each | handshake, `cgiWebSocketRecv`, `cgiWebsocketSend`, `cgiWebsockBroadcast`, `websockFree` | `Websocket`; their connection in `HttpdServer` |
| Firmware upload | `util/cgiflash_rtl.c` | page buffer, flash address, last erased sector | `cgiUploadFirmware`, `write_buffer`, `check_exclude_area`, `cgiRebootFirmware` | `FlashUpload`; the reboot in `Boot` |
| Boot loader | `rtl_boot_s.c` | image headers in the flash, system data, pins | choice of the image, loading of its segments | `Boot` |
| WiFi pages | `user/cgiwifi_rtl.c` | one scan result for all clients; the stored station | `cgiWiFiScan` and the driver's callback; connect, status, mode, `tplWlan` | `WifiScan`, `Portal`, `Pages` |
| Application | `user/http_server.c`, `user/cgi-test.c`, `user/main.c` | LED, counters, test data; a task that broadcasts every second | its pages, forms, route table, start-up | `Pages`, `Portal`, `StaticFiles`; the task in `Websocket` and `HttpdServer` |
| Captive DNS | `util/captdns.c` | its socket | packet in, packet out | `CaptDns`, with its task in `Portal` |
| Console | `console/wifi_console.c`, `console/atcmd_user.c` | WiFi settings | AT commands | not modelled |

Not part of the firmware, and not modelled: the ESP8266 code
(`httpd-nonos.c`, `cgiflash.c`, `cgiwifi.c`, `sha1.c`), what `project.mk` leaves
out (`user_init.c`, `wc_mgr.c`, the SPI and GPIO tests), heatshrink's own tests and
command line tool, `mkupgimg`, web pages and flasher scripts.

### How the parts interact

Four kinds of actors share the server's state.

* The *server task* runs everything in `httpd.c` as callbacks of its loop, each
  with the lock held.
* *Clients*, through lwIP, connect, send, close and reset at any time; what they
  do becomes visible only in `select()`, `accept()` and `recv()`.
* The *WiFi driver's task* fills the one scan result that all clients of
  `cgiWiFiScan` read, and takes no lock.
* *Other tasks* (the websocket broadcaster) send on a connection between
  `httpdConnSendStart` and `httpdConnSendFinish`, with the lock held; in between
  they may also run while the server task is blocked in `select()`.

A CGI function is called when a request is complete and then, as long as it
returns `HTTPD_CGI_MORE`, from the *sent callback*, which comes when the socket
is writable again after something was written. That notification drives
everything: the rest of a response, the backlog, and the close of a finished
connection.

### What is hard, and what correctness is

* Two tables with the same number of entries, linked only by the client's
  address: they must not drift apart over connects, failures and closes.
* A callback that does not find its connection, or finds somebody else's.
* State that a CGI has allocated must be freed by that CGI, also when the client
  goes away half-way.
* The sent callback must come whenever something waits for it.
* A response is buffered, cut into chunks, written, put into a backlog and
  drained, over several callbacks: bytes must stay in order, whole, framed, and
  within two fixed buffers.
* A request arrives in arbitrary pieces, with fixed buffers for head and body.
* What is served is packed on another machine, compressed or not, and unpacked in
  pieces whose ends have nothing to do with tokens, codes or words.
* A name, a redirect and a password lead to a page only if the DNS server, the
  route table and the text functions agree.
* The server overwrites the flash it is started from; the power may fail.
* `malloc()` fails: the module has some tens of kilobytes.

The hazards, each with its line and the properties that watch it, are listed in
`PROJECT.json`.

## 2. Plan

1. `HttpdServer`: server task, both tables, callbacks, CGI life. *Done*, with
   proofs.
2. `SendPath`, an implementation of `ByteStream`. *Done*, with proofs, the
   refinement included.
3. `HttpdRecv`: head and body. *Done*, with proofs.
4. `Websocket`: parser, list, broadcaster. *Done*, with proofs.
5. `FlashUpload`: pages, sectors, the excluded sector. *Done*, with proofs.
6. `Boot`, composed with `FlashUpload`: a crash at any write, then the boot loader
   over what is left. *Done*, with proofs of what the crash leaves in the flash.
7. `WifiScan`: one scan shared by several clients. *Done*, with proofs.
8. `Heatshrink`, `EspFs`, `StaticFiles`: from the file that is packed to the bytes
   that a client gets. *Done.*
9. `HttpdText`, `CaptDns`, `Pages`, `Portal`: from the name that is resolved to the
   page that is shown. *Done*, with proofs of its control.

Worth modelling next: messages of several websocket frames, and two uploads at once.

Abstract specifications: `ByteStream` (what a CGI is promised about sending). In
`StaticFiles`, `Boot` and `WifiScan` the reference is a function of the state
instead: the packed files and `Substituted`, the segments of the chosen image, the
list of one scan.

`HttpdServer` and `SendPath` are two views of the same connection: the first
keeps only how many packets wait in the backlog and whether a sent callback is
coming, the second what is in the packets. `HttpdRecv` is the view of the receive
callback, `StaticFiles` and `Portal` are views from the CGI functions. They are
kept apart because their product is out of reach for TLC and says nothing the
views do not: what they share (`disconAfterSent`, `chunked`, `cgi`, the last step of
`httpdCgiIsDone`) is modelled in each from the same lines.

## 3. The modules

### HttpdServer

`rconn`, `connData` are the two arrays, `sock` and `queue` what lwIP holds for
the clients, `task` is where the server task is and which sockets the last
`select()` returned and it has not looked at yet. Each step of the loop is an
action: `BuildFdSets` (top of the loop), `SelectReturns`, `Accept`,
`AcceptFails`, and for the slot that is next `WriteClose`, `WriteSent`,
`ReadData`, `ReadEnds`, `ReadNoBuffer`. A callback is one step, since it runs
with the lock held; the clients act between any two steps of the server, and
`AsyncSend` between any two callbacks, `select()` included.

What a CGI function does is a constant: `Replies` gives the possible results
(`MORE` or `DONE`, with or without something sent) of its first and later calls.
`Features` opens choices of the environment: failing `malloc()`, websockets,
failing `accept()`, requests with a body, and clients that reuse their address.
The contents of requests and responses are left out.

History variables: `cgiState` (a CGI has state behind `cgiData`) and the field
`made` (the socket a connection was created for). `lockLeft` is the lock as seen
between callbacks.

### SendPath and ByteStream

One connection and its send buffer. A *piece* is what one `httpdSend` was given;
pieces are numbered and only their lengths matter. A buffer is a record with its
length, pieces, the chunk header under construction, what the chunk header
claims and what is really there; `backlogSize` is `sendBacklogSize`, which the code
counts apart from the list it describes. `Send`, `EndHeaders` run inside a CGI;
`ReturnMore`, `ReturnDone` are its return with every flush that follows
(after `httpdProcessRequest` there are two); `SentBacklog`, `SentClose`,
`SentCgi` are the three branches of `httpdContinue`. `WriteOutcomes` lists what
may become of a packet: taken, put in the backlog, dropped because the backlog is
full, or left because there is no memory. The lengths of the HTTP framing (6, 2
and 5 bytes) are the real ones. `Spare` is what the model asks of a CGI: how
many bytes it leaves unused.

`ByteStream` is the promise to a CGI: what reaches the client is at any time the
first so-many of the accepted pieces. `SendPath` implements it with both variables
as they are: `wire` has the packets, `received` the pieces in them.

### HttpdRecv

The byte loop of `httpdRecvCb` over the bytes of whole requests, which TCP may
cut anywhere: since each byte is one step, the cuts do not matter to the result.
A request line or a header that the server interprets is one token, everything
else is a token per byte. `AddToHead` has the `\r` that is put before a lone
`\n`; `EndsHead` the search for the empty line; `BodyByte` the blocks handed to
the CGI, `Continue` and `Close` the sent callback. The CGI is free to be done or
not in every call, also before it has the whole body, and the sent callback may call
it at any time; that call does not empty the buffer (httpd.c:526-549), so it gives the
same bytes once more. The client may send a stray line behind a request at any time. The history
variable `loose` notes that a CGI did not wait for its body, or that a stray line came
behind a body or on a connection that is kept open: what is claimed then is less.
In the history `calls`, `again` notes any call after DONE and `stale` one without a new
lookup. `MaxGiven` bounds how often the sent callback repeats bytes.

### Websocket

`llStart` and `next` are the linked list; `next` keeps its value when a websocket
is freed, since that is what the broadcaster finds there if the memory was not
given to somebody else. `priv` is the parser of each, with the state numbers of
the code; `in` the bytes its client has sent, each known by the frame and the part
of the frame it belongs to. A call of `cgiWebSocketRecv` is a sequence of steps
with `seg` set, which is the lock: `Recv`, then `Header` for every byte of a head
and `Payload` for what the segment has of a payload, until `EndRecv` or `Done`.
Where the segment ends is decided on the way, so every segmentation is covered.
`Start`, `Check`, `Send`, `GoOn` are `cgiWebsockBroadcast`; only `Send` waits for
the lock. `fault` is set where the program uses memory that is not its own any
more: the broadcaster standing on a freed websocket, or data for a handler whose
websocket is gone. Nothing is claimed about what follows.

### FlashUpload

One upload. The byte of the image at offset k is the number k, so that the
contents of the flash tell which byte went where; a cell may also be as it was,
erased, or spoilt. `Call` is `cgiUploadFirmware` called with the next block of the
body, `Start` and `TakeBytes` are rounds of its loop, `WriteBuffer` is
`write_buffer` with the erases and the write in one step (the device lock is
held), `Answer` the response, `Abort` a client that goes away between two calls.
`pageData` is an array of words and two offsets into it are in bytes; `Copied` and
`Source` have the factor of 4.

### Boot

Extends `FlashUpload`: the device that is being uploaded to is reset, or loses its
power, and the boot loader reads what the upload has left. `Mem` translates the
byte numbers of `FlashUpload` into cells: of the old flash, of the new image, erased,
or junk. `Reset` happens between two steps of the server; `PowerFails` cuts
`write_buffer` in the middle: in one of the sectors that are erased for the page, which
is then junk, or behind some of the bytes of the page. `StartBoot` reads the pins and the address from the
system data, `LoadHead`, `Segment`, `EndOfImage` and `NoImage` are the rounds of
`loadUserImges` and `load_segs`, `Enter` is the check of the signature. `flashcpy`
reads aligned words, and copies accordingly at other addresses. Where the code reads
memory that nobody wrote (a header in erased flash, `load_result` on a warm start, a
signature from an earlier boot in the RAM), the result is a choice.

### WifiScan

`scanresult`, `ap_scan_state`, `aps` are the globals of `cgiwifi_rtl.c`; `driver` is
the scan that runs. A call of `cgiWiFiScan` begins with `ScanCallBegins` (or
`ScanNoMemory`) and ends with `StillScanning`, `SendAp` or `EndList`; the driver's
`ScanFound` and `ScanComplete` come between these, since it takes no lock. `overtaken`
is a history variable: the clients whose listing another one has ended.

### Heatshrink, EspFs, StaticFiles

`Heatshrink` has the encoder and the decoder as records and each function of the
library as an operator on them: sink, poll with a limited output buffer, finish, and
every state of both machines. A byte in between is a sequence of bits. `EspFs` packs
the files (`Image`, that is `mkespfsimage` with its choice of compression, gzip by
extension, fallback to uncompressed, padding) and finds and reads them (`FindFile`,
`OpenFile`, `ReadFile`). The image has one cell per byte; a header or a name is its
first cell and cells that stand for nothing, so that a walk that is off by a byte
finds no header. zlib is a constant: `deflated` is what it makes of a file.

`StaticFiles` has one request to one of the three functions that answer over several
calls, one action for the first call, one for a later one, one for the call that says
the connection is gone, and one for each allocation that fails. `sent` is what
`httpdSend` was given; `live` counts allocations. `FILE_CHUNK_LEN` is a variable that
keeps one of several values, so that every place of a file is cut.

### HttpdText, CaptDns, Pages, Portal

`HttpdText` translates the text functions: a text is the sequence of its characters,
a buffer is its size. `CaptDns` is `captdnsRecv`, from packet to packet, names with
pointers included; the two octets of a `ttl` that are never written are `Junk`. The loops of
both are folds of one pass (`Loop`): `ReadLabel` is a pass of `labelToStr`, `CopyChar` one of
`strToLabel`, `AnswerQuestion` one of `captdnsRecv`.
`Pages` has the texts of the application's templates and its LED.

`Portal` composes these. The device starts step by step (`StartUp`, and the tasks
for HTTP and DNS with their retries). A browser resolves a host (`SendQuery`,
`Resolved`, `Lost`), sends a request, is taken through the route table
(`StartRouting`, `TryNextRoute`, `RunCgi`, `CgiNotFound`, and `CgiNoMemory`, where a
function that cannot allocate is done without having sent anything, so that no sent
callback comes and the client waits for ever), and follows redirects, which may
lead to another host and so through the DNS server again. `Answers` gives what a
function replies: a status, a location, and what its tokens were replaced by, with
what the driver says as a choice. Forms are encoded as browsers do and decoded by
`httpdFindArg`; passwords go through base64 and `httpdGetHeader`. The constants
(hosts, parts of URLs, tables, visits, users) have their types as assumptions, and what
the proofs need beyond that, of the text functions and of the route tables, is stated at
the end of the module; `MCPortal` assumes all of it that TLC can evaluate.

## 4. The runs

Passing runs.

| Run | Instance | Shows |
|---|---|---|
| `server` (`HttpdServer_tasks.cfg`) | 2 slots, 3 clients, any CGI, websockets, failing `accept()`, every `malloc()` that the server task checks may fail | types; lookups find the right connection; CGI state has an owner; the lock is released; `accept()` has room |
| `server_close` | 1 slot, 2 clients, backlog of 2, 2 unread segments, bodies | the tables agree; liveness: a vanished client is released, a finished connection is closed, a response begun on a connection that is not marked to be killed ends, and only by DONE or because the client has gone |
| `send_order` | buffer of 24 bytes, pieces of 1 and 8 bytes, up to 5 pieces, a socket that may refuse any packet once | refinement of `ByteStream`; the last chunk is last and nothing is left at the close; everything accepted is sent |
| `send_shared` | the same with pushed data, a second request, failing `malloc()`, repeated refusals, up to 4 pieces | the bounds of both buffers and the framing of chunks hold all the same |
| `recv_request` | heads up to 16 tokens in a buffer of 24, POST buffer of 2, bodies of 0 to 5 bytes, both line ends, then up to two more requests or stray lines, a CGI that is done or is called at any time | for a CGI that waits for the body: one lookup per request, the whole body and nothing else given with the right counters; for any other, or behind a stray line: a call after DONE only by a new lookup, and no lookup in place of a CGI that is not done |
| `flash` (`Boot_upload.cfg`) | pages of 4 bytes, sectors of 8, blocks of 8, the third sector excluded; images of 0 to 21 bytes, aligned and unaligned starts, with and without erasing; stopped at any write; every selection of two pins and five addresses | the excluded sector is untouched, the flash is as asked, no byte is written or erased twice, no page is left begun; the boot loader starts the selected image, and ends; the default image survives any crash of an upload that does not meet it; a complete upload is what is started |
| `websocket` (`Websocket_mixed.cfg`) | 3 websockets, 2 of them broadcast to, one broadcast, two frames of any of seven kinds, cut anywhere | the list has every open websocket once; the parser stays in step; a pong is as long as its head says; a broadcast reaches everybody who stays |
| `files` (`StaticFiles_serve.cfg`) | 9 files, 4 command lines of `mkespfsimage` or no image, 6 lengths of a chunk, paths with and without a file | a file arrives as packed, with its type and encoding; a template with its tokens replaced; nothing leaks; every call gets further |
| `wifi` (`WifiScan_list.cfg`) | 3 clients, a list of 2, scans that find up to 3 | the driver writes only into memory that is there and nothing leaks; a list is exact; a scan ends |
| `portal` (`Portal_visit.cfg`) | two route tables, 5 hosts, 7 texts for each field of the form, 7 credentials, 4 sets of questions | every name is answered with the server's address; every visit ends with a page, unless a function had no memory to answer; a password is needed exactly where it is due; a form leaves what was typed and the LED's page agrees with the LED |

Runs with a counterexample: each states what a comment of the source says.

| Run | Property | What happens |
|---|---|---|
| `server_static` | `DoneIsClosed` | `serveStaticFile` on a file whose length is a multiple of 1025 is done without sending anything in its last call; on a response that is not chunked no sent callback comes and the connection stays open (httpd.c:486) |
| `send_overtake` | `InOrder` | pushed data is written while older data waits in the backlog (httpd.c:442, :509) |

### Bounds, and why they are enough

Every bound is a constant of its module. Two slots and three clients are the
least with which one client waits while the tables are full, a slot is freed and
taken by another, and two connections are handled in one round of the loop; the
theorems of section 5 hold for any number. One unread segment per socket
suffices for safety since a segment is handled by one callback whatever its
place. The send buffer of 24 bytes holds a chunk header, two or three pieces, a
CR LF and a last chunk, so that each of them can be the one that does not fit;
the backlog limit is one full buffer, so it is reached. Five pieces fill two
buffers and more. Bodies go from empty to two full POST buffers and one byte, heads to the
limit of their buffer.

For an upload, starts and lengths are such that a page ends before the excluded
sector, in it, at its end or behind it, and a cut-off page may be the last before, in
or behind it. The images at two places have two segments each, for the RAM, the
SDRAM and the flash, one with each kind of signature; the uploaded one takes the place of
either, or lies across. For websockets, two frames are what it takes for one to be parsed
with what another has left in the parser; three connections give a first, a middle
and a last entry of the list; one client talks, since the parsers share nothing.

The files are empty, of one byte, incompressible, compressible over several windows,
smaller and larger when deflated, and templates with every kind of token and one that does not
end; their names have every alignment. The chunks of 1, 4, 5, 15, 89 and 100 bytes
cut everything, and the 90 bytes of the longest file are one more than 89 and less than 100.
The levels of compression are those whose windows such files fill. With three clients of the scan two
can be in the middle of a list while a third ends its own; a scan of three is more than
the list holds. Names have one to four labels, of which two make an address;
buffers for forms and passwords are shorter than some of the texts, which have every
character that a form escapes.

The liveness run of the server has one slot: with two, TLC takes several minutes for
the same three properties. The slots are handled one after the other in each round,
and a round is finished before the next `select()`, so no slot can starve another.

### Fairness

* `HttpdServer`: `WF(Server)`: the server task runs above the tasks that use the
  server, and until `select()` blocks it has exactly one next step. Strong fairness of
  `select()` reporting a socket writable that is asked for again and again: a client
  that is connected acknowledges what it was sent; one that does not is closed by TCP
  (keep-alive is switched on). Strong fairness of a CGI being done: one that is called
  again and again comes to the end of its file or data, which `EachCallAdvances` shows
  for the functions of `StaticFiles`.
* `SendPath`: the same for `ReturnDone`, and weak fairness of the sent callbacks, which
  is what `HttpdServer` establishes.
* `Boot`: the boot loader runs on; the fairness of the steps that read the flash is written
  out with `[]<>`, since `ENABLED` of them takes TLC minutes. `WifiScan`: the driver's task runs, and a scan takes a
  bounded time. Nothing is assumed about clients.
* `Portal`: the tasks run, and their retries succeed in the end; a resolver asks again;
  a datagram that is sent again and again is answered at last, and the answer arrives at last. The last two
  conjuncts of `Fairness` are written with `[]<>` instead of `SF` and `WF`: the
  conditions under which the actions are enabled are named, which spares TLC the
  evaluation of `ENABLED`.
* No fairness of clients, of failures, of other tasks.

`server_close` takes CGI functions that send something in every call, as the
README's examples do; `server_static` shows why that matters.

## 5. The proofs

`HttpdServerProofs` proves, for every `MaxConn`, set of clients, `Replies` and
`Features` (the named assumptions of `HttpdServer` are all it uses):

* `TypesCorrect`, `CgiStateIsOwned`: `TypeInv` (types and `CgiStateOwned`
  together) is inductive as it stands. Lemmas give, callback by callback, what
  it does to the tables (`CallCgiTables`, `RecvCbTables`, `SentCbTables`,
  `DisconnectTables`, ...); `TablesUpdate` reduces them to one entry. A lookup
  returns an entry of the table by `FirstIsMember`, which takes the least
  element of a set of slots from the well-foundedness of inclusion on finite
  sets.
* `AcceptAlwaysHasRoom`: `RoomInv` adds to `AcceptHasRoom` the time at which it
  is decided, when `select()` is asked for new clients: only if an entry is
  closed, and nothing opens one until `accept()`.

assuming `NothingFails` (no `malloc()` failure, no reuse of an address whose
socket is open):

* `PoolsStayInStep`, `LookupNeverMisses`: `PoolsAgree` is not inductive, since it
  does not say how the tables are linked. `LinkInv` does: the
  address of a connection is that of its socket, addresses of open sockets are
  pairwise different and no waiting client has one; `TaskInv` says that the sets
  of the server task hold open sockets only. The step that needs a counting
  argument is `Accept`: `RoomInBoth` shows that a closed entry of `rconn` implies
  a free one of `connData`, by a pigeonhole argument on the injection from
  connections to open sockets.

and, assuming only `NoReuse` (any `malloc()` may fail at any time):

* `LookupIsRight`, `LockIsReleased`: the two tables need not agree any more. A
  failed `malloc()` of the POST part leaves an entry of `connData` without an address
  and an open socket without an entry. `LiveInv` is what is left of `LinkInv`: the
  addresses of open sockets are still unique (`AddrInv`); an entry *with* an address is
  that of the open socket it was made for, and one without was never told to a CGI
  (`NamedInv`), so no lookup returns it; and a socket that is marked for a sent
  callback has an entry, unless it is marked for closing too and so gets no sent
  callback (`MarkInv`). From this every callback that is made finds its own
  connection, and the path of a missed lookup, which keeps the lock, is not taken.
* `OthersAreUndisturbed`, an action property over the same invariant: the actions of the
  server task for one socket (`Serves`) leave the other sockets, their connections and
  the state of their CGIs as they were. Of `ReadNoBuffer`, which
  calls `httpdDisconCb` twice for one address, it takes that the second call finds nothing.

Why these assumptions: without them the theorems are false. A failed `malloc()` breaks
`PoolsAgree` as said, and a reused address gives two open sockets one lookup key.

`FlashUploadProofs` proves, for every size of flash, page, sector and POST block,
every place of the excluded sector, every start and every length (a page is not
larger than a sector, a POST block is a whole number of pages, the excluded area
is one sector, as in the code):

* `UploadTypes`: the types, among them that the position in the page stays within
  the page.
* `CalibrationIsSafe`: nothing in the excluded sector is ever erased or written.
  It is inductive given the types. `PartOutside` is the arithmetic of
  `check_exclude_area`: what is left of a page is on one side of the area.
  `SectorBefore` and `SectorBehind` carry that over to the sectors it is rounded
  to, from the fact that a sector starts at a multiple of its size
  (`SectorBounds`), and `ExcludedIsKept` puts them together.
* `PagesAreWhole`: no page is left begun between two calls, so the copy to
  `&pageData[pagePos]`, whose offset is four times too large, is only ever made
  with offset 0. `PageInv` strengthens it: what is still to be copied is what has
  not been sent plus what is left of the block, and a block that is not the last
  has whole pages (`BlockPages`, `PagesLess`).

* `OthersAreLeft`: a byte outside the sectors that the image meets is never changed.
* `BytesStay`: a byte that was written is not written or erased again, although
  the last erased sector is the only thing the code remembers. `PlaceInv` relates the
  flash address to what of the body was used, `ErasedInv` says that the last erased
  sector is that of the last byte, and still erased behind it, and `WrittenInv` that what
  is written ends where the upload stands. `ErasedFor` is the step: the sectors
  that are erased for a page are behind everything that is written.
* `UploadIsRight`: once an upload is answered the image is in the flash, outside the
  excluded sector, and nothing else is changed. It assumes `NoPageStraddles`: no
  start puts the end of the excluded sector inside a page. For such a start it
  is false, see section 6. `AlignedUploadIsRight` shows that the condition holds
  where a sector has whole pages and an upload starts at a sector, as on this flash
  and with its web page. `ImageInv` says that each byte before the current place is
  what the image has there.

`BootProofs` carries these over to the whole device, `DeviceSpec`, where the server may
be reset between any two steps, or lose its power in the middle of `write_buffer`:
`DeviceTypes`, `CalibrationSurvives`, `OthersSurvive`, `DevicePagesAreWhole`,
`BytesSurvive` and `DeviceFlashIsRight` (with `NoPageStraddles`). A step of the device
is one of the upload, a stop of the server, a stop in the middle of a page,
or leaves the upload alone (`DeviceSteps`); `PageTorn` says of the third what a torn page is:
every cell is as it was, or erased or spoilt if it was to be erased, or written as it
was to be written; and `NothingGoesOn` that the invariants of an upload hold
when there is none.
`OtherImageSurvives` is what `DefaultSurvives` needs of the flash: an image that begins
with a sector, and whose sectors the upload does not meet, is byte by byte what it was,
wherever the upload was cut off. That the boot loader then starts it is a
computation over that image (segments, by recursion), and left to TLC.

`SendPathProofs` proves, for every size of buffer and backlog:

* `SendTypes` and `BacklogIsCounted`: without further conditions, the backlog has as
  many bytes as `sendBacklogSize` says, and not more than its limit. To count bytes
  without recursion, a backlog has a finite set of them, one pair of a packet's
  number and an offset for each byte (`BytesOf`); `SizeAppend` and `SizeTail` say
  how its cardinality changes.
* `PacketsAreFramed`, assuming `RoomForFraming`: CGI functions leave room for a CR LF
  and a last chunk, which is less than the buffer, and the buffer is less than 64 KiB, since
  the header of a chunk has four digits. `FrameInv` says what is in the buffer while a CGI
  runs, and that every packet behind it, in the backlog or on the wire, is `Framed`. Pushed
  data, pipelined requests, failing `malloc()` and refused packets are all allowed.
* `ResponsesEndWhole` and `ImplementsByteStream`, the refinement, assuming also
  `OneCallbackAtATime`: nothing is pushed, nothing is pipelined, no packet is
  refused twice, no `malloc()` fails (`Features = {}`), and a full buffer fits the backlog, as
  it does with the code's 2048 and 4 * 1024 (`httpd.h:19`, `:26`). `OrderInv`: the pieces
  on the wire, then those of the one packet in the backlog, then those in
  the buffer, are 1, 2, 3, ...; `LastInv`: where a last chunk may be. Without the
  condition they are false, as `send_overtake` shows.

`HttpdRecvProofs` proves, for every size of the two buffers, every set of requests, any
number of requests and stray lines on a connection and every CGI, whether or not it waits
for its body:

* `RequestTypes` and `NoStaleCall`, without hypotheses. `Sound` is what holds whatever comes
  in: `conn->cgi` is set exactly as long as a CGI that was called is not done, so a call
  after DONE is a new lookup, with `cgiData` NULL.
* `OneLookup`, `WholeBodyArrives` and `DoneIsDone`, with one hypothesis about the outside,
  `HeadsFit` (each head fits the buffer, with the `\r`s that are put in). They say what
  happens as long as the history is not `loose`; `DoneIsDone` says also that a call after DONE
  has one of the causes `loose` notes. `TightInv` is `Phases` for
  a history that is not `loose`.

`Phases` has one part for each phase of a request: in `HeadPhase` the head that is
stored is the beginning of the head of the request with normalised line ends, and the input
is the rest of it; `BodyPhase` relates the four counters of `post` to what is left of
the input and what the CGI was given; in `AnswerPhase` and `DonePhase` all of the body
was given, once. The long part is that the end of the head is found where it is and nowhere
before: `LaidOut` says which token stands where in a request, whatever lines it has,
`LinesEnd` where line ends can be, and `NextOfCrLf` and `NextOfLf` compare the
head that is stored, byte by byte, with the one that was sent.

`WebsocketProofs` proves, for every finite set of websockets, every number of broadcasts
and every set of frames, without further conditions (the model ends with a
`fault`):

* `WebsocketTypes`, and `PongsAreWhole`: `Pongs` says of every websocket that what the head of
  a pong has announced and was not sent yet is what its parser still expects of the ping.
* `ListStaysWhole`: `Chained` says that there is a sequence of all open websockets, each
  once, that `llStart` and `next` follow (`LinkedBy`). `LinkLast` and `LinkLess` are
  `cgiWebsocket` and `websockFree` as operations on that sequence.
* `EveryoneIsReached`: the broadcaster stands on a websocket without the lock, while
  others come and go. `Reached` (no set that is closed under `next` and contains the head
  misses an open websocket) survives every change of the list; `Walks` says that what the broadcaster
  has not reached yet is ahead of it.
* `ParserStaysInStep`: `Streams` relates the parser of each websocket to its input: the rest
  of the frame it is in, from the byte it expects, and then whole frames (`InStep`,
  `Whole`). `ExtInStep`, `MaskInStep`, `DataInStep` and `FlagsInStep` are the four places
  in a frame.

`WifiScanProofs` proves, for every number of clients, every length of the list and any
number of scans: `WifiTypes`; `MemoryIsKept`, by `Memory` (a driver that has a buffer has
the one that is allocated, and is in a scan; at most one call is under way, and a result
is there as long as it is); and `ListsAreWhole`, by `Buffer` (the list is as much of what the
scan finds as was reported and fits) and `Middle` (a client whose list nobody else has
ended was sent exactly the entries before its position, of the list that is still
there).

`PortalProofs` proves, for every set of hosts, users, texts, questions and route tables:

* `VisitTypes` and `LedPageIsRight`, without further conditions. `StartInv`: the
  pin of the LED follows its state from the third step of the start on, and no request is
  taken before the last. `DatagramInv`: what is on its way belongs to the last query,
  also after a redirect to another host.
* `PasswordGuards`, and `PasswordGuardsState`, the same for what the functions behind a password
  change. `OnlyWithPassword` speaks of the end of a visit; the invariant `AccessInv` follows
  the walk through the table: the route that is tried matches the URL (`MatchInv`), every
  password asked for on the way to it was given (`RouteInv`), and the station is set
  without one only if the table has none (`SettingsInv`). The step that needs work is
  `authBasic`: `PasswordCheck` says that it lets a client pass exactly when its
  credentials are those of a user. `HeaderFound` is `httpdGetHeader` on the lines a browser
  sends, `LoginFound` the decoder on what is behind `Basic `, `LoginParts` and
  `SameLogin` the comparison with the texts that `snprintf` puts together, which decides only
  because no name has a colon in it.
* `FormsAreKept`: the form that was sent is in the stored station, or in the LED, until the
  visit ends. `FormsDecode` says that `httpdFindArg` finds each field with its value:
  in the text of a form (`IsLine`) a field starts wherever one may start, and a name is at a
  start only if it is that field's (`ArgHere`).
* `Base64RoundTrip` and `FormRoundTrip`, which these rest on: for every text, the decoder undoes
  what the encoder did, or says that there is no room. Both sides are loops (`Loop` in
  `HttpdText`), and the induction is over the passes (`AllPasses`: the least
  pass after which something does not hold): `LoopRuns` names the state after each
  pass, `EncoderAt` and `Writes` say what the encoder has put out after n characters,
  `Follows` and `Unescaped` where the decoder is once it has read that.
* `QueriesAreAnswered`: `captdnsRecv` answers any query for a name as `AnswerFor` says, from the
  bytes of the packet to the bytes of the reply. The proof goes through the three loops of the
  code. `NameRead` and `PointerRead`: what `labelToStr` returns for a name that `Holds` at a place
  of the packet, or for a pointer to it (`Laid` says where its labels are, `Reads` what was read
  after n of them). `NameWritten`: `strToLabel` takes the text apart into the same labels, since
  none of them has a dot. `AllAnswered`: after n questions the place is behind the n-th,
  the records are those of the first n, and they were counted (`After`). `QueryTaken`: the
  query is not `Ignored`, and its header says how many questions there are.
* `NamesAreAnswered` follows with the lemma `RepliesMatch`: the reply that reaches a client answers all
  questions of its last query.

The hypotheses are stated in `Portal`, and `MCPortal` assumes them, so that TLC has evaluated
them for everything that occurs in the run:

* `ProperNames`: names have labels of 1 to 63 characters without a dot, which DNS asks of
  them, and the reply to what is asked fits `DNS_LEN`. The code checks neither: the length
  check of `strToLabel` is commented out (captdns.c:167).
* `ProperLogins`: no colon in a name, which HTTP asks of a browser, and users that
  fit the buffers of `authBasic` (auth.c:21), which cuts others.
* `ProperForms`: the fields of a form have distinct names of letters and digits.
* `GuardedTables`: in a table the password for a URL stands before all functions for that URL
  but redirects, and `connect.cgi` is below a password if anything is. Its quantifier over
  all URLs is too much for TLC, but `ShippedAreGuarded` proves it for the tables
  of this application: `WifiPagesAreGuarded` has only `ShippedTables` instead, that every
  table is `builtInUrls`, or has the two routes of a captive portal before it.
* `FormsReach`: a form is sent to an address, the field of the LED is a digit, and no
  other route matches where the forms go.

Only model-checked:

* All liveness, since TLAPS does not reason about fairness: `GoneIsReleased`, `DoneIsClosed`,
  `ResponseCompletes`, `AllIsSent`, `EachCallAdvances`, `BootEnds`, `ScanEnds`, `VisitEnds`.
* `BootsSelected`, `DefaultSurvives`, `UploadedBoots`: what `loadUserImges` loads is a function of
  two arguments, recursive over the segments of an image in the flash, and what it is compared
  with a fold over the segments that were uploaded. The provers have no functions of two arguments.
* `StaticFiles`, `EspFs` and `Heatshrink`: they use `RECURSIVE` operators. What a compressor or
  a walk over an image computes is checked against its reference on the inputs of the run.
* What the functions in `HttpdText` and `CaptDns` make of texts and packets that no browser or
  resolver would write: not even on the inputs of the run (see section 6).

## 6. Limits

### What the code does not keep

Met while modelling. The first three happen in passing runs, whose properties say as much;
the others are outside their conditions, though the modules can express the next two
(`Starts`, `Features`).

* A CGI that is done before the whole body has come, or whose client sends bytes behind the
  body of a request, is called again after DONE for these, from the start
  (httpd.c:825-845), although the library's README says (line 256) that it is not; a CGI
  that sends before it has the body gets what is in the buffer once more
  (httpd.c:526-549). `CalledAgainOnlyAnew` says that this is all: it is looked up
  anew and never meets state it has freed.
* A further request on a chunked connection is taken, although the connection is marked to be
  killed (httpd.c:477-487, with an `else` that is commented out). A response to it that
  takes several calls is cut off by the next sent callback (httpd.c:519-523).
  `ResponseCompletes` is about connections that are not marked.
* A CGI function that has no memory, and is done without having sent anything
  (httpd.c:354, cgiwifi_rtl.c:271), leaves the client without an answer and its
  connection open, until the client gives up.
* For starts from which a page meets the end of the excluded sector inside, the part
  behind the sector is taken from the wrong place, because the offset is counted in
  words (cgiflash_rtl.c:118).
* A backlog packet that the socket refuses a second time is lost (httpd.c:511); a client
  that reuses its port before its dead socket is closed finds the old connection
  (httpd.c:122); data pushed while `select()` waits for other sockets stays in the backlog.
* Heads longer than their buffer, and CGI functions that leave fewer than seven bytes
  of a chunked send buffer free, break the bounds of the buffers.
* The scan: a client whose listing another one ends gets the rest of a new scan, or
  a list that breaks off; a scan the driver refuses leaves "in progress" for ever
  (cgiwifi_rtl.c:449). `cgiWiFiScan` does not ask whether its connection is gone, and
  goes on with the list for nobody.
* `cgiWiFiConnect` stores the uncut length of a password it has cut (cgiwifi_rtl.c:285)
  and connects to nothing, so that `connTryStatus` never leaves its first state.
* `cgiLed` without its field sets the LED from a buffer nobody wrote
  (http_server.c:55); a POST to the test page leaves its state allocated, and a negative length
  sends what the buffer held (cgi-test.c).
* DNS: the root name is misread; a loop of pointers, or a result that is full, keeps the
  task from ending (captdns.c:134); half of a `ttl` is never written (:234, :251).
* `authBasic` terminates the decoded text behind its buffer when it fills it, and
  subtracts too much from a header shorter than six characters (auth.c:37).
* heatshrink: with the smallest settings the last token can get lost; with a look-ahead
  as long as the window the encoder does not progress. The builder of the image
  uses neither. It writes one byte into an empty allocation for an empty file
  (mkespfsimage/main.c:211).
* The boot loader trusts a header whose end wraps around the address space and reads one
  pair behind its table (rtl_boot_s.c:415); images have no checksum, so one that was
  cut off behind its first page is loaded when it is selected.

### Not modelled

* Console commands: each copies arguments into settings in one step; the parser and
  the driver are in the SDK. One of them decides the security mode by the length of the
  previous password (wifi_console.c:36).
* Register initialisation in the boot loader, the debugger's constants, the SDK's
  wrappers, the uptime counter (not started), `cgiWiFiSetApSSID` (not routed), `mkupgimg`,
  and walking directories on the build host.
* A failing `malloc()` in `httpdConnSendStart`, where the caller goes on with
  the old pointer, and those whose result the code does not check: the private part of a
  connection in `httpdConnectCb` (httpd.c:901), the decoder of a compressed file
  (espfs.c:175) and the state of the test page (cgi-test.c:40). The models do not have
  the contents of memory.
* Of websockets: the headers of the handshake, `malloc()` failures in it,
  `WEBSOCK_FLAG_MORE` and messages of several frames, the code of a close frame,
  and a broadcast between the two parts of a pong.
* Of uploads: missing headers, two uploads at once, a flash that fails without losing
  its power.
* Multipart boundary and CORS token: stored and read back only.
* A body whose buffer could not be allocated, a negative `Content-Length`: the
  code writes through a null pointer, or waits for a body that has no end.
* A blocking `write()`: lwIP is taken to return.
* Malformed DNS packets, and flash contents with headers that nobody wrote: there the
  code reads outside its data.
