# A verification project for the ESP8266 WiFi manager

TLA+ models of the programs under `src/components/wifi-manager` and
`src/main`, the TLC configurations that check them on small instances, and
theorems checked by TLAPS. Line numbers below refer to the files of
`src/components/wifi-manager/src` unless a path is given.

Contents: [the system](#the-system), [modules](#the-modules),
[runs](#the-runs), [fairness](#fairness), [what the runs show about the
code](#what-the-runs-show-about-the-code), [proofs](#proofs),
[what is not modelled](#what-is-not-modelled), [plan](#plan).

## The system

The device joins a WiFi network with a configuration kept in flash. When there
is none, or when the network cannot be joined, it opens an access point with a
web page ("the portal") on which a user enters nine groups of settings. Once
it has an address it starts a client that reports to a server over http, can
be told by that server to upgrade its firmware, and keeps a log in flash that
it hands over to the server on request.

Everything runs as FreeRTOS tasks which share queues, event groups and plain
global variables.

| Component | Source | State it keeps | Operations |
|---|---|---|---|
| connection manager | `manager.c` | queue of three messages, event group (7 bits), retry counter and timer, copy of the configuration, address string, json buffers | 13 message handlers of the task `wifi_manager`, `wifi_manager_event_handler` (event task), retry callback (timer task), public `wifi_manager_send_message`, `_scan_async`, `_connect_async`, `_disconnect_async`, `set_callback` |
| configuration portal | `http_app.c` | the server handle, the body buffer, the urls | start, stop; in the httpd task nine `POST`s, `GET /ap.json`, `GET /connect`, the pages and the redirection |
| setup page | `../ui/code.js` | the page shown, a count of answers, a timer | `createSetup`, `connect`, `timeout` |
| configuration storage | `storage.c`, `flashrw.c` | nine json files, `wifi_manager_config` | save one file, load all, erase all |
| http client | `http_client.c` | order queue, send queue, the library handle, `HC_STATUS_OK`, `HC_WIFI_OK`, `error_count`, the response buffer and its length | order task, send task, `http_client_handler` in both, `cb_wifi_connect`, `cb_wifi_lost`, `cb_ota_finish`, `http_client_send_message` |
| flash log | `flash.c` | the log file, a queue, a ready bit | `FLASH_LOGE/W/I`, `read_flash_log`, `clear_flash_log`, the flash task |
| firmware upgrade | `ota.c` | the file name, the finish callback | `ota`, `firmware_upgrade`, its task |
| DNS hijack | `dns_server.c` | a task handle, the number of a socket | start, stop, the socket loop, parse a request, answer |
| time client | `ntp_client.c` | the clock | wait for the time, log it |
| json printer | `json.c` | none | escape a string |
| callback list | `cb_list.c` | a linked list | add, run |
| file system mount | `spiffs.c` | none | mount |
| example application | `../../../main/example_wifi_manager.c` | none | `main_task` asks for the log when the client is active |

How they interact:

* **Queues with unlimited waits.** Every `xQueueSend` of the repository uses
  `portMAX_DELAY`. The manager's queue of three is fed by the event task, the
  timer task, the httpd task, the application and the manager itself; the order
  queue of the http client by the manager and by the client's two tasks; the
  queue of the flash log by whoever logs; the send queue by the application and
  by the flash task.
* **Callbacks.** The manager runs, at the end of a handler, the callback
  registered for the message: `cb_wifi_connect` for `WM_ORDER_HTTP_CLIENT_INIT`,
  `cb_wifi_lost` for five others (478-484). The http client in turn runs lists
  of ready and not-ready callbacks, which set the ready bit of the flash log.
* **Event groups.** The event task publishes the state of the link at once, in
  the bits; the manager hears of it later, from its queue.
* **Shared memory.** The configuration structure and the nine files are shared
  by the httpd task and the manager without a lock; the json buffers are
  guarded by a mutex; the handle, the response buffer and its length are shared by
  the two tasks of the http client, and the name of the firmware file with the
  upgrade; the body buffer and the urls of the portal belong to the manager task,
  which frees them, and are used by the httpd task.
* **Sockets.** The portal, the hijack and every other task draw numbers from one
  small table of lwip, and a number that was closed is given out again.

What is hard: short queues that their own consumer sends to; messages that
report a state which has changed again by the time they are handled; a bit that
two tasks write; a handle that one task frees while another has decided to use
it; files that are truncated before they are written, read while they are, and
cut by a power failure; retry counters that several events reset; tasks that
wait for each other in circles; tasks that are deleted wherever they are;
buffers whose length one task keeps and another fills. `PROJECT.json` lists these hazards at their
lines with the properties that watch over them.

### What makes each component correct

* Connection manager: the device is never at rest out of reach (linked,
  linking, or the portal served); the portal opens after the documented number
  of attempts; what the address string says follows what the bits say; the scan
  bit is cleared; the task never waits for itself.
* Portal, page and storage: what is loaded is what one setup saved; an
  incomplete configuration is not used and does not keep the device from
  booting; the page stops waiting, and the failure it shows is final. The text that is saved is the body that was
  posted; a request is answered once; what the handler uses is there while it
  does; a stop comes to an end and leaves nothing behind.
* Http client: the status bit means that there is a handle; a reconnection is
  never forgotten; the rest of the program is told; a client with WiFi connects.
* Flash log: a record leaves the file only after it has been offered to the
  send queue; whoever logs goes on.
* Responses and upgrades: the application gets the response to its request;
  nothing is written where the heap is not ours; one upgrade at a time, of the
  file that was named; the status bit comes back after it.
* DNS hijack: a phone that asks for a name finds the portal; no socket of another
  task is closed and none is left behind.
* Texts: the list has every network once, with its strongest signal, and can be
  read; the passes of the json printer agree; the ip information fits its buffer.

## The modules

| Module | Models | Checked as |
|---|---|---|
| `WifiManager` | `manager.c` with the httpd handlers that concern it; the driver as environment | `MCWifiManager` |
| `LinkFeed` | abstract: what the manager promises about the link | refined by `MCWifiManager` |
| `WifiClient` | `WifiManager` and the callbacks of the http client that the manager task runs | `MCWifiClient` |
| `HttpClient` | `http_client.c`, both tasks and the handler; the library as environment | `MCHttpClient` |
| `Response` | the body of a response in `http_client_handler`, `ota.c` | `MCResponse` |
| `Setup` | configurations on their way from the page through `http_app.c` and `storage.c` to the manager | `Setup`, `MCSetup` |
| `FlashLog` | `flash.c`, the tasks that log, the send task | `FlashLog` |
| `PortalBase` | the calls of the manager that start and stop the portal, the sockets of lwip | in `Portal` |
| `HttpServer` | `http_app.c`: start, stop, the handlers with the body buffer | in `Portal` |
| `DnsServer` | `dns_server.c`: start, stop, the socket loop | in `Portal` |
| `Portal` | `HttpServer` and `DnsServer` over the same sockets and the same manager task | `MCPortal` |
| `ApList` | `wifi_manager_filter_unique` and the text of the list | `MCTexts` |
| `JsonText` | `json.c`, the text of the ip information | `MCTexts` |
| `DnsReply` | `parse_dns_name`, `parse_dns_request` | `MCTexts` |
| `Layout` | where the parts of a text or a packet are, one behind the other | in `JsonText`, `DnsReply` |
| `Budget` | how often the clients and the other tasks act, in `MCWifiManager` and `MCWifiClient` | in both |
| `WifiManagerProofs` | theorems about `WifiManager` | TLAPS |
| `LinkProofs` | theorems about `WifiManager`, `WifiClient` and their `MC` modules | TLAPS |
| `HttpClientProofs`, `ResponseProofs`, `PortalProofs`, `SetupProofs`, `FlashLogProofs` | theorems about the module of that name | TLAPS |
| `TextProofs` | theorems about `ApList`, `JsonText`, `DnsReply` | TLAPS |

The `MC` modules add budgets for what comes from outside and history variables
for the exceptions which properties name; the configurations `X_y.cfg` are those
of run `y`.

**WifiManager.** A handler of the task is one action up to the next point at
which the code can block (a send to the queue, the json mutex, `httpd_stop`)
and one more for what follows; `mpc` says where the task is, `msg` which
message it is handling and `out` what it is about to send. `bits` is
`wifi_manager_event_group`, `ux` the copy a handler takes of it, `hand` the
message that the event task has put together and not yet sent, `evq` the events
of the default event loop. `link`, `mode`, `scanning` and `drv` are the driver,
which may do at any time whatever the calls of `manager.c` allow: join or fail,
lose the link, end a scan. `saved` is all that survives `Restart`: no files,
files that parse, or files with a key missing. Texts (the list of access points,
the ip information) are in `ApList` and `JsonText`, the mutex around them is here.

**LinkFeed** is a FIFO of published link states. The refinement mapping takes
the `CONNECTED` bit as what is published, the address string as what is shown, and
as what is on its way the history variable `unshown` of `MCWifiManager`: the event
task appends a state to it where it writes the bit, a handler of the manager takes the
oldest where it writes the address string, and a restart empties it. That `unshown` is
what the link messages in the queue and in the hand of the event task carry, in their
order, is an invariant (`FeedInv` in `LinkProofs`).

**WifiClient** adds `HC_WIFI_OK` and the callback, which the manager task runs
after the handler and before it receives again.

**HttpClient** has a program counter for each task and, for each of the two, what
the event handler is doing in it (`hev`): the handler runs inside the library
call, sleeps five seconds in it and sends orders from it. `Perform` is
`esp_http_client_perform`: any result, any one event that this code reacts to.
A null handle is a crash, that is, a restart (`MustRestart`).

**Setup** numbers the files in the order in which they are loaded. What a file
holds is the setup it came from, so that a mixture of two setups is visible. The
page first reads the certificate files, which may fail (`FilesRead`,
`FileUnreadable`). Its nine `fetch`es, the server's handler, the truncation at `fopen`,
the write, the load file by file, the erase file by file and the power cut are separate
steps. The handler echoes the body before it opens the file, so that the answer may
reach the page before the file is opened, later, or never (`PostSettles`). The erase is
made once for each key that the file lacks (`lacking`). The server runs only when the
first load has ended.

**FlashLog** keeps of a record only that it exists: `file` records in the file,
`pos` read, `taken` accepted by the send queue, `refused` dropped by
`http_client_send_message` because the WiFi bit was off. The application's part, the
callback that is given the records and the task that asks for the log, is that of the
example (example_wifi_manager.c:73-91, 99-150), where it is in comments.

**Response** has, for each of the two client tasks, where it is in
`esp_http_client_perform` and the handler (`pc`), what it receives (`body`, `got`)
and what the application was given (`told`). A byte is who it is for and its
number, so that a buffer in which two responses are mixed is visible, as are bytes
left out in front (`missed`). `output_buffer` is its size with the bytes put in it,
whose number is `output_len`; `user_data` says whether the handle was made with a
buffer that is not null; `file` is whose name `ota.c` keeps and whether that was
freed. `damaged` is set by a write beyond a buffer, through a pointer to freed
memory, and by a second free; what the device does after that is not followed
except that it may restart. The send task has the highest of the three priorities
(489-494), which is used where it cannot wait (`Preempts`).

**Portal** is `HttpServer`, `DnsServer` and `PortalBase` together. `todo` holds the
calls that the manager still has to make for the message it handles; `at` is where
it is inside the first. In `HttpServer` the buffer is a function from cells to what
they hold (a terminator, this body, an earlier one, memory of somebody else), with
as many cells behind its end as the terminator can reach; `mine` is the buffer the
handler was called with, which a stop turns into a freed one; `hpc` is where the
httpd task is. Comparing a url with a null pointer and copying to one restart the
device; a redirection needs no url. In `DnsServer` a socket is a number, `new` one that the task has made and
not stored yet, `socket_fd` the global, `bound` the one with the port. `vTaskDelete`
takes the task away wherever it is; with the handle of a task that has ended it may do
nothing or raise an exception (`DeletesFreed`).

**ApList** takes the records of the driver as they are found, one turn of the outer
loop as a step, and compares the result with a definition that does not merge in
place.

**JsonText** takes one character of the string in a step, in the pass that counts and
in the one that copies. `read`, `put` and `escapes` are the variables of the code;
`output` holds what has been written at each place of the buffer, so that a gap, an
overlap or a byte beyond the end is visible. A character is what the printer tells
apart. The last step puts the addresses behind the name, as `snprintf` does.

**DnsReply** is over bytes, with what the C program reads and writes at every offset:
the request is accepted or refused, then, for each turn of the loop over the
questions, `parse_dns_name` goes from label to label and the answer is put. `query` is
what the phone asked, from which every byte of the request follows.

`MCTexts` runs one of these three programs in a behaviour, over all inputs of its
bounds.

The modules are separate because their product is out of TLC's reach: the log
calls inside the manager's handlers block only in `FlashLog`; the orders
of the manager to the http client are free in `HttpClient`, constrained to what
the manager really sends only in `WifiClient`; `Response` has neither queues nor
error counts, and takes an order or a request at any time; `Portal` takes the
manager's messages at any time.

## The runs

| Run | Configuration | Expect | Checks |
|---|---|---|---|
| boot | `WifiManager_boot` | pass | `TypeOK`, `PortalAfterAllRetries`, `LinkDownIsResolved` |
| asked | `WifiManager_asked` | pass | `StrandedOnlyWithApStarted`, `LinkViewConsistent`, `ScanBitIsCleared`, `ForgottenMeansOffline`, `FollowsEveryLinkChange` |
| selfblock | `WifiManager_selfblock` | violation | `OwnQueueHasRoom` |
| linked | `WifiClient_linked` | pass | `LinkedIsKnown`, `WrongOnlyUntilRetry` |
| client | `HttpClient_client` | pass | `StatusMeansClient`, `RestMeansConnected`, `ReadyAnnounced`, `GivesUpAfterAllTries`, `ClientConnects` |
| nullhandle | `HttpClient_null` | violation | `SendsOverClient` |
| response | `Response_response` | pass | `ResponseWhole`, `HeapSound`, `OneUpgradeAtATime`, `StatusComesBack`, `UpgradesNamed` |
| whole | `Setup_whole` | pass | `NoHole`, `LoadedAsSaved`, `FailureStands` |
| cut | `Setup_cut` | pass | `Settles`, `LoadingEnds` |
| flashlog | `FlashLog_log` | pass | `FlashTypeOK`, `KeptUntilTaken`, `LoggersGoOn` |
| portal | `Portal_portal` | pass | `InUseIsLive`, `RestAgrees`, `SavedIsBody`, `AnswersOnce`, `NoSocketLeft`, `ClosesOwn`, `StopReturns`, `HijackComesUp` |
| texts | `Texts_texts` | pass | `LoopsSound`, `ListIsRight`, `JsonIsWhole`, `PhoneFindsPortal` |

Every module has a type invariant: `TypeOK` and `FlashTypeOK` are checked by
themselves; `HCTypeOK` is a part of `StatusMeansClient`, as `LimitKept` is, the bound of
the error count by the tasks that have seen the limit; `SetupTypeOK` of `NoHole`,
`ApTypeOK` of `LoopsSound`, `PortalTypeOK` of `RestAgrees`, `RespTypeOK` of
`HeapSound`. `LoopsSound` also has `NoNetworkLost` (no network of the
driver's records loses its strongest one at any turn) and `GapsCounted` (the gap that is
being closed is as wide as the records merged away in front of it); `ListIsRight` is
`ListIsTheNetworks` and `ListIsReadable`; `JsonIsWhole` is `StringIsWhole` and
`IpInfoFits`. The types of `JsonText` and `DnsReply` are in `JsonInv` and `DnsInv` of
`TextProofs`.

Distinct states: `linked` 3.8 million, `whole` 2.2 million, `response` 1.1 million,
`asked` 1.1 million, `client` 404,000, `texts` 307,000, `portal` 242,000, `cut` 125,000,
`flashlog` 138,000; each run takes about two minutes or less on two cores.

### Bounds and why they are enough

* The manager's queue has the code's length, 3, everywhere. `EvLen` (the default
  event loop) is 2 or 3: one event in hand, and another behind it, is what it
  takes for an event to be overtaken by the state of the driver.
* `boot` takes the retry maximum of `sdkconfig`, 10, so that the attempts are
  really counted. The other runs take 1 or 2: an attempt that is counted, and the
  one that is not, both occur, and the wait in between is the same for all.
* `MaxAsked` counts the requests and orders from outside (3 in `asked` and
  `linked`): with the tasks' own messages they fill the queue in every order.
  `asked` leaves out `CONNECT_USER`, the order after which, by the design of
  the handler (900-903), no retry is made: whoever gives it must look after the
  result, and nothing in the repository gives it. It is among the orders of
  `linked`, and of all theorems but the two that exclude it.
* `linked` has all three requests, and every order that reaches the http client's
  callbacks: a load can fail, the access point be stopped and a scan be ordered over
  a link that is up.
* `client`: the order queue has the code's length, 4, which takes part in the
  circle of `ClientConnects`; the send queue is shortened to 1 and the limits
  of errors and retries to 2 and 1 (3, 20 and 5 in the code), each reached and
  passed. The WiFi may come whenever it is not there; `MaxCalls` = 1 allows one
  more call from outside: a loss (after which the WiFi may come again), a message
  to send, or a second connect. `nullhandle` needs two of them.
* `cut` has one setup and four files: the first, the one with `ipv4_method`, the one
  with `server_port` and the last, and values that abort the load. Two of them lack one
  or two keys (`LongFiles`, `NKeys`), two of them one: the erase once and again, before
  the loader goes on and before it reads through a null pointer. `whole` has two setups
  and one power cut over three files, the least in which a file lies between
  the one that is written and the last: the race of the last write with the load, the
  overlap of two setups, and their product with a cut. One request, answer of `/connect`
  or write is lost in a behaviour (`MaxLosses`), besides the requests that go down with
  the device; `cut` has no such bound, and the theorems have none.
* `flashlog`: queues of 2 and 1 and a file of 2 records. The circles need full
  queues, not long ones. One writer besides the send task stands for all: the
  manager, because it is also the task that switches the WiFi bit.
* `response`: bodies of 0, 1 and 2 bytes (`MCBodies`), so that a part is all of a
  response or half of it, one chunked and one that names a firmware file. `MaxNamed`
  = 3, because the first, second and third name are treated differently; two
  upgrades at once (`Slots`), since `OneUpgradeAtATime` is about the second.
* `portal`: a buffer of 4 cells filled in parts of 2 (`Scratch`, `Chunk`; 4096 and
  100 in the code, http_app.h:37, http_app.c:108): bodies that just fit, that are too long, with
  parts of equal and different length, and a terminator that leaves the buffer. One
  kind of post of each sort, the list request (which waits in the manager's queue as
  `/connect` does) and the redirection. Three sockets: one for the server, one for the
  hijack, one for everybody else, so that they run out and are given out again. A
  behaviour is busy either with requests (the sockets and the hijack rest) or with
  sockets (the only request is for the list), because their product is too large;
  start, stop and the queue are in both.
* `texts`: lists of up to 4 records of two names and a hidden one, 2 modes and 2
  strengths, so that two gaps can be closed and a third record found equal; strings
  of up to 4 characters of three kinds; names of up to 32 characters with one
  kind of character to escape, at the sizes where the ip information changes, before
  passwords of 8 and 20 characters; queries with 1, 2 and 9 questions, with names at
  the sizes where the query, the reply and the name just fit.

No symmetry is used: the models have no interchangeable values.

`CHECK_DEADLOCK FALSE` is set wherever the program may rest (all tasks waiting
for something to happen); that resting states are the right ones is the matter of
`StrandedOnlyWithApStarted`, `RestMeansConnected` and the liveness properties.

## Fairness

* Tasks: weak fairness. FreeRTOS is preemptive; a task that can go on does, and
  no priorities are assumed but in `Response` (safety only), so the runs hold for every
  order of the tasks.
* Timers and delays (`vTaskDelay`, the retry timer, the page's `setTimeout`): weak
  fairness, no bound on how long. Every race of a timer with a message is there.
* Driver: an attempt to join is decided, a requested disconnect and a scan come to
  an end. That a link stays up, or fails, is assumed nowhere. `ClientConnects`
  needs strong fairness of a successful attempt: a server that can be reached again
  and again is reached in the end, since the loop at 446-463 never gives up.
* `FlashLog`: strong fairness of the senders, because a full FreeRTOS queue wakes
  the waiting senders in turn, and of the send task's start, because
  `xEventGroupSetBits` wakes every task that waits for the bit even if it is
  cleared right after. The WiFi comes back and the client can connect again and
  again.
* `Portal`: the manager, the handler and the task of the hijack go on (weak fairness).
  Strong fairness of the return from `httpd_stop`, since the httpd task looks at its
  control socket before it looks for requests, and of a handler's send, since a queue
  that the manager empties again and again has room for it in the end. Nothing makes a
  client send the rest of its body, and `recvfrom` may wait for ever.
* `Setup`: the browser reads the certificates or finds that it cannot, and gives up,
  some day, a request that the server does not hold any more.

Power cuts, restarts, losses and clients are never fair.

## What the runs show about the code

Two runs end in a violation of something that the repository says of itself;
the entry under `findings` quotes it.

* `selfblock`: the manager sends `CONNECT_STA`, `START_AP` or `HTTP_CLIENT_INIT`
  to the queue that it alone empties. When a client asks for a connection three times
  while the link comes up, that queue is full, and event, timer and httpd tasks wait
  with it.
* `nullhandle`: the send task performs a request with the handle that the order
  task has freed.

Others are written into the properties that pass, as the exception that the code
leaves; each of these properties fails when its exception is taken out:

* `StrandedOnlyWithApStarted`: with the counter at its maximum and `AP_STARTED`
  still set (the access point is being closed) a lost link starts neither the timer
  nor the portal (938, 946), although the comment at 937 promises the timer. The
  device then rests out of reach until it is restarted.
* `WrongOnlyUntilRetry`: `HTTP_CLIENT_INIT` can be handled after the loss of the link
  it was queued for; `cb_wifi_connect` does not look, and the bit stays on until
  the retry that is on its way has been decided.
* `ClientConnects`: the handler sends from within the order task to the order
  queue (98, 227, 318). When it is full the client stops for ever.
* `StatusMeansClient`: a failed upgrade sets the status bit whatever has happened to
  the handle (116).
* `ReadyAnnounced`: after a WiFi loss that the connection survives nobody tells the
  flash log that the client is active (109, 412).
* `LoggersGoOn`: two circles. The flash task waits for room in the send queue and
  the send task for room in the flash queue; or the flash task waits for the
  client, the client for the manager and the manager for the flash queue.
* `KeptUntilTaken`: records that are read while the WiFi bit is off are refused and
  lost (flash.c:211 ignores the result).
* `NoHole`: when an incomplete file is met `copy_json_item` erases all files and
  the rest of the load finds none and fails, with two exceptions: the incomplete file
  is the last, or another setup writes the files that are left while the load runs.
  The load then succeeds, once, without that part.
* `Settles`: a manual address that does not parse makes the load abort on every boot.

* `ForgottenMeansOffline`: a retry or an order that was pending joins the access point
  again that the user has asked to forget; the driver keeps its configuration (918,
  878; manager.h:273).
* `LinkedIsKnown`: a scan ordered by the page, or an order to stop the access point,
  switches `HC_WIFI_OK` off, and so does the portal that a failed load opens while
  the link is up; nothing sets the bit again while the link stays up
  (http_client.c:481-484).
* `LoadedAsSaved`: a second setup is written while the load of the first reads, or
  a request, a write or the power was lost between the files of one setup.
* `LoadingEnds`: the page stays on "loading" when a certificate file that was chosen
  cannot be read: the rejection ends `createSetup` between the waiting page and the
  timer, and nothing catches it (code.js:336).
* `FailureStands`: the timer shows the failure while posts are still out; their answers
  count on, and the last one sends `/connect` all the same (code.js:344-349, 380).
* `GivesUpAfterAllTries`: a request is performed one time more than `MAX_TRY_SEND`
  says (http_client.c:334, Kconfig:178).
* `InUseIsLive`: `http_app_stop` frees buffer and urls before it waits for the handler
  (http_app.c:527, 599). `SavedIsBody`: the terminator of a body
  lies behind it by the length of its last part, in what an earlier body left, or behind
  the buffer when there is too little room (135). `AnswersOnce`: a body that is too long is answered twice, and five
  of the nine posts get a 404 on top (114, 303).
* `StopReturns`: `httpd_stop` does not return while the handler waits for a body that
  never comes, or for room in the queue that only the manager empties (122, 401, 408).
* `NoSocketLeft`, `ClosesOwn`: the task of the hijack is deleted between `socket()` and
  the store of its number; after a failed receive it closes a number twice
  (dns_server.c:176, 198, 228, 242). `HijackComesUp`: without a free socket the task
  ends, its handle stays, and no start brings it back (177, 235).
* `PhoneFindsPortal`: queries with AD or CD set, with an EDNS record, for the root, cut
  off or too long are not answered with the address (dns_server.c:102, 118-123); one
  whose question ends at an odd address may raise an exception (131).
* `ListIsReadable`: an empty list is not closed, a name with a quote is not escaped
  (337, 333). `IpInfoFits`: the worst case of manager.h:155 is not the worst: with the
  field that is not counted the text is cut off, and a name that fills its array runs on
  into the password and beyond the buffer (277, 280).
* `ResponseWhole`, `HeapSound`: when both tasks perform at once they share the buffer and
  its length (http_client.c:254-273, 417); without memory for the first part a response
  lacks its beginning (263). `UpgradesNamed`, `HeapSound`: the second response that names
  a file frees the name and makes no new one, the third frees it again (ota.c:62).
* `OneUpgradeAtATime`: the order task sets the bit behind a response that has ordered an
  upgrade (452). `StatusComesBack`: an upgrade task that could not be created leaves the
  bit cleared (ota.c:184).

Met while reading, not the matter of a property: a disconnection that is older than
the scan clears the scan bit, and the next order starts a scan over a scan (450,
against the comment at 787). The bit is in the models as it is in the code. A stop of
the hijack deletes its task by the handle also when the task has ended
(dns_server.c:231, 242), which is in the models as a restart that may happen. In code that is not modelled: `memset` clears `sizeof(wifi_config_t)` bytes of
another type (storage.c:150), the length of the key is taken from the certificate
(1136), and a time zone as long as its array overruns it by one (ntp_client.c:63).

## Proofs

TLC checks the properties on the instances above; the theorems below hold for every
value of the constants that the named assumptions of the modules allow: any lengths of
queues and lists, any limits of retries and errors, any sets of requests, bodies and
orders, with or without restarts, losses and power cuts. The budgets of the `MC`
modules (`MaxAsked`, `MaxCalls`) are constants like the others. No theorem assumes
more about a constant than its module does, but for three that say so: two need that
nobody gives the order `CONNECT_USER`, which nothing in the repository gives, and
`PortalAfterThatMany` is about a device that is left alone (`Unattended`).

Where a property names a history variable the theorem is about the `MC` module that
keeps it. Each proof has the same shape: an invariant that is inductive, one lemma for
each part of it and in that one step for each action, and a last theorem that joins
them. What the invariants have to say beyond the properties is this.

**`WifiManagerProofs`** (`TypeCorrect`, `LinkViewCorrect`, `ScanBitCorrect`).
`TypeData` carries that a message in hand to be sent (`out`) is one of the manager's
own orders whenever the task is about to send it. The three parts of
`LinkViewConsistent` are inductive together: the message in the hand of the event task
agrees with the bit; if there is none, the last link message in the queue does; if
there is none either, the address string does.

**`LinkProofs`**.

* `StrandedOnlyThere`: the device rests out of reach in one way only. `ReachInv` says
  for every state with the link down what still comes (`Rescued`): an order to join or
  to open the portal (`OrderComes`); the loss at hand ends in one (`WillRetry`); the
  link was up and its loss is still to be handled (`WasUp`); a loss comes with the
  access point off by then; or the access point is on and stays. Each of the other
  parts closes a step at which that would be lost: `DropFollows` and `ApFollows`
  order the events of the driver after the bits, `SetupLoads` has a request to configure
  bring its order with it, `LoadSends` says what a load ends in. Without
  `NoUserConnect` the invariant is false, and so is the property: the attempt that
  `CONNECT_USER` makes is not retried (900-903).
* `ImplementsLinkFeed`: the refinement. `FeedInv` says that what the queue and the
  hand of the event task carry about the link (`Carried`: the link messages in order,
  by a counting of their places) is `unshown`. The lemmas `Carried...` say what
  sending, taking and publishing do to it; every step then is one of `LinkFeed` or
  leaves its three variables alone (`FeedStep`).
* `ForgottenStaysOffline`: `ForgottenInv` says that without a configuration, and
  with nothing pending when it went, nothing is on its way that would join the link,
  the retry timer rests and the loss being handled is not retried.
* `WrongOnlyForATime`: a client that takes, or will take, a link that is down for up has
  something on its way that tells it or retries (`ToldInv`). What makes this hold is
  what comes *after* `HTTP_CLIENT_INIT` in the queue (`Past`): the order is
  sent with the counter at zero and no attempt of a user's pending (`InitFresh`), so a
  loss that is handled while the order waits has its retry behind it
  (`RetryBehind`), and the failure of an attempt that `CONNECT_USER` makes, which is not
  retried, is told behind it too (`UserBehind`).
* `LinkIsKnown`: the converse. While the link is up, and the manager has heard of it,
  no loss is on its way to it (`UpMeans`), so that the order to tell the client is behind
  every order to open the portal (`InitLast`), or the client knows, or what cleared
  its bit was none of the losses (`Knows`).
* `PortalAfterThatMany`: the portal opens after `MaxRetry + 1` losses in a row, no
  fewer and no more. It needs that there are no requests, orders and restarts: each of
  these ends an attempt, or opens the portal, outside the count. What is left
  has one thing at a time that drives it, and `AttemptInv` says where it is: the
  first load, an attempt, a link that is up, a loss on its way, a retry, the order to open
  the portal, or the portal, which stays. What tells of an address may be on its way
  besides, always ahead of the loss (`LossIsLast`, `OneWaits`). So the losses are the
  retries counted, plus the one at hand, or that one alone while the address that resets
  the counter is still to be handled.

**`HttpClientProofs`** (`ClientTypeCorrect`, `NoReconnectForgotten`,
`StatusNeedsHandle`, `ConnectionAnnounced`, `RequestsGivenUp`). The error count is
compared with `==` in one place and with `>` in another: it does pass the limit, and
`ErrorBound` says how far: by no more than the tasks that have counted and are about to
restart the device. `ClientTypeCorrect` states that (`LimitKept`).
`Awaited`: a client that has WiFi has its status bit or something on its way that leads
to it (an order, the connect loop, the delay in the handler, an upgrade).
`HandleMatches` ties the bit to the handle along the steps of the order task,
`Announced` to the callbacks, `Attempts` counts what was tried and what is left.

**`ResponseProofs`** (`ResponsesArriveWhole`, `HeapStaysSound`,
`SecondUpgradeIsReopened`, `BitIsOwed`, `FirstNameOnly`). As long as the two tasks
have not received at once, the buffer is that of one task and holds what that task has
received and not missed (`Mine`), and what it tells the application is that (`ToldWell`);
`FileInv` says that the first name is the one that is kept, and the second frees it;
`UpgradeInv` that the bit stays cleared while an upgrade runs unless the order task
has set it behind the response.

**`PortalProofs`** (`HandleTellsServer`, `HandlersUseWhatIsThere`, `SavedTextIsBody`,
`EachRequestAnswered`, `HijackClosesItsOwn`, `SocketsLeftAreKnown`). `PortalInv` has
seven parts: the sockets and the calls left to the manager (`BaseInv`), what handle,
buffer and urls say of the server (`ServerInv`), how far a request is (`RequestInv`),
what it was answered (`AnswerInv`), what is in the buffer cell by cell (`BodyInv`: the
body up to what has been copied, and the terminator behind it by the last part), and
whose socket the hijack has (`DnsInv`); `OrphanInv` says who will close each of them.

**`SetupProofs`** (`NoHoleWithoutRace`, `LoadIsOfOneSetup`, `ShownFailureStands`). `ReadSoFar`: a load whose
files nobody writes has read every file before the one it is at, or finds only empty
ones from there on. `OneSetup` and `WholeInv` follow a setup through the requests that
are waiting, sent, handled and written, to say that every file is the last setup's when
the load begins. `OrderInv` bounds the loads by a count of the setups that still owe
one (`Pending`). `FinalInv`: a setup whose failure stands reads no certificate, waits for
no answer, and so can send nothing.

**`FlashLogProofs`** (`FlashTypeCorrect`, `NothingLost`). `ReadAccount`:
all the records that were read but the one in hand have been taken or refused, and the
file is closed at its end.

**`TextProofs`** (`LoopsKeepNetworks`, `ListIsOfNetworks`, `EveryStringIsWhole`,
`PhonesFindPortal`): for all lists, names and queries, of whatever length.

* `ApList`. The loop invariants: `MergeInv` says of each record what the first turns of
  the merge have made of it, so that no network loses its strongest record, `CloseInv` where the records before the gap are, that it is
  as wide as the records dropped, and what is behind it; `PrintInv` follows the text. The
  list is compared with `ListOf`, a bijection of places and networks that keeps the
  order, rather than with a filter of the sequence, which is recursive.
* What the recursive function `Before` computes, the place of each part behind those in
  front of it, is `BeforeAdds`, by an induction over a set of numbers (`AllNumbers`,
  from the well-foundedness of `<`).
* `JsonText`. `JsonInv`: the first pass has counted what the escapes of the characters
  that it has passed need (`CountInv`); the second has written them at their places, and
  at most a terminator behind (`CopyInv`). So the closing quote, which is put where the
  first pass says, comes right behind the last character.
* `DnsReply`. `DnsInv` says what the reply is at any time (`Taken`: the query with its
  header marked, with an answer or without one behind what was received), where
  `parse_dns_name` is in the first name while a phone should find the portal (`AtLabel`,
  `AtEnd`: one label after the other to the zero that ends it, or past that zero for the
  root, whose name begins with it), and what was sent (`Ended`). `QueryBytes`, `PutBytes`
  and `ReplyBytes` say which byte of the reply comes from where. `SoughtIsFound`: a query that is meant gets
  its answer where a resolver looks for it. `FoundIsMeant`, the other direction: an
  answer that the code puts anywhere else is never one there.

### What the proofs have found

* `NoHole` was false beyond the bounds it had been checked with: with two setups, a
  loss and a cut, the posts of the second are written behind the incomplete file that
  the load of the first has removed. TLC shows it with three files, which `whole` now
  has; the property names the exception (`raced`, `overlapped`).
* `LinkedIsKnown` named the messages of a scan only. Its invariant is not inductive for
  two steps outside the bounds of `linked` as it was: an order to stop the access point,
  and a load that fails, both over a link that is up. The property has the
  exceptions now (`clearedBy`, `fellBack`) and the run the orders and requests.
* The history variable `tried` of `MCHttpClient` was defined by a `CASE` with guards
  that overlap, of which the prover may not choose the first.
* `UpgradesNamed` and `HeapSound` tell the third name from the second, and the
  assumption on `MaxNamed` had to say that the bound lets it happen.
* `PhoneFindsPortal` says which queries are not answered with the address. The proof
  needs both directions, so the property states both: the named exceptions never find
  the portal, all the others do.
* `FollowsEveryLinkChange` used to take what is on its way from the queue with
  `SelectSeq`. As a history variable it says the same, and the proof has to show that
  the queue carries it.

### What stays with TLC

Liveness (`LinkDownIsResolved`, `ClientConnects`, `Settles`, `LoadingEnds`,
`LoggersGoOn`, `StopReturns`, `HijackComesUp`): the prover does not reach fairness. Every
invariant and every action property that a run checks is a theorem.

## What is not modelled

* The time client (`ntp_client.c`): one task calls it, it waits at most 15 seconds and
  calls the library; its time stamps are read by nothing but code in comments. That
  it logs, and that the log waits for the clock, is in `FlashLog`.
* The callback list (`cb_list.c`), twelve lines; what it runs is in the steps of
  `HttpClient`. The file system mount (`spiffs.c`), one call.
* The bytes of the static pages, the hooks of an application (`http_app_set_handler_hook`,
  never called in the repository), URLs, log texts.
* `wifi_manager_destroy`, `http_client_destroy`, `save_flash_data`,
  `is_flash_file_exist`, `send_message_to_front`: called by nothing. The restart timer:
  its start is in comments (471-472).
* EAP and the IPv4 values: all that `Setup` keeps of them is whether they abort.
* `strlen(NULL)` without a time server (1057), the use of the parameter after its
  `free` (1044, no callback is registered), the missing terminator before `cJSON_Parse`
  (http_client.c:285), the missing value of a conversion (303): undefined behaviour in
  states that the models take as not configured, or whose value nothing reads.
* The setup mode that erases the files and restarts (1196-1221) and the boot button.
* The log calls inside the manager's handlers are steps of `FlashLog` only; the
  manager there is reduced to the bit it switches.
* In `HttpClient` the increment of `error_count`, which two tasks share, is
  atomic, and one upgrade is under way at most; `Response` has two.
* How much memory is free: the handle of a failed attempt that is forgotten (447). A
  failed allocation is in `HttpServer` and `Response` where the code looks for it.
* The download of a firmware (`esp_https_ota`), which succeeds or fails.
* `vue/`, which the build does not embed; the file system and the libraries.

## Plan

Done: every module above, the runs above, the theorems listed above. What is left of
the code is the list under "What is not modelled".

Left to prove is what the prover does not reach ("What stays with TLC").
