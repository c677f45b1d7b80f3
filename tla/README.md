# Verification of the MC60 RIL library

TLA+ models, model-checking runs and machine-checked proofs for the radio interface library in
`src/SDK/ril/src`: the C code between an OpenCPU application and the AT command core of the Quectel
MC60 module. The other directories of the repository hold declarations (`SDK/include`, `SDK/ril/inc`)
and documentation. The core itself (`Ql_RIL_SendATCmd`, the message queues, memory, files) is a
precompiled library without source here; it is modelled only as far as the RIL relies on it, and
marked external.

Contents

1. The system and its parts
2. How the parts interact, and what is hard about it
3. The models
4. The runs, their bounds and what they show
5. Fairness
6. What is proved, and how
7. Disagreements between the code and its documentation
8. What is not modelled
9. What could come next

## 1. The system and its parts

| Part | Source | State it keeps | Operations | Correct if |
|---|---|---|---|---|
| Bluetooth device list | `ril_bluetooth.c` 1-1560 | `m_arrBTDev` (pointers to records with handle, scan index, pairing id, connection id), `callback_bt`, the static `is_first_prompt` of the +QBTSTATE handler | `RIL_BT_Initialize`, `QueryState`, `StartScan`, `PairReq`, `PairConfirm`, `Unpair`, `ConnReq`, `ConnAccept`, `Disconnect`; handlers of +QBTSCAN, +QBTPAIR, +QBTPAIRCNF, +QBTCONN, +QBTDISCONN notifications | one record per device, ids in the list are the module's, a command never reaches another device |
| SPP data, names, power | `ril_bluetooth.c` 1560-end | globals with the buffers of the SPP call in progress, the static `sppReadMode` | `RIL_BT_SPP_Send`, `SPP_Read`, `SPP_DirectConn`, get and set of name, address, visibility, power | data of a call goes to and comes from that call |
| GATT server | `ril_ble.c` | `gserv` (the application's `ST_BLE_Server`: services, characteristics, descriptors, handles, `result`) | `RIL_BT_Gats*` and the handlers of their responses; advertising, proximity and find-me profiles; notifications of a peer's reads, writes and connections | the records say what the module has; success means executed; every event reaches the callback |
| GATT client | `ril_ble_clinet.c` | `gclie` (the application's `ST_BLE_Client` with its arrays and `result`), `callback_bt` | `RIL_BT_Gatc*`, notifications of a server's answers | a function returns what happened to its own command and stays inside the arrays |
| Short messages | `ril_sms.c` | the static `s_bSMSReadContentFlag` | get and set storage, read and send in PDU and text mode, delete | the message read or deleted is the one asked for |
| Notification dispatch | `ril_urc.c`, `ril_atResponse.c` | the keyword tables, the ring of six incoming call records, `m_iErrCode` | `OnURCHandler`, the handlers per keyword, the default response handler | each notification reaches its handler; a message's pointer is still good when it is read |
| HTTP, FTP | `ril_http.c`, `ril_ftp.c`, `ril_custom.c` | globals for the request in progress, one-shot callbacks | set URL, get, post, read, download; open, put, get, size, path, close | a transfer's result reaches the callback of that transfer |
| Location, time, tones, GNSS | `ril_location.c`, `ril_location2.c`, `ril_ntp.c`, `Ril_dtmf.c`, `ril_gps.c` | one callback each, some output globals, `update_time_flag` | one request each, answered later by a notification; queries | as above |
| Audio | `ril_audio.c` | a static channel in the volume query | volume, channel, gain, playback, recording | the volume of the channel in use |
| Network, telephony, SIM, system, alarm | `ril_network.c`, `ril_telephony.c`, `ril_sim.c`, `ril_system.c`, `ril_alarm.c` | none but the module's (PDP context) | one to six commands each | success means that the caller has the module's answer |
| Initialisation | `ril_init.c` | none | a fixed list of commands | |
| Text utilities | `ril_util.c` | none | `Ql_RIL_FindLine`, `Ql_RIL_FindString`, prefix match, hexadecimal numbers, hash | agree with their reference definition |

`PROJECT.json` lists the same parts with the state of their modelling, and the hazards of the code at
the lines where they bite.

## 2. How the parts interact, and what is hard about it

* **One AT channel.** Every function formats a command and calls `Ql_RIL_SendATCmd`, which blocks
  until the response is complete or a time has passed (`ril.h` 95-163). Response lines go to a line
  handler the caller passes; its return value says whether the response is complete
  (`ril.h` 81-93). A second task that sends meanwhile is refused with `RIL_AT_BUSY`: there is no
  waiting line and no lock.
* **Notifications.** `OnURCHandler` (`ril_urc.c`) runs in the task that calls
  `Ql_OS_GetMessage`/`Ql_RIL_Initialize`, concurrently with a call of another task. The handlers change
  the same globals as the functions, some of them send commands, and they call the application back in
  the middle of their work.
* **No lock anywhere.** Everything static in the library is shared by the application's tasks,
  the notification task and the line handlers.

So the hard behaviours are: interleavings of a function, a line handler and a notification handler on
one table; values read before a callback or a command and used after it; results of refused or timed
out commands; statics left over from a command that was cut short; one-shot callbacks overwritten
or left standing; notifications that arrive after the state they report has changed.

## 3. The models

In all modules a *step* is the code between two points at which another task can get in:
`Ql_RIL_SendATCmd`, the application's callback, the arrival of a response line. A function is split
there into the step up to the call and the step from its return on, which carries in its record (`pc`)
what the C code keeps on its stack.

### BtDevTable: the table and its helpers

Operators on a table value `[Slot -> record or NULL]`, one for each `BT_DevMngmt_*` helper. Names,
addresses and profiles are abstracted away (`Ql_GenHash` of the address is taken to be injective;
`profileId` is written where `connId` is). The helpers never test a slot for NULL before they compare
its handle. A lookup that runs past the last record reads through NULL: what a getter then returns is
any value (`wild`), and an update touches no record.

### BtDeviceList: the device list

| Variable | Code |
|---|---|
| `m_arrBTDev`, `ready` | the array, `callback_bt` being set |
| `is_first_prompt` | the static in `ATRsp_QBTSTATE_Hdlr` |
| `at`, `burst` | the owner of the AT channel and the response lines of AT+QBTSTATE not yet delivered |
| `app`, `urc` | the application call and the notification handler in progress |
| `urcs` | notifications waiting for the handler task |
| `pair`, `conn`, `scanned`, `scanning` | the Bluetooth module (external) |
| `doubt` | history: the reasons for which the list may be wrong at present |

The Bluetooth module pairs, connects, finds and loses devices by itself and queues a
notification. It holds still while a query is in flight, because the serial line is FIFO: what
happens after a response was produced is reported after it. Each query is a summary line, one line
per pairing and connection, OK; it may fail (error or timeout) between any two of these. The
notification handlers send queries of their own and ignore `RIL_AT_BUSY`, as the code does.
`OnURCHandler_BTConnCnf` and the "disc" branch of the indication handler are the same transitions as
`QueryOnUrc` and `OnURCHandler_BTDisconn` and have no actions of their own.

The list is *not* always right; the code has no lock and ignores failures. The history variable
`doubt` records each event that makes it wrong (listed above `Doubts` in the module), and the
properties say that nothing else does. That is the informative form: it names the complete set of
circumstances in which, say, a command can reach another device.

Assumptions: one application task; `RIL_BT_*` only after `RIL_BT_Initialize` (the functions that do not
check it are not called before); lines of a command that has timed out are dropped by the core.

### GattServer: the GATT server's records

`service` is `gserv->service_id` (`is_used`, `is_started`, `service_handle`, and the set of the
characteristics and descriptors whose `is_used` is set), `result` the cell `gserv->result`, `call` the
call in progress of each of the two tasks: the application, which configures, and the notification
task, in which the callback answers a peer with `RIL_BT_Gatsrsp` or `RIL_BT_Gatsind`. The functions do
not read what `Ql_RIL_SendATCmd` returns; they go by `result`, which only response lines write. `has`,
`started`, `attrs`, `registered` are the module (external). `OtherCommand` is any other user of the
channel: it makes commands be refused.

The history fields `own` and `executed` of a call say whether the result cell holds what this call's
lines put there and whether the module executed its command; `wrong` holds the services whose
record was misled: by a call that returned a result other than what happened, by a service whose handle
was never read, by deregistration (which leaves all records alone), or through the handle of a
record that was already wrong. Error codes are one value; a response is a result line followed by OK, or an
error line; parameters are valid and indices inside the arrays; the struct starts zeroed.

### SmsStore: short messages

| Variable | Code |
|---|---|
| `s_bSMSReadContentFlag` | the static in `HdlrReadPDUMsg` |
| `at`, `burst` | the owner of the AT channel and the lines of AT+CMGR or AT+CMGS not yet delivered |
| `call` | the call of each task: the command it is at (`pc`), index, delete flag, and the data a read has got |
| `mem1`, `mem3`, `pdu`, `box` | the module (external): selected storages, PDU mode, the stored messages with their read marks |
| `inds` | notifications +CMTI passed on to the application, with the message as history |
| `fate`, `cut`, `seen`, `missed`, and `truth`, `want`, `misread` of a call | history |

A function is a sequence of up to three commands: AT+CPMS? (`CmdGetStorageInfo`), AT+CMGF=0
(`SMS_SET_PDU_MODE`), the command proper (`SendCommand`). Between two of them the channel is free and any
task may take it; the next command is then refused and the function returns. `HdlrReadPDUMsg` has
the three outcomes of the handler: a line taken for text because the flag is set, a header line that sets
it, a line that ends the command. A command may time out before any of its lines.

Assumptions and abstractions: the storages MT and ME are one, since the adapter macro supports SM only; the type a storage
name that does not parse leaves is 0, which is SM, with size 0; the delete flags 2 and 3 act like 1, as
no sent messages are stored; of what a call returns only the success of a read is kept; text and PDU of a message are
the message, the text of a message may fail to decode and that of another line always does
(`LIB_SMS_DecodePDUStr`); lines of a command that has timed out are dropped by the core; the
application reads an announced message by `RIL_SMS_ReadSMS_PDU` when the channel is free; each message
arrives once. Other users of the channel would make commands be refused; the second task already does.

### The blocking functions: AtLines, NetCommands, DeviceCommands, FtpCommands, BtCommands, AtCommands

Some eighty functions of the library have one form: format a command, send it with a line handler, perhaps
another one after it, hand a value over. `AtLines` is the vocabulary of that form: a line is its kind and
what is behind it; a handler maps a line and the cell its `userdata` points to onto a verdict
(continue, success, failed) and the new content of the cell; a function is the sequence of its commands, whether it
checks its arguments, what its cell holds at first, and how it hands the cell over:

| Mode | The caller's variable |
|---|---|
| `direct` | is the cell |
| `none` | there is none |
| `copied` | is written from a local after success |
| `cleared` | is cleared first, and written after success |
| `checked` | is written after success, unless the text is not in the form expected: then the function fails |
| `accepted` | there is none; the line says whether the request was accepted (FTP) |
| `lost` | is not written by the handler, which gets the address of the parameter and overwrites the pointer; it becomes -1 if the call fails before that (`RIL_FTP_QFTPSTAT`, `RIL_FTP_QFTPLEN`) |

The four `*Commands` modules give the handlers and functions of `ril_network.c`, `ril_sim.c` and
`ril_telephony.c`; of `ril_system.c`, `ril_alarm.c`, `ril_audio.c`, `Ril_dtmf.c`, `ril_gps.c` and
`ril_location2.c`; of `ril_ftp.c`; and of `ril_bluetooth.c`. `AtCommands` runs them: `Call`, `Reject` (arguments
refused), `Send`, `Busy` (refused by the core), `TakeLine` (one line to the handler), `Timeout`, `Return`. Its state is
what the functions share: `s_channel_qmic`, `m_iErrCode`, the pointers of `RIL_ToneDet_Get` (`threshold`), the SPP
globals (`sppState`: whose buffers, the length read, the static `sppReadMode`); of the module the audio channel
and the PDP context. The history fields of a call are what the module told it (`told`), whether another call wrote the
globals it relies on (`disturbed`), whether the data mode was left on (`cut`), the error of its command
(`err`), whether it has opened the context (`opened`).

Values are one model value each where nothing depends on them; a value that is not in the expected form is one more
(`unquoted`, `west`). The response to a command is one of a set per command: its lines and OK, or an error
line.

### TextUtil: the text functions

The functions of `ril_util.c` on sequences of characters, `hexstring_to_value` and
`BT_DevMngmt_ProfileNameToId`. The loops are recursive functions, so that they can be proved about: `FirstOf`
for every search, `temp` for the shifting of digits. How many digits an integer has room for is a parameter. The reference definitions at the end of
the module say what they should compute, and name the two surprises: a line that merely ends in the word is taken
for the word, and the profile `OBEX_PBA_PROFILE` for `OBEX_PBA_PROFILE_CLIENT`.

### UrcTables and UrcDispatch: notifications that become messages

`UrcTables` has the two keyword tables of `ril_urc.c` in their order, and `HandlerOf`, the search: the first keyword of
the first table found anywhere in the string decides. `UrcDispatch` is every handler of that file that sends
the application a message: `ringCnt` and `comingCall` are the ring of six numbers, to which the message of an
incoming call points, `inbox` the application's queue. Handlers of other files are in the modules of their
components.

### Transfers: requests that are answered later

| Variable | Code |
|---|---|
| `cb` | the global callbacks, one per kind of request (`Services`): whose it is |
| `m_httpAction`, `httpData` | the action and the pointers of `ril_http.c`, the receiver of `ril_custom.c` |
| `update_time_flag` | the flag of `ril_location2.c` |
| `call`, `waiting` | the call of each caller and the channel, as in `AtCommands` |
| `handling` | the notification handler at work and the callback it is in |
| `job`, `reports`, `asynch`, `withTime` | the module (external): running transfers, results not yet handled, modes |
| `held` of a call, transfer or report; `opened`, `cfgDoubt` | history |

A callback is registered before the command (`"before"`), after the answer (`"after"`, FTP), or not at
all. A handler clears it after it was called (`Clears`: HTTP, FTP). The callback runs in the notification task, which may itself
call a function from it. `held` is true while the callback registered is that of the transfer; each step of the code that breaks
this clears it, so that `ReportsReachTheirCaller` lists the circumstances in which a result goes to another caller or to nobody.
`RIL_GetLocation_Ex` and `RIL_GetLocation` are two commands each, between which another task may change the mode.

`Transfers` extends `UrcDispatch`: both run in the notification task, one handler at a time.

### OneShot: what a transfer promises

The abstract specification: a request is accepted while none of its kind is open; its result is given once, to the
caller that asked. `Transfers` implements it for the services of `Patient`, of which callers make a request
only while none is open; for the others it does not, and `ReportsReachTheirCaller` says when not.

### GattClient: the GATT client, and what keeps no records in the server

A function is a record: its line handler, what it returns (`Ql_RIL_SendATCmd`'s value, the cell `gclie->result`, a
local, or 0 whatever happened), the array elements it reads at its position (`sid`, `cid`, `did`), whether it checks `sid`, and the
notification it leads to. `result` is written only by some line handlers, and the tasks share it. `urcs` are
notifications not yet handled, `told` the last one and what the callback was given. `callback_bt` of
`ril_ble.c` and of `ril_ble_clinet.c` are two statics of one name; the notification table leads to handlers of
`ril_ble.c` only (the server's and those of the two profiles), to none of the client's.

A line of an answer leads to one of the `Outcomes` of the handler. That is the one `Handler` names, but for
`ATRsp_QBTLEADDR_Hdlr`: it is declared `static void`, so that its `return RIL_ATRSP_*` reach nobody and the core goes on
with an undefined value; `TakeLine` takes any of the three verdicts there. Lines that come behind a command that
ended early are the core's to drop, and a command that goes on behind its OK ends with its timeout.

## 4. The runs, their bounds and what they show

| Run | Question | Bounds |
|---|---|---|
| `bt_list` | Are the table's shape, its pairing ids and its scan indices right under every interleaving, and do commands reach their device? | 2 devices (symmetric), 3 slots, 2 pairings, 1 scan index, 1 connection id, 1 waiting notification, 1 doubt |
| `bt_queue` | Are connection ids right, and is a quiet list complete, when notifications queue up? | as above with 1 pairing, 2 waiting notifications |
| `bt_returns` | Does every call and every handler return? | 1 device, 1 slot, all doubts together |
| `bt_status` | Does `RIL_BT_QueryState` report a status whenever it succeeds? (It does not; see 7.) | 1 device, 1 slot |
| `gatt_server` | Does a call's own result tell the truth, and do the records follow the module? | 2 services with 1 characteristic and 1 descriptor each, 2 handles (symmetric), 1 wrong record |
| `gatt_success` | Does success mean executed? (It does not; see 7.) | 1 service, no characteristics |
| `sms_store` | Does a read return the message asked for, does a command reach the storage it was checked against, and is no message marked read unseen? | 2 tasks, 2 messages (both symmetric), SM of 2 places, ME of 1, 1 waiting notification |
| `sms_pdu` | Is what a successful read returns a PDU? (It may be a header; see 7.) | 1 task, 1 message, SM of 1 place |
| `at_commands` | Does success of a blocking function mean that its caller has this command's answer, do calls that share statics get each other's data, does a call wait for a line that cannot come, does a failed call leave a context open or go unmarked? And do the text functions agree with their definitions? | 2 tasks: one calls every function, the other those that share a static; 2 audio channels; texts of up to 6 characters, numbers of up to 3 digits, integers of two digits |
| `at_errcode` | Is the error code that of the failure? (It is not; see 7.) | 2 tasks, as in `at_commands` |
| `transfers` | Does a result reach its caller, a location its request, HTTP data its call? Does a message's call number survive until it is read? Is OneShot implemented? | 2 tasks and the notification task, 9 services, 1 waiting result per queue, 8 calls, 7 messages |
| `gatt_client` | Does a function of the client return what happened to its command, does it read inside the arrays, are the right events passed on? | 2 tasks, arrays of 5, 2 and 1, positions inside, at the end and behind, 1 waiting notification |

Why the bounds are enough. Two devices are needed for an id to be another's; three slots are one more
than the devices, so that the record without address (see `SummaryMisreadOnlyAfterCutQuery`) fits beside
them and a table is full as well as not full; two pairings let an id be reused and two
ids be swapped. One waiting notification already lets it be overtaken by a later change in the
module, two let a report of success follow one of failure. `FewDoubts` and `FewWrong` are state constraints: a state in which two
things went wrong independently is checked but not left. With `MaxDoubts` 1 every doubt by itself is
explored in full, and the properties are disjunctions of single doubts. `bt_returns`
uses no symmetry (it checks liveness). In `sms_store` two tasks get between each other's commands, two messages make a wrong
index visible, and the smaller ME makes an index that is in range for one storage out of range for the other. The proofs of section 6 need none of these bounds.

`at_commands` (682,396 states) is constrained by `OthersAlone`: the functions that share no static need not be
interleaved with those that do, since all they have in common is the channel, and one of them
(`RIL_NW_GetSignalQuality`) stands for the rest there; one group of statics is in use at a time, because no function
touches two. `transfers` (380,579 states) is constrained by `OneGroup` for the same reason: services that share no
global are not run together. Eight calls take the ring of six past its beginning, with seven messages
waiting. `gatt_client` (196,599 states) keeps positions and notifications apart (`Apart`): no function
that reads at a position depends on the callbacks. `OthersAlone`, `OneGroup` and `Apart` are state constraints of the MC modules,
and no proof uses them. In `TextIsReadRight` a text of six characters holds a word and the ends of a line on both sides, and
a number of three digits is one too long for the integer and for the byte.

Each property is accompanied by a mutant in `PROJECT.json`: a plausible slip in one mapped definition
that makes the property false (a search from the wrong end, a reset that is missing, an id cleared in
one place and not in the other).

## 5. Fairness

Only `BtDeviceList` states fairness, for `bt_returns`: weak fairness of `QueryStep` (a command is
answered or times out; `Ql_RIL_SendATCmd` has a time limit in every call), of `AppReturns` (a function
that was called runs on) and of `UrcStep` (the task handles its queue). Nothing makes the
application call, or the module change. The other modules have no fairness: their functions never
loop or wait for one another, and their return is a matter of the core's time limit alone. That a
result is ever reported is the network's matter; `OneShot` promises it at most once. `NoCallWaitsOutAnError` of
`AtCommands` is the safety side of a liveness question: which calls wait for their whole time limit although the module has
answered.

## 6. What is proved, and how

All theorems hold for every value of the constants that satisfies the named assumptions of the
modules (counts are naturals, `NULL` and the empty handle are none of the others). They are checked by TLAPS.

**BtDeviceListProofs**: `TypeOK`, `Compact`, `OneRecordPerDevice` and `SummaryMisreadOnlyAfterCutQuery`
are invariants of `Spec`. None of the last three is inductive. Along with `TypeOK`, the invariant
needed has these parts:

* `ChannelInv`: who owns the channel agrees with what the two tasks wait for, so that two queries never
  run together;
* `ListInv`: compactness, one record per device, and that a device whose scan handler searched in vain
  (`urc.known = FALSE`) is still not listed or in doubt (`FoundIsUnlisted`). Without that
  part the append after the callback would be unjustified: the search happened before the callback;
* `PromptInv`: the static flag is FALSE only while a query is past its first line or after one was cut short.

**BtIdsProofs**: `PairIdsAreCurrent`, `ConnIdsAreCurrent`, `DevIdsAreCurrent`, `QuietListIsComplete`, and the
action property `CommandsReachTheirDevice`, all from one inductive invariant, `ListTracksModule`. It has the types,
channel and list of above, and

* `TodoIsCurrent`: the lines still to be delivered by a query describe the module as it is (the module stands still
  meanwhile), and `IdleUntilReady`: before the initialisation nothing is listed and nobody waits;
* `PairsShown`, `ConnsShown`, `ScansShown`: an id the list shows for a device is that device's in the module, up
  to the named exceptions. The properties speak of the record a lookup finds first, and so does `Shows`; the lemma
  `StepShows` says for every step which ids a lookup can gain and which it loses, so that the three are each proved once and
  not once per table operation;
* `ScanInv`: results that wait to be handled are those of the present scan, and when a scan starts nothing of the one before is
  left, unless `lateScan`;
* `CompleteInv`, for `QuietListIsComplete`: what a query has not yet delivered is still in its lines (`QueryCompletes`), what
  the list lacks when no query is under way is in a notification still to be handled (`ListComplete`), a list that was wiped
  during a query is marked outdated (`WipedIsOutdated`); of the module, a device has one pairing and a connected device has one.

**GattServerProofs**: `TypeOK`, `OwnResultIsTrue`, `UsedServicesExist` and `RecordsFollowServices`. The
two properties about records except the service of a call whose answer is not yet recorded (`Busy`). The
inductive invariant gives that service a record too: `View(s)`, the record a truthful return would leave.
`RecordsAgree` states that the view of each service outside `wrong` agrees with the module;
a free handle has no attributes and is not started (`FreeHandlesAreEmpty`). A step of the module
changes the view and the module together; a return turns the view into the record.

**SmsStoreProofs**: all six properties of `sms_store`. The inductive invariant has three parts besides types:

* `CallInv`: what a call has checked stays true until its command is sent. This is the argument against the
  race between AT+CPMS? and AT+CMGR: no task can select a storage other than SM, so once SM has been seen it remains;
* `BurstInv`: which lines a read still waits for, given what it has got (`ReadBurst`);
* `FlagInv`: the static flag is set just in the middle of a read that began well, or after one that was cut there (`cut`).

`NotifiedMessageIsRead` needs a further invariant, `NoticeInv`: while an announced message is in SM it is at
the index announced, before its read is begun and after; and the argument of its proof is that a step
moves no stored message (`Steady`). `ReadMarksAreEarned` is inductive together with these.

**GattClientProofs**: `TypeOK`, `ReturnIsOfTheCommand`, `ReadsStayInside`. The inductive invariant relates what is still to
come of a response to the history field `executed`: `Fits` lists the lines a call may wait for, and says of the last
of them that the cell already tells the truth (`Truthful`), unless another task's line came between (`mixed`);
`Answered` is what is left of that when the call has its answer. Of a call whose handler has no verdict (`leaddr`) they say
nothing, and it is the one that may wait without a line to come. Without `Fits` nothing would connect
the value a function returns with the line handled two steps before. `ReadsStayInside` needs only that the elements of a call
are those its function reads at its position. The action property `OnlyTheServersEventsAreTold` needs that what waits in the
queue is a notification a function leads to or a peer causes (`WaitingInv`), and what the search in the two tables
of `UrcTables` finds for each of these (`HandlersFound`).

**TransfersProofs**: `TypeOK`, `ReportsReachTheirCaller`, `ImplementsOneShot` (the refinement), `HttpDataIsTheCallers`,
`LocationsAreAnswered`, `FlagFollowsModule`. The invariant for the second is `HeldInv`: for a running transfer, a waiting
result and a call in progress that are held, the callback registered is their caller's. For the refinement it is
`PatienceInv`: of a service in `Patient` there is one request at a time, which is being called, or runs, or is reported, or is
handled (`OneRequest`); then a step of the code is a step of OneShot on one service or on none, which the proof shows action by
action. The last three rest on `PromisesInv`: for a call no other has disturbed, the globals are as it left them
(`GlobalsAreIts`), what was written at its prompts is its own (`DataIsIts`), flag and mode of the module are those it set
(`ModeIsIts`), and the lines it waits for are those of a location in that mode (`PlaceIsIts`).

`CallNumbersAreIntact` is proved in the same module, for any queue. A message's place in the ring and the counter
are as many places apart as there are calls behind it in the queue, modulo six (`Numbered`); so its number is
overwritten only when six calls are behind it. The count is a cardinality, since messages of other kinds
lie between.

**AtCommandsProofs**: every property of `at_commands` but the one about the text functions. It first takes the tables apart: which
commands a function sends with which handlers (`AllFunctionsAreSound`, `SpecialRows`, `LoginRows`), what each handler makes of
each kind of line (`VerdictIsTheHandlers` and the lemmas behind it), and what each step changes (`LineTaken`, `CallFields`,
`SendFields` ...). On these rest one inductive invariant per property:

* `TypeInv` for `TypeOK`; `ContextInv` for `ContextLeftOpenOnlyByLogin`: the context a call has opened is open only
  between AT+QIACT and the end of its function, but for the logins;
* `SoleInv`: while a call of a function with a pointer in a static is undisturbed, the static is its own, and no other
  call of that function is under way. From it `ToneInv`, `SendInv`, `ReadInv` for the three functions that work so: what of the answer
  has been taken agrees with what is still to come and with the statics;
* `EndingInv` for `NoCallWaitsOutAnError`: the last line of every response still awaited ends the call, for every handler
  that is not among the five `DeafHandlers`; that the read of SPP data ends too is again `ReadInv`;
* `MicInv` for `VolumeIsOfTheChannelRead`: `s_channel_qmic` is the channel the first command was told, from then until the
  second one's line is read;
* `QueryInv` for `SuccessMeansAnswered`: for each query, the lines still to come (`Awaits`) and what was understood of those that
  came (`Finished`). `Reads(f, k)` states for each of the twenty-seven functions what its handler does with the line it looks for, with OK
  and with errors; the step of a call is then proved for all of them together (the report of several lines of `RIL_GPS_Read` apart);
* `FtpInv` for `FailedFtpQueryIsMarked`: the cell of the query, which is the pointer, is as it was just as long as no value has been
  told, and what is still to come is the value and OK, an error, or OK alone. It needs `ValuesAreNoMarks`: the mark of an
  unwritten variable is none of the values a line carries.

**TextUtilProofs**: the text functions, for every text and every number. `LinesAreAlwaysFound` is about texts of any length over
any characters, and every word but the empty one; `NumbersAreAlwaysRead` about numbers of any length and integers of any width,
the 8 digits of a `u32` among them, which TLC cannot compute with. What `TextIsReadRight` says of the texts it
enumerates (`TextsAreRead`) is an instance. The loops of the code are recursive functions, and what these compute is a matter
of induction. The library's induction theorems take an operator as a parameter, which the provers cannot use; but its theorem on
the smallest elements of a well-founded relation does not, and gives

* `LeastNumber`, that a set of naturals that is not empty has a least element, and `Induction` for sets of naturals;
* `LoopHasAResult`: one function satisfies the equation of `FirstOf` and no other; hence `FirstOfIsFirst`, that the loop finds the
  first position that passes. Every search of the module is then a matter of which positions pass;
* `NatRecursionIsDefined`, the same for the functions that shift digits and for the powers of sixteen.

For the numbers there are facts about remainders (`RemainderOfShift`, `RemainderOfSum`), and `DigitsFromThePlaceOn`, the
heart of the matter: a number that ends in another is what is before it times a power of sixteen, and the other.
Since the power is one of the integer's size or more, a number too long keeps just its last digits.

Model-checked only:

* `CallsAndHandlersReturn`: liveness under fairness is beyond the prover;
* the four properties of section 7, which do not hold.

## 7. Disagreements between the code and its documentation

* `bt_status`: `RIL_BT_QueryState` may return `RIL_AT_SUCCESS` without writing `*status`. A query that
  ends after its first line leaves `is_first_prompt` FALSE, so that the next one parses its summary line as a
  device line.
* `gatt_success`: the GATT server functions document `RIL_AT_TIMEOUT` and `RIL_AT_BUSY`, but
  return whatever an earlier command left in `gserv->result`, success included.

* `sms_pdu`: a read that times out between the header and the text of a message leaves
  `s_bSMSReadContentFlag` set. The next read takes its header for the text and returns it as
  "The PDU string", with success; the check that notices it only writes a log. (On an empty place the OK
  itself is taken for text, and the call holds the channel until its time has passed:
  `AnsweredCommandsEnd` names this as the only case.)

* `at_errcode`: `ril.h` tells the caller of a failed function to ask `Ql_RIL_AT_GetErrCode` for the specific error. Only
  `Default_atRsp_callback` records one, so that after a function with a handler of its own the answer is 0 or the error of
  an earlier command.

The findings in `PROJECT.json` quote the lines.

Other things the properties had to name as exceptions, each at its line among the hazards: after a failure
`RIL_FTP_QFTPSTAT` and `RIL_FTP_QFTPLEN` set the caller's variable to -1 only as long as no value has come, since the handler
overwrites the pointer with the value, and no value ever reaches that variable (`FailedFtpQueryIsMarked`); functions whose handler does not know an error line wait
for their timeout; `RIL_FTP_QFTPOPEN` leaves the context open when the login fails; a download started from the
callback of another loses its own callback; a +QFTPPUT result is taken for a download's, and a +QFTPGET result that finds
no callback for an upload's, whose callback is cleared then; `RIL_BT_GetLeLocalAddr` returns anything once its command was
sent, since its handler is declared void (`ReturnIsOfTheCommand`); the client's events and those of the
proximity profile reach no callback.

## 8. What is not modelled

* The precompiled core, beyond its interface.
* The conversion of short messages between text and PDU (declared in `lib_ril_sms.h`, precompiled), and the fields of a message.
* Text: the formats of commands and the parsing of lines, except where a property is about it. `Ql_GenHash`, which squares 32-bit
  integers; the handle of a device is taken to identify its address.
* Memory: `Ql_MEM_Alloc` does not fail; leaks are not counted.
* The order of the two numbers of a location: `RIL_QLBS_Loc_Ex` stores longitude first, the notification handler of
  `RIL_QLBS_Loc` latitude first
  (`ril_location2.c:161`, `:124`), and nothing in the repository says which comes first. The names of the states of the SIM and the TCP/IP stack are compared over the length
  received, so that a proper beginning of a name would match as well; the model's module sends whole names.
* Undefined behaviour beyond the reads through NULL and the verdict of a void handler described above; out-of-range indices in the GATT
  server's functions (listed as hazards).
* `RIL_AUD_RegisterPlayCB` and the notification that a file has been played; `RIL_BT_GetDevListInfo` and
  `RIL_BT_GetDevListPointer`, which hand out the table; the notification handler `OnURCHandler_BTVisible`.
* Initialisation: a fixed list of commands without state or branches.
* `SDK/include`: declarations of the precompiled core.

## 9. What could come next

* Proofs about `BtDevTable` operators shared by both modules of the device list could move to a module of their own.
* The notification of played files as a further service of `Transfers`, which its proofs would follow.
* `RIL_BT_GetDevListInfo` and `RIL_BT_GetDevListPointer`, which hand the table itself to another task.
