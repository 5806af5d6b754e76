# A verification development for evsemaster

evsemaster talks to EVSE ("electric vehicle supply equipment") wall chargers over UDP on the local
network. This directory holds TLA+ models of its parts, translated from the source in
`src/evsemaster/`, configurations that check them with TLC on small instances, and TLAPS proofs of
what holds for every instance. Line numbers refer to `src/evsemaster/` unless a path says otherwise.

## 1. The system

Everything runs in one asyncio event loop. One `EvseListener` owns a UDP socket; every registered
charger has an `EvseDevice`; chargers broadcast most of what they send, so a frame meant for
somebody else arrives as well.

| Component | State it keeps | Operations | What makes it correct |
|---|---|---|---|
| Session (`device.py`; `_tasks` and the end of `stop()` in `listener.py`) | `_authenticated`, `_last_heading`, `_last_login_attempt`, `_login_future`, `_login_lock`, `_auto_login_task`, `_tasks` | `login()`, the handlers of headings, announcements, login answers, reports; `close()` on removal and on stop | one login at a time, which always returns, and returns True only when it may; a dropped registration is noticed and repaired; announcements do not cause a login each; a device that is gone comes to rest, and one whose listener stopped stays logged out |
| Registry and routing (`listener.py`, `_bind` in `device.py`) | `_by_ip`, `_by_serial`, `_discovered`; each device's `serial`, `host_ip` | `async_add_device()`, `async_remove_device()`, `stop()`, `_on_frame()` with `_route()`, `_bind()`, `_reindex()`, `_discover()` | packets of a charger reach its device and no other, wherever the charger moves; unmanaged chargers are reported once |
| Clock correction (`device.py`) | `_time_delta` | `_handle_system_time()`, the two epoch conversions, the start time of `start_charging()` | a schedule starts when it was meant to, and reads back as it was set |
| Socket lifecycle (`listener.py`) | `_transport`, `_protocol` | `start()`, `stop()`, `connection_made()`, `connection_lost()` | at most one socket, and it is the one in use; nothing is sent to a closing one; each call returns |
| Settings (`device.py`) | `_device_info`, `_weekly_plan`, `_status`, `_rereads` | the setters, their reply handlers, `_reread_later()`, `_update_device_info()` | what is shown becomes what the charger has |
| History (`device.py`) | `_history`, `_history_count`, `_history_lock` | `read_history()`, its two reply handlers | every slot is a record, empty, or named as unread |
| Charging (`device.py`) | `_status`, `_charging_status` | `start_charging()`, `stop_charging()`, status handlers, charge records and their acknowledgement | a session's record is offered to the consumer before this library ends its replay; a charge that goes on is shown |
| Frames and payloads (`protocol.py`, `DataPacket`) | none | `split_frames()`, `build_packet()`, parsers and builders | what is built is parsed back; of a datagram exactly the intact frames are handled |
| Capture tool (`tools/capture.py`) | the serial it learned, the sources that owe a remainder | `datagram_received()` | a frame is valid here if it is in the library; no part of a Wi-Fi reply is shown |
| Capabilities, data types | none | a lookup, schemas | (nothing beyond their tables) |
| `FakeEvse` (`testing.py`) | a session, settings, a clock | answers of a charger | the repository's own model of a charger; used here as the charger's side |

**Interaction.** `_on_datagram()` splits a datagram, `_on_frame()` routes each frame and creates a
task `_handle_packet()`, which therefore runs *later*, after whatever was queued before it. The
handlers never await, so each is one atomic step; `login()`, `read_history()`, `start()` and `stop()`
do, and are interleaved with handlers, timers, cancellation and each other. Devices send through the
listener's socket. The consumer calls methods and gets `on_event` callbacks.

**What is hard.** An answer racing the timer that gives up on it; a check and the assignment it guards
in different callbacks; tasks that are created but have not started; frames that are lost, reordered,
late, or meant for another client; chargers that change address, forget their client, or have a clock
a month off; removal while handlers are queued. `PROJECT.json` lists each hazard at its line.

## 2. Modules

| Module | What it is |
|---|---|
| `LoginService` | abstract: calls that run one at a time, return, and say True only if the device is authorised |
| `Session` | a device's session, its event loop, a charger after `FakeEvse`, and the network between them |
| `MCSession` | two interchangeable logins for `Session` |
| `SessionProofs` | TLAPS: types, `LoginIsSafe`, `StoppedStaysOut`, the throttle, the quiet of a device at rest, and the refinement of `LoginService` |
| `Ownership` | abstract: chargers are owned by registered devices, one each |
| `Routing` | the registry, its two indexes, and the routing of frames |
| `MCRouting` | interchangeable devices, chargers and addresses for `Routing` |
| `RoutingProofs` | TLAPS: types, `RoutingIsSound`, all three action properties, and the refinement of `Ownership` |
| `ClockSkew` | the clock correction and the times sent and read with it |
| `MCClockSkew` | skews and start times around every comparison, with the code's own constants |
| `ClockSkewProofs` | TLAPS: types, the tracking invariant, the aim of schedules and their reading back |
| `Settings` | setters, replies, the get that follows a set, the device info they live in |
| `MCSettings` | interchangeable values for `Settings` |
| `SettingsProofs` | TLAPS: types, `RereadsAreCurrent`, `NothingIsForgotten` |
| `HistoryService` | abstract: reads one at a time, in the order of their calls, each with an account of every slot |
| `History` | `read_history()`: the line at its lock, the count, the passes over the ring |
| `MCHistory` | a ring with a record that is told too short, and an empty slot that may get one |
| `HistoryProofs` | TLAPS: types, that every slot is accounted for, and the refinement of `HistoryService` |
| `RecordDelivery` | abstract: a record is kept until it was offered to the consumer or taken by another client, is offered only when its session is over, and does not come back |
| `Charging` | charging commands, status reports, records and acknowledgements, and a charger that also acts alone |
| `MCCharging` | one session; `MCCharging.cfg` checks what holds, `MCChargingAmps.cfg` what does not |
| `ChargingProofs` | TLAPS: types, that a record this device acknowledged was offered to the consumer, and the refinement of `RecordDelivery` |
| `Lifecycle` | `start()` and `stop()` as coroutines, the transport's callbacks, the event loop's queue |
| `MCLifecycle` | two callers and three sockets for `Lifecycle` |
| `LifecycleProofs` | TLAPS: types, and both safety invariants |
| `Frames` | pure operators: `build_packet()`, `split_frames()`, the checks and the unpacking of `DataPacket` |
| `FramesProofs` | TLAPS: what is built is accepted and unpacked to what was packed, datagrams are split where they were joined, and all properties of `Capture` |
| `Capture` | datagrams with damage and remainders, at the listener and at the capture tool; uses `Frames` |
| `MCCapture` | frames of every sort, and damage of every sort, for `Capture` |

### Session

`authenticated`, `loginFuture`, `lockHolder`, `autoTask` are the fields of `EvseDevice`. A time stamp
is modelled by its age: `headingAge` and `attemptAge` grow with `Tick` up to the limit the code
compares them with (35 s, 15 s), where they stand for "too old" and for `None`, which the code treats
alike. `ready` is the event loop's queue: a packet handler, the first step of an automatic login, the
callback by which `asyncio.shield` learns of the resolved future, and the resumption of a login. It
is first in, first out, as asyncio's is, and this order matters: the throttle of automatic logins rests on it.

`login()` is cut at its one await. `EnterLogin` is everything up to it, `ResumeLogin` everything
after it. The retry loop, the late answer that the next attempt finds already there, the request
for essentials that raises when the device was de-authorised meanwhile, cancellation and the `finally` are
all in `ResumeLogin`, with the helpers `Conclude` and `LeaveLogin`. `WaitExpires` is the timer of
`wait_for`, `HearAnswer` the shield; both only mark the login and queue its resumption, so that a
timer can still overtake an answer and the reverse. Each branch of `_handle_packet` that
touches the session is an action; the others are two, `HandleReply` for what is only taken in and
`HandleReport` for what is answered as well (278, 287, 369/371).

A password is right, wrong, empty (it never logs in by itself, 265), or one that `build_packet()` cannot encode. With that
last one everything that is sent raises: a login fails in its first step (216-218), and a handler gets no further than its response.
`closed` tells a device that was removed from one whose listener stopped: the first only is routed nothing more, while
`stop()` also closes the socket and cancels the handlers that are queued (listener.py:103-107). `background` is what else of the device is under way and sends: a `read_history()`,
which `close()` leaves alone, and the timer of a get that follows a set, which it cancels. What they do in detail is in `History` and `Settings`.

The charger announces while it has no client, heads and reports while it has one, answers a login request by the
password, a probe with a password error, and anything else with a reply. It may forget its client at any time
(`DropClient`; docs/device-behaviour.md:66 says the causes are not known). `Env` says what the
surroundings do: `user` calls `login()`, `cancel` cancels it, `poll` requests status, `history` reads the history, `reread` sets a setting, `close` removes the device, `stop` stops the
listener, `report` lets the charger report, `probe` broadcasts probes, `others` are other clients of the same charger, `drop` and `lose` let the charger
forget and the network lose. `late` lets the consumer call a device that it has removed; no run does, because nothing in the code
stops such a call from sending, and nothing is promised of it. The theorems hold with it: where it matters (`RestIsQuiet`) they name the calls.
A listener that is started again, and a device removed after the stop, are not modelled.

### Routing

Every frame of any serial from any address may arrive at any time, which covers address changes, two
chargers in turn at one address, late frames, and the zero serial. `Add` is `async_add_device` after
the host name is resolved (the check and the insertion follow the await together). `Frame` is
`_on_frame` with the helpers named after the code's. `status` is not in the code: it says which
devices the consumer still has registered, and is what the indexes are compared with.

### Settings

A setting is a value; what a nickname or a plan looks like on the wire is left out, and so are
arguments that are refused, which change nothing. `shown` is what the device says, in `_device_info` or `_weekly_plan`;
`timer` holds the settings with a live timer in `_rereads`; `actual` is the charger. The network reorders and loses
everything, sets, gets and replies, and other clients ask for settings and set them. A timer may fire at any time after its set (529-531), also while
that set is still under way. The handlers run whether or not the device was closed meanwhile: a login success that was queued
authorises it again, and a set may then start a timer. `unsure` is not in the code, and no guard looks at it: it holds the settings whose last get may have told
nothing, because it or its reply was lost, went out before the set had been and gone, or was dropped by `close()`, or because another client has set since.

### History

`queue` is `_history_lock` with its waiters, first come first served as asyncio's is; the read at its head is inside once `pc` is
not "idle". A read that finds the lock free goes straight in (`ReadHistory`), the others enter when it is released.
`read_history()` is cut at its awaits: `CountArrives`, `AskNext`, `EndPass` each run from one to the next.
Waits have no length: replies come before or after any of them, which is also how an answer
that the timer beats is lost (`CountExpires`). `Leave` is the two `finally` clauses and the release, on return, on
error and on cancellation. A record of `Short` comes with fewer bytes than it takes to be parsed, and is filed like an empty slot (379);
`Finishing` are the sessions that may end while a read runs. `asked` and `held` are not in the code: how often this read asked for each slot, and
what each slot ever held. They are what a returned history is judged by.

### ClockSkew

Times are seconds relative to now. A reply in flight is the skew it will show; replies are handled in
any order, with the clock moving in between. `measured` is the last one handled, which the code only logs.
`ToCharger` and `FromCharger` are the two conversions, with the timezone as the constant `Offset`.
`reservation` is the time of the last start as the charger has it; `start` is what was meant, and moves with now.

### Charging

`status` is the state last reported, on which the device decides; `state` and `session` are the charger's, which moves on
meanwhile: by command, or by itself (a cable, a card, its weekly plan: `ActsAlone`). `StartCharging` is `start_charging()` with the stop
it may send first, in the order of the code: the stop goes out even if the arguments are refused afterwards. The two datagrams
travel apart. A record is sent once when a session ends, then replayed until it is acknowledged, by this client or by
another (`OtherAcknowledges`, docs/device-behaviour.md:109-119); each kind has a response of
its own, and the charger heeds only the one to what it last sent. `offered` is not in the code: the sessions whose record
was given to `send_event()`. That is as far as the library goes, because there may be no `on_event`, or one that raises (176-180).
`short` are the sessions whose record cannot be parsed: `SkipRecord` neither acknowledges nor offers it (365).
`FakeEvse` ignores starts and stops, so this charger follows docs/device-behaviour.md and docs/protocol.md.

### Lifecycle

`start()` and `stop()` are cut at their awaits. `ready` is the loop's queue: `connection_made()`, the resumption of a
caller, and `connection_lost()`. `sock` and `unsent` are the transport's, after asyncio/selector_events.py: a closed transport is lost in
the next turn, but not before its unsent data is sent. Callers overlap as they like and are cancelled; `orderly` is not in the code and says
whether they ever did, or a `stop()` ever gave up. A socket binds although another is bound, as SO_REUSEPORT allows.
What `stop()` does to the devices and to the handlers that are queued is in `Routing` and `Session`.

### Frames and Capture

A datagram is a sequence of cells: one for each field of the envelope, one for each byte of payload. Lengths count
cells. The key type, a byte that nobody reads, is left out. `Capture` has sources, each an ip and a port, that put one frame or more and trailing bytes into a datagram. One cell of a frame may be
damaged, into any of `Values` that the checksum tells from what it was. A damaged length also moves the place where the checksum is looked for, and `NoOtherRunPasses` leaves out that
what stands there is right by chance; a Wi-Fi reply may come in two parts. It is cut only where neither part looks like a frame (`NoneLooksWhole`): a remainder
that held a header would be taken for one, and could be shown, and a first part with the right two cells at its end would be accepted. `Capture` runs the same datagram through `_on_datagram()` and through the capture tool's
`datagram_received()`, which repeats the test of `DataPacket` in its own words: `Valid` is translated from the one, `Accepted` from the other.
The tool compares ips only, and learns the port with the serial (106); it shows a frame's payload and what trails it (`Extra`) apart. `Settle` ends the round: everything was handled and written.

## 3. What is checked

| Run | Property | Shows |
|---|---|---|
| `session` | `TypeOK`, `LoginIsSafe` | lock, future, coroutines and queue always agree; no login sleeps on an answer that is there, none is resumed twice |
| | `StoppedStaysOut` | no answer that was queued when the listener stopped authorises a device afterwards |
| | `AutoLoginsAreThrottled` | an automatic login never begins within the cooldown of the previous login, although check (265) and stamp (195) are in different callbacks |
| | `ImplementsLoginService` | the promise of `login()`, also with probes, removal and stop changing the authorisation while it waits |
| `session_live` | `LogsBackIn` | after any loss and any drop the device is receiving again |
| | `DropIsNoticed` | a dropped registration is noticed although every poll is answered |
| `session_returns` | `EveryLoginReturns` | each call comes to an end: answered, timed out, cancelled, closed, or failed in its first step |
| | `ComesToRest` | the handlers, logins and history reads that `close()` leaves, and the logins that those handlers begin, come to an end |
| | `RestIsQuiet` | from then on nothing that still arrives, no timer and no late answer makes the device send again |
| `routing` | `RoutingIsSound` | an index never leads to a device that is gone, lives elsewhere or is another charger's, and a bound device is always found by serial |
| | `ChargersAreKept` | a device never becomes another charger's |
| | `ManagedAreNotDiscovered` | a managed charger is not reported as new |
| | `UnlistedByNeighbour` | a registered device drops out of both indexes only if it has no charger yet and another came to its address |
| | `ImplementsOwnership` | all of the registry, as one promise |
| `clock` | `CorrectionTracks` | threshold, rounding and inertia together leave the correction within a minute of the last measurement |
| | `SchedulesAreAimed` | a schedule set on a clock that is as measured starts within a minute of its time (or within the day that is left alone) |
| | `SchedulesReadBack` | a reservation reads back as it is set, whatever correction applies, on a charger that is no more than a day off or more than a day and the timezone ahead |
| `settings` | `RereadsAreCurrent` | a set or its reply that is lost or overtaken, two sets in a row, a set after `close()`: once nothing of a setting that is read again is under way, it is shown as the charger has it, unless the get that follows told nothing (`unsure`, above) |
| | `NothingIsForgotten` | a new device info does not wipe what is known of the settings |
| `history` | `EverySlotIsAccounted` | of a returned history each slot is unread and was asked in every pass, or has a record it did hold, or was empty at some time |
| | `ImplementsHistoryService` | the promise of `read_history()`: nobody is passed over, whoever is cancelled, and nobody shares the dictionary |
| | `EveryReadEnds` | the read inside, and each in line behind it, comes to an end: answered, given up, cancelled, closed |
| `charging` | `ImplementsRecordDelivery` | a record is offered only when its session is over, given up only when it was offered or another client took it, and then for good |
| | `RecordsAreDelivered` | the replay of every record that can be parsed ends, and then it was offered here or acknowledged elsewhere |
| | `ChargeIsShown` | a charge that goes on comes to be shown for good, although reports overtake each other |
| `lifecycle` | `OrderlyUseIsSafe` | if calls wait for each other and none gives up, at most one socket is bound, none is left behind, and `is_running` tells whether there is one |
| | `TransportIsOpen` | whatever calls overlap, are cancelled or give up, what is sent goes to an open socket |
| | `EveryCallReturns` | every call returns, although the kernel may never take what is unsent |
| `frames` | `FramesArrive` | of a datagram exactly the frames that are not damaged are handled, in order and with their payload, but for those behind a damaged length or header, which it may take along |
| | `ValidIsIntact` | the capture tool calls exactly the same frames valid, by its own test |
| | `RemainderIsRedacted` | the remainder of a Wi-Fi reply is not shown, whatever other sources sent in between |

Every pass run also checks the module's `TypeOK`; in `Settings` and `History` it includes which fields are set when,
in `Charging` that a charger is in a session exactly while it charges or waits to.
Two runs show where the code departs from what is said of it; `PROJECT.json` quotes the lines.

| Run | Property | What happens |
|---|---|---|
| `session_stuck` | `LogsBackInAfterProbes` | a probe's password error de-authorises a device in good order (268). The charger keeps its registration, because headings are answered by a de-authorised device too (253), so it never announces, and only an announcement logs in: the device stays logged out for good |
| `charging_amps` | `NoAmpsDuringCharge` | an amperage goes out to a charging model that ignores it, if the charge began after the last report, or before the first one |

More departures can be read off the models and have no run of their own.

*Session.*
- Authorisation "does not expire" (117), but the step that starts `session_stuck` takes it away.
- Another client's login success authorises a device whatever its own password is (254, against 113-115). No property says
  otherwise; `LoginIsSafe` and `ImplementsLoginService` hold all the same.
- Two announcements whose handlers run before the first login task starts both create one (265-267); the second
  overwrites `_auto_login_task`, and `close()` then cancels the task that would have returned at once.
- What a removed device has queued runs after `close()`, and sends, or logs in, although "the device stops sending" (224-225), and
  so do a user's login and a `read_history()`, which sends for minutes (535). All of it comes
  to an end, and then the device is quiet (`ComesToRest`, `RestIsQuiet`). `stop()` cancels the handlers and closes the socket (`StoppedStaysOut`).
- With a password that cannot be encoded an automatic login ends in its first step, so a second task, created before that, starts
  at once: it is within the cooldown, but sends nothing.
- The repository's README says `is_logged_in` needs "a packet other than an announcement within the last 120 seconds"; the code
  judges headings, within 35 s (123-137).

*Registry.*
- "Unregister a device so its packets become discovery events again" (`listener.py:133`), but a device removed before
  its first packet leaves its charger in `_discovered` (136).
- A charger that moves to the address of a device without a serial pushes that one out of both indexes (`listener.py:208`), so
  it is missing from `devices` (66), and `stop()` does not close it. When that one is removed, its entry is popped by key (135). `UnlistedByNeighbour` delimits when this can happen.

*Clock.*
- A correction is kept while a measurement is within 60 s of it (357), so a clock a minute further on starts schedules
  a minute early, not "late rather than early" (358); `SchedulesAreAimed` bounds it from both sides and does not rule it out.
- A correction that was right when it was measured is used (447) however far the clock has moved since; `SchedulesAreAimed` is
  about a clock that is as last measured.
- The library "compensates for both" (README.md:102) timezone and skew, but the correction is only taken out of a time that,
  with the timezone still in it, lies more than a day ahead (623). A charger that runs behind by a month reads back
  a month early; one that is ahead by little more than a day reads back that much late. `Compensated` delimits what does read back.
- Whether a start is a reservation is decided by comparing it with a later reading of the clock: on a clock coarse
  enough to read the same twice, a start "now" is not in the past.

*Settings.*
- "A get follows every set" (66), but only of language and weekly plan (509, 522): a nickname or amperage whose set reply is lost
  is shown as it was. `RereadsAreCurrent` is about the other two. The get itself is sent once: if it or its reply is lost, or the set is slower than two seconds, nothing repeats it.

*Charging.*
- "Acknowledge a charge record, and hand it over" (363): the acknowledgement leaves first (369/371), then the record goes to `send_event()` (372), which does
  nothing without an `on_event` and swallows what it raises (176-180). The charger then stops replaying a record that nobody took. No property
  says that the consumer has it, only that it was offered.
- `start_charging()` sends the stop first (425) and rejects its arguments afterwards (436, 442): a call that raises has ended the charge.
- The stop and the start that follows are two datagrams sent back to back (425, 453). If the start overtakes the stop, the stop
  ends the session just begun. The record of that session is still delivered; the charge that was asked for does not run.
- The amperage used by default, the configured limit, is not checked as an argument is (440).
- A charge id is the time to the minute (`protocol.py`), so two starts within a minute share it, and an acknowledgement
  of one is an acknowledgement of the other. The model gives each session its own.
- A record shorter than 88 bytes is not parsed and so never acknowledged (365); in a history read it is filed as an empty slot (379).

*Socket.*
- `OrderlyUseIsSafe` is about calls that wait for each other. What follows is what it leaves out, and `EveryCallReturns` says only that such calls return.
- Two `start()` at the same time find no transport and both bind (`listener.py:74`): the one resumed last
  is kept, and the other socket stays open.
- After a `stop()` that gave up (cancelled, or unsent data for more than two seconds) a `start()` shares the port with the old socket, and the
  old one's `connection_lost()` clears the new `_transport` (41): `is_running` is False, a socket is open, and the next `stop()`
  has nothing to close, waits two seconds for nothing, and leaves it open.

*Frames and capture.*
- A damaged length is believed by `split_frames()` before any checksum is checked (`protocol.py:48`); intact frames behind it may go with it.
  A frame whose own header is damaged is likewise not told from the end of the one before, which is accepted without it; frames behind them may be lost with it.
- The capture tool learns the serial from a frame that need not be valid (`tools/capture.py:106`), so it may be a damaged one.
- The first part of a Wi-Fi reply that is cut within its first 25 bytes is not a frame to the capture tool, which does not
  remember it as cut (`tools/capture.py:88-93`). The model cuts behind the envelope.

### Bounds

*Session.* Two logins: one inside the lock, one outside, or one queued; a third would wait or return
like the second. Two attempts: the first, which is retried, and the last, which is not. One tick for the retry
interval and two for cooldown and heading timeout keep "before", "at" and "after" of each
comparison, and let a login outlast both. `MaxReady` 2 admits two packets handled in a row before the tasks they create;
`MaxInFlight` bounds the *kinds* of datagram in flight each way (a set: a datagram sent again while one of
its kind is under way is the same one), and what does not fit is lost, as the network may.
`session` has all four passwords. `session_returns` has the two that differ in how a login ends, one tick for every time, and other clients.
`session_live` has room for every kind, so that there nothing is lost for want of room; its single login is
the automatic one. The proofs need none of these bounds to be small.

*Routing.* Three devices, two chargers and three addresses: a device displaced by a second at the address a third moves to.
Devices are added once, so the model comes to rest when all are removed and all serials are known;
deadlock is not checked there.
*Settings.* A setting of the device info that is not read again and one beside it that is, so that every branch is taken; two values and two
datagrams of each setting in flight, so that two sets, and their replies, overtake each other.
*Charging.* One session, one that is on from the start or one begun by command or alone; two commands and two reports in flight each way, so
that a stop and a start overtake each other, as do reports; records and acknowledgements do not count. *Lifecycle.* Two callers, so that
calls overlap in every pair; a socket more than callers, for the one that is left behind. *Capture.* Two sources, so that one comes in between; three
frames in a datagram, one before and one behind one that is damaged, at any cell; a frame without a serial, one with a payload that looks like a header, one of
an unknown command, a Wi-Fi reply; damage that makes a length none, a frame's own envelope, two frames', or more than there is, or makes a header of any cell. What trails the frames holds no header and no tail. The checksum's modulus is a small one that tells every damage there is.
*History.* Two reads, one inside and one in line; two slots, of which one has a record that is told too short, and the other is empty and may be filled meanwhile; two passes, the one that is followed by
another and the last. *Clock.* The code's own constants, and skews on either side of each of them.

### Fairness

`LoopFairness`: the event loop runs what is queued, time passes, timers fire. asyncio gives this as
long as no callback blocks, and the library's do not. It also ends a `read_history()`, which asks for so many slots and no more (`EveryReadEnds` in `history`), and fires the timer of a get that is owed. `EveryLoginReturns` assumes no more, and neither do
`ComesToRest` and `EveryReadEnds` (weak fairness of `Loop`, the steps of the read inside): no reply need ever come.
`NetworkFairness`, for `LogsBackIn` and `DropIsNoticed`: the charger keeps its beat (docs/device-behaviour.md:46-57),
and of a datagram that is sent again and again some copy arrives (strong fairness of its delivery, for the
login request, its answer, announcements and headings). Nothing is assumed of confirmations, of polls, or of the consumer.
In `Charging`: the charger reports, and replays an unacknowledged record, again and again, and of each report, replay and
acknowledgement that is sent again and again some copy arrives (strong fairness). In `Lifecycle`: the loop runs its
queue and the timer of `stop()` fires (weak fairness); the timer fires only if `connection_lost()` is not queued already, since
two seconds are longer than a turn of the loop. The kernel need never take what is unsent.

## 4. What is proved

`SessionProofs`, for any set of logins, any positive timing constants and any `Env`: `TypeCorrect`,
`LoginSafety`, `Throttle`, `LoginRefines`, `RestStaysQuiet`, `StopIsFinal`. The inductive invariant is `TypeOK /\ LoginIsSafe`. `LoginIsSafe` is stated so
that it is inductive: that a login is woken (`NoLostWakeup`) depends on which steps are queued
(`QueueAgrees`), and who holds the lock on the future (`LockAgrees`). The throttle needs two facts about
the order of the queue: tasks created before a login began start before it resumes
(`StartsComeFirst`), and while nobody is logging in a task waiting to start has the cooldown behind it
(`StartsAreDue`). The refinement maps a waiting login to a running call.
`RestStaysQuiet` follows from `LockAgrees`: with the lock free no login waits, so neither a timer nor an answer can make one go on; a device that is gone
is routed nothing, and with no read and no get in the background nothing else sends. What is left are the consumer's own calls, which it names.
`StopIsFinal` adds `StoppedDeaf`: of a device whose listener stopped, every handler in the queue is a cancelled one (`OnlyCancelled`), and none is
added, so no login success is left to authorise it.

`RoutingProofs`, for any devices, chargers and addresses: `RoutingTypeCorrect`, `RoutingSafety`, `ChargersKept`,
`ManagedNotDiscovered`, `UnlistedOnlyByNeighbour`, `RoutingRefines`. The invariant is `TypeOK /\ RoutingIsSound`; its use is in `RouteFinds`: a
packet is routed to the device bound to its serial, or to a device that has none.

`ClockSkewProofs`, for any threshold of a minute or more, any timezone and any skews: `ClockTypeCorrect`, `CorrectionsTrack`,
`SchedulesAimed`, `SchedulesAreReadBack`, and `AheadReadsBack`, the condition under which a time reads back as it was sent.

`SettingsProofs`, for any settings, values and number of datagrams: `SettingsTypeCorrect`, `RereadsStayCurrent`,
`NothingForgotten`. `RereadsAreCurrent` alone is not inductive; `OnlyGets` is: as long as no get is owed for a setting that is not `unsure`, only
gets of it are under way, so nothing changes it, and each reply in flight tells what the charger has.

`HistoryProofs`, for any readers, ring and number of passes: `HistoryTypeCorrect`, `SlotsAreAccounted`, `HistoryRefines`. The invariant adds to
these `PassesAgree` (a missing slot was asked in every pass so far, any other has answered) and `HeldIsKept`
(what is in flight or noted was in its slot at some time). `AskCounts` is the lemma both passes rest on.
The refinement maps the read at the head of the line to the one inside while `pc` is not "idle"; a turn that is not the last is a stutter, and that the
last returns an account is `EverySlotIsAccounted`.

`ChargingProofs`, for any sessions and number of datagrams: `ChargingTypeCorrect`, `RecordsKept`, `DeliveryRefines`. `RecordsKept` proves `RecordsAreKept`: what this device's acknowledgement ended was offered. The
invariant `Kept` adds `AcksFollow`: an acknowledgement in flight is of a session whose record was offered. The refinement needs `RecordsFollow` besides: a session that goes on has no record, and a record in
flight is of one that is over. A replay is a stutter, and an acknowledgement of the wrong kind is too.

`LifecycleProofs`, for any callers and sockets: `LifecycleTypeCorrect`, `OrderlyIsSafe`, `TransportStaysOpen`. In orderly use the
whole state is one of a few phases (`Phases`: stopped, opening, open, closing, closed), and each action leads from one to another. In any other
use nothing so simple holds, and `SocketInv` says what a queued callback means instead: whose connection is to be
made has a bound socket of its own, a start that is to be resumed has an open one, what is to be lost is closing (`QueueIsDue`);
no callback is queued twice, and no start is resumed before its connection is made (`Tidy`).

`FramesProofs`, for any commands, cells and payloads, and with no bound on the number or the length of frames. About `Frames`:
`NothingIsLost` (the pieces a datagram is split into make it up again, whatever it holds), `FramesAreSplit` (frames that were joined are split where they were
joined), `BuiltIsAccepted` (a built frame is accepted, and unpacked to what it was built from, whatever trails it). About `Capture`: `CaptureTypes`, `FramesAlwaysArrive`,
`ValidIsAlwaysIntact` and `RemainderStaysRedacted`. The invariant `IInv` adds `RestOK` to the types: what is to come of a Wi-Fi reply holds no header, so the remainder is one piece
and no frame. What a datagram gives does not depend on the datagram before it, so the rest of the proof is about one `Send`: a frame that is hit
is refused (`HitIsBad`: in its header it is no frame, in its length it ends elsewhere or in the wrong place, anywhere else the checksum tells, `ChecksumTells`), the
pieces before it are split as if it were not there, and the pieces behind it too unless it was hit in its length or its header (`SplitSent`).
`Recorded` says what the capture tool makes of pieces. `SplitFrames()`, the checksum and the capture tool's loop are recursive functions: that they exist,
and what they are at each index, is proved from the least number at which it would fail (`Recursion`, `Induction`), since the
library's induction theorems cannot be used. Assumed are the frames: built by `build_packet()`, and shorter than the number that the header is (1537), so that a length is no header; a modulus above one, and damage that is not a multiple of it, so that
a checksum tells; that behind a damaged length nothing passes by chance (`NoOtherRunPasses`); and trailing bytes without header or tail.

The assumptions are the named `ASSUME`s of the modules: positive timing constants, distinct null values,
a threshold of at least a minute. Model-checked only are the liveness properties, since TLAPS has no reasoning
about ENABLED (`LogsBackIn`, `DropIsNoticed`, `EveryLoginReturns`, `ComesToRest`, `EveryReadEnds`, `RecordsAreDelivered`, `ChargeIsShown`,
`EveryCallReturns`). That a read asks for slots in ascending order is in the model, and no proof uses it.

## 5. Plan

What is left, in this order.

1. `Settings` as a register that is read with a delay, and its refinement by `INSTANCE`.
2. `Lifecycle` composed with `Routing` and `Session` at `stop()`, which closes the devices of the registry, and a listener that is
   started again with the devices it had.

## 6. Not modelled

Byte layouts of payloads and the pydantic schemas (fixed offsets, no behaviour of their own); logging; the command line of `tools/` and
`test.py`. Fatal errors of the transport, which close it unasked, and interfaces and addresses of the host. The UDP network, the passing of time and a charger's clock are external: the models
let them do whatever the code has to cope with. Clock steps of the host, which move `_last_heading` and
`_last_login_attempt` against now, are outside the models.
