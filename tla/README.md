# A verification development of the PLC fleet emulator

The repository runs emulated industrial devices. Each device is a process
(`plc_emulator.py`) that serves a *process image* over one industrial protocol
while a simulation moves it and injected faults distort it. A web application
(`web/app.py`) starts, stops and watches the device processes, passes fault
commands to them, and runs one operator panel (HMI, `hmi_client.py`) per device
on demand. This directory holds TLA+ models of those parts, the TLC
configurations that check them on small instances, and TLAPS proofs of the most
important properties for systems of every size.

Paths below are relative to the repository root; line numbers are given where
the point is a single line.

## 1. The system

| Part | State | Operations | Modelled in |
| --- | --- | --- | --- |
| Process image, `emulator_core.py` | `state`, `shadow_state`, `active_faults`, the clock; one RLock | client writes, `set_fault`, `clear_fault`, reads through faults, `apply_physics_tick` | `DeviceModel`, `Physics`, `ProcessImage`, `TankImage`, `ActuatorImage` |
| S7comm backend, `protocols/s7comm.py` | DB1, DB2, DB900 as byte arrays shared with the snap7 server's thread | refresh loop: `sync_from_s7_controls`, `sync_to_s7`, sleep; the client's block writes | `S7Backend` |
| FINS backend, `protocols/fins.py` | `last_peer`, `next_unsolicited_due`, `unsolicited_state`, `pending_unsolicited` | memory read and write, the push loop | `Fins` |
| EtherNet/IP backend, `protocols/cip.py` | session handles, the one `active_connection`, sequence number, due time | Register/Unregister Session, attribute and assembly writes, Forward Open/Close, the UDP producer | `Cip` |
| Modbus backend, `protocols/modbus.py` | the library's data blocks | requests go to `read_modbus` and `apply_modbus_write` | `ProcessImage!ModbusWrite`, `Modbus` |
| Fault control, `emulator_core.py` and `web/app.py` | the command file, the reader's offset, the status file | accept a command, read a batch, apply, report | `FaultControl` |
| Fleet manager, `web/app.py` | `instances`, `hmis`, their two registry files, child processes | create, start, stop, delete, open HMI, launch and stop a facility, restart | `Fleet` |
| HMI client, `hmi_client.py` | command queue, snapshot, event list, status file | execute commands, poll, write the status | `Hmi`; the requests it makes: `Modbus`, `S7Backend` |
| Protocol registry and stub, `protocols/__init__.py`, `base.py`, `stublog.py` | a table filled at import | look-up at launch | `Unsupported` of `Fleet` only |
| Device definitions, `device_defs.py`, `devices/*.json` | none, read anew for every request | load and check the files of a directory | `DeviceLoader`; what a valid definition guarantees: `DeviceModel` |
| Facilities and saved devices, `web/app.py` | SQLite rows: `saved_devices`, `facilities`, `facility_devices`; instances by tag | save, edit, delete, add and override members, export, import, launch, stop | `FacilityStore` |
| Accounts, `web/app.py` | `users` rows, browser sessions, `failed_login_attempts`, `login_lockouts` | register, log in and out, count failures, lock out | `Accounts` |
| authbind set-up, `authbind_utils.py`, `scripts/` | files in `/etc/authbind` | create them | not modelled |
| Legacy emulator, `plc_em.py`, `plc_types.py` | — | superseded | not modelled |
| Browser, `web/static`, `web/templates` | — | rendering | `Answered` of `Hmi` only |

How they interact:

- Inside a device process everything runs on one asyncio loop: the backend, the
  physics task (5 Hz), the fault-control task (0.2 s). They meet in the process
  image, whose methods take a lock, so one method call is one step. Backends
  pause only at an `await`. The exception is S7: the snap7 server answers from
  its own thread and shares the byte arrays of the data blocks with the refresh
  loop, without a lock.
- The web application and its children talk through files: command files it
  appends to and the child reads, status files the child rewrites and the web
  application reads. The files outlive the processes. Liveness of a child is
  `os.kill(pid, 0)`.
- Flask serves requests in threads; the dictionaries of the fleet and of the
  login lockout have no lock. SQLite runs one write at a time, so a request that
  reads and then writes is two steps.
- Every request of the web application that needs device types loads the
  directory of definitions again; a facility launch turns rows of the database
  into instances of the fleet, which keep the facility's id as a tag.
- An HMI is an ordinary client of its device, over the device's protocol.

What is hard here, and what each part must keep true:

- *Process image.* Faults replace each other, sticking and releasing actuators
  leave acknowledged commands behind, readings are distorted and the process is
  not. Correct: no shadow outlives its fault, a cleared point tells the truth,
  reports stay in range, a frozen report holds, a stuck plant does not move,
  alarms describe the level, a tick obeys the flows.
- *S7.* Client requests fall between any two steps of the refresh. Correct: a
  command written outside a refresh survives, nothing moves that nobody
  commanded.
- *FINS and CIP.* A background task serves whoever asked last, compares with
  what it remembers, and may die of a value it cannot encode. Correct: what the
  loop remembers is what the peer has, who opened is served, only frames that
  name a connection's session and serial end it.
- *Files between processes.* Batching, restarts, what an earlier run left,
  unanswered writes that a library sends again. Correct: in order, each executed
  at most once, nothing replayed, every answer shown.
- *Fleet.* Requests that overlap, children that end at any time, exceptions that
  nothing rolls back, a web application that dies between two steps of a request.
  Correct: what runs is shown, a restart finds the fleet, a launch that a conflict
  refuses leaves nothing.
- *Facilities, accounts, definitions.* Requests of several users and browsers
  overlap between a read and the write that relies on it, rows cascade when
  others are deleted, definitions are edited under way. Correct: rows stay with
  their user, snapshots stay as taken, an import fills all or nothing, a lockout
  is earned, a name is one account's, what loads has what the loader checks.

## 2. Modules

```
DeviceModel <- Physics <- ProcessImage <- TankImage, ActuatorImage
                               |       <- Modbus, S7Backend, Fins, Cip, FaultControl
                               |-- DeviceContract (abstract; INSTANCE)
Clients <- FacilityStore, Accounts      DeviceLoader
                 \________\______________/
                            Web
Fleet        Hmi               (stand alone)
MCx          EXTENDS x with the values of its constants
xProofs      EXTENDS x with its theorems; those about a device extend
             ProcessImageProofs, whose invariant they build on.
             ProcessImageProofs also holds those of the tank and the actuator,
             WebProofs those of the store, the accounts and the loader
```

| Module | Correspondence |
| --- | --- |
| `DeviceModel` | The points of a device definition and the conversions between raw and engineering values: `Normalize` is `_normalize_value`, `RawToEngineering` and `EngineeringToRaw` are the two conversions, with Python's rounding half to even. Values are integers in units of 1/`Res` of a raw unit; `Clamped` are the points that are kept in a range. `Held` are the values a point can hold: those the conversions give it, and the initial one, which nothing compares with the range. |
| `Physics` | The four simulations, each a function from the points' values to the set of possible values one tick later. Rates are per tick. |
| `ProcessImage` | `state`, `shadow`, `faults`, `now`. `WriteRawPoints` is `write_raw_point` for a set of points, `ModbusWrite` is `apply_modbus_write`, `SetFault`/`ClearFault` the methods of these names, `Exposed` what a read returns; noise makes it a set. |
| `DeviceContract` | The abstract device: a plant, a set of stuck actuators, the commands shown. It says that faults do not move the plant and that a stuck actuator acknowledges what it does not do. `ProcessImage!ImplementsContract` is the refinement. |
| `TankImage`, `ActuatorImage` | What the image of a tank PLC (`IsTank`) and of a stand-alone pump (`IsActuator`) must keep true in addition. `Shows` says whether clients, who read whole raw units, read a flow at all. |
| `Modbus` | A request is one step under the image's lock. `PollGroup` is one request of the HMI's `poll`, of a group of contiguous points; `Execute` is its `execute`; `ClientWrite` another client's request; `Answers` what `read_modbus` returns. `InBlock` is the library's check against its own data blocks; `Deliverable` is what `execute` and the library ask of a command. `FlowGoesWithTheMotor` and `TypedIsCommanded` are about the pump behind it. |
| `S7Backend` | `pc` is the step of the refresh loop; `SyncFrom`, `SyncToZero`, `SyncToFill`, `Wake`. `sync_to_s7` clears DB1 and DB2 before it fills them, so the two are two steps. The HMI's coil write is `ClientReadByte` and `ClientWriteByte`. |
| `FaultControl` | The web application's `AcceptCommand`, the process's `StartProcess`, `Boot`, `Exit`, the task's `ReadPending`, `ApplyCommand`, `FailCommand`, `FinishBatch`. The web application judges a command by the definition file as it is now (`Offered`), the process by the one it booted with (`Capabilities`). |
| `Fins` | A datagram is one step (`MemoryRead`, `MemoryWrite`, `Reject`), as is one turn of the push loop (`LoopTick`), during which the clock may go on: what it compares (`RawStates`) and what it sends (`LaterRawStates`) are two readings. Time is counted in half seconds. |
| `Cip` | A request is one step, as is a turn of the producer task; time is counted in turns of 5 ms. A request names the session it acts under, any registered one (`HasSession`), since the server does not look at who registered it. `SetAssemblyRaises` is a write that ends in an exception half way. |
| `Fleet` | A request is a *job*, a sequence of steps that other threads' steps come between; the granularity is that of the blocking operations and dictionary accesses of the code. A save is a dump and a write for each of the two files. An exception that is no `ValueError` ends the request where it is: `SaveRaises` (a dictionary resized while it is dumped) and `Raise` (one resized while it is searched, or no log file to open). |
| `Hmi` | One turn of the client's loop is `ReadPending`, one `Execute` or `ExecuteFails` per command, before it any number of `SendInVain` up to the library's retries, a poll or none, `FinishTurn`. `Logged` is the deque of 48 events. `Shown` is what the web application makes of the status file. |
| `Clients` | The users and the threads that the store and the accounts share. |
| `FacilityStore` | The three tables by row id, and the launched instances with their tags. A request is one step if one write statement decides it; adding a member, importing, deleting and launching are several (`AddMember`/`InsertMember`, `ImportFacility`/`FillFacility`, `DeleteFacility`/`DeleteFacilityRow`, `LaunchFacility`/`LaunchNext`). `Plan` is what `validate_facility_launch` computes. |
| `Accounts` | `LoginCheck`, `LoginSucceeds`, `LoginFails` and `RecordFailure` are the steps of `login_submit`; `failures[k]` is the history of all failed logins of a key, with their ages, and `attempts[k]` says which of them the code's list holds. A pruned list is a new one, so that a thread may append to one that was dropped (`stale`). |
| `DeviceLoader` | The loader as functions: `Outcome` is that of the first check of a file that fails, `PointsOutcome` that of its first point that fails, with a `ValueError` or with something nobody catches; `Sound` is what the rest of the program relies on and the loader does check. |
| `Web` | Composes the three: browsers log in, a session's requests act on its user's rows, files of the directory are edited between any two steps and decide which configurations are valid. `IsFile` and `IsStart` say which files and which databases there can be. |

Names that end in what a mistake would do (`NormalizeUnclamped`, `ShadowKept`,
`PendingFirst`, ...) are marked `Mutant` in the modules. Nothing uses them: each
is a plausible mistake in the definition after it, and replacing that definition
by it makes the property named in `PROJECT.json` fail, which shows that the
property speaks about the code.

## 3. What the runs check

Run one with `tlc -config <cfg> <module>`. Ten pass; two end in a violation and
show where the program does not do what its documentation says.

| Run | Configuration | What it shows |
| --- | --- | --- |
| `lab_faults` | `MCLab` | A coil, a register that takes all four fault modes, a walking sensor and uptime. The register starts above its range. Every fault replaces every other one on a point while clients write and time passes: `HealthyPointTellsThePlant`, `ReportsStayInRange` (outside only with the value it started with), `FrozenReportHolds` (a healthy point in its range freezes at what it shows, and stays there), and `ImplementsContract`. |
| `tank` | `MCTank` | A vendor PLC preset. `AlarmsDescribeLevel`: switches, alarm word and level belong to one instant. `LevelFollowsFlows`: a tick moves the level by the flows up to half a raw unit. `AckIsReleased`. |
| `actuator` | `MCActuator` | The inlet pump behind Modbus with an HMI. `StuckPumpKeepsFlowing`: a pump stuck on, at a speed whose flow rounds to a raw unit or more, is given away by a flow that clients go on reading. `FeedbackTellsThePlant`: feedback settles on what the physical pump does. `FlowGoesWithTheMotor`: a poll of several requests never shows flow without the motor. `TypedIsCommanded`: what an operator types arrives, to half a raw unit. |
| `s7` | `MCS7` | `CommandsPersist`: what was written outside a refresh survives cycles, sticking and release. `StuckPlantHolds`: although the loop writes DB2 back to the image in each cycle. |
| `fault_commands` | `MCFault` | `LastCommandWins` and `StatusTellsTheFaults` over batches, failing commands and restarts; `FaultsTakeEffect`: an accepted command is applied unless the process ends or the task has died. The definition file is edited under way. |
| `fleet` | `MCFleet` | Four fleets. One user, two devices, an HMI, a facility with a member that cannot start, children that exit, one crash of the web application at any step, also in the middle of a save; two users over three devices; and two users at once with a crash, over two devices and over a device and its HMI. `RunningIsShown`, `TargetsAreDistinct`, `HmisHaveTheirDevice`, `RestartLosesNothing`; `LaunchIsWhole`: a launch that loses one of its targets to another request deletes what it created, and one that runs to its end leaves an entry for every member, whether or not it runs; launches that an exception other than the conflict ends are not rolled back and excepted. |
| `fins` | `MCFins` | Two peers, a tank, a switch that freezes, a level that nothing clamps and that drifts below zero or is noisy. `NothingMissed`: when the loop sees nothing new, the peer it served last has what the points read, of those that were neither noisy nor drifting at that push. `TelemetryReachesThePeer`: while the loop runs, the peer gets that again and again. |
| `cip` | `MCCip` | Two clients with the same serial numbers in every order of register, open, replace, close, unregister, leave, and of writes that raise, each under any registered handle, its own or not. `ConnectionHasItsSession`; `OnlyItsSessionCloses`: only frames that name the session and the serial, its end, or a replacement end a connection; `OpenedIsServed`. |
| `hmi` | `MCHmi` | Three commands, two runs of the client, an unreachable device, lost answers and writes sent again, another client. `CommandsAreSentInOrder`: each is executed at most once, and what is sent again goes out before the next. `CommandsAreAnswered`, as long as the answer is not pushed out of the deque. |
| `web` | `MCWeb` | Two browsers, two users, edited definition files. `MembersStayWithTheirUser`, `OnlyOwnRowsChange`, `RowsOfTheAwayStay`: no overlap of requests gives a user another's rows. `LibraryEditsKeepPlans`: a facility launches its snapshots. `ImportFillsAllOrNothing`. `TaggedHaveTheirFacility`: Stop can reach what a launch started. `NamesAreUnique`, `LockoutIsEarned`. `LoadedTypesAreSound`: the directory loads unless a file raises something other than `ValueError`; then every file is a device with what the loader checks, or a reported error. |
| `s7_coils` | `MCS7Coils` | *Violation* of `UncommandedPointsRest`. An HMI's coil write that falls between the clearing and the filling of DB2 copies zeros into the neighbouring coils and switches one off that nobody commanded. |
| `fins_dead` | `MCFinsDead` | *Violation* of `TelemetryGoesOn`. With noise on the flow of a tank whose pump stands still, the reading is below zero, `struct.pack` raises, the push loop ends and the peer keeps stale telemetry. |

All type invariants and `ShadowOnlyWhileStuck` are theorems; those of `Fleet`,
`Fins` and `Web` are checked by their runs as well.

Some properties excuse what the code is known to lose, so that they can say that
it loses nothing else; a history variable marks the excuse. `suspect` in `Fleet`:
devices about which two requests overlapped, or whose request a crash cut short,
and all of them after a crash that found a file torn or written by a save that
was overtaken. `raced` in `Fleet`: `raced.dumps` are the registry files of which
two dumps were last pending at once, so that either may be written last,
or whose last save an exception ended; `raced.files` those that still have what was written then.
`TargetsAreDistinct` allows a target as many instances as there are requests at
once, so one for a single user. `crossed` in `FacilityStore`: facilities deleted
while a launch was under way. `LockoutIsEarned` says one direction only: the
other, that so many failures lock, does not hold (section 5).

### Bounds, and why they are enough

Each bound is a constant of its module.

- `MCLab`: one point of each kind of interest; two drift rates of opposite sign,
  clock up to 2 with the uptime wrapping at 2, so the wrap and both clamps are
  reached. Raw writes are 0 and a value above the range; one point starts above its own. Faults are per point,
  so one point that can take all of them meets every order of replacement.
- `MCTank`: a tank of three raw units, reached from both ends in a few ticks,
  with `Res` 4 and a second speed that moves three quarters of a raw unit, so
  that the level has a fraction for the next tick to round.
- `MCActuator`: speeds from stopped to full, of which one makes a flow that clients
  see and one a flow that rounds to 0; typed values below, inside
  and above the range, two of them between raw units. Flow and motor status are
  neighbours and form one group, the two commands are a group each, so a poll has
  requests for the rest to come between. `Sessions` splits the run in three, all
  faults without an HMI, noisy meters and stuck actuators with one, since their
  product is out of reach and no property is about it.
- `MCS7`: two coils in one byte, a register, a sensor; one client with one
  request outstanding. A second client would add nothing to what may come
  between two steps of the loop, since writes are stored at once.
- `MCFault`: three commands and two runs: a command in an earlier run, two in
  one batch, one in the next. The process boots with the first of two versions of
  the definition file; the second offers a mode that the process refuses.
- `MCFleet`: `Shapes` gives the four fleets their ids, requests and crashes. Two
  devices are enough for a conflict, an HMI for the cascade, three pids for two
  devices and an HMI, one crash since a restarted web application starts from
  its files alone. Two users need three devices: two members and the one that
  takes the second's target. With a crash they need two devices at most, since
  what a crash adds is a registry file that an overtaken save left behind.
  Devices and threads are interchangeable and no property names one, so symmetry
  is sound; no liveness is checked with it.
- `MCFins`: two peers, so that the last peer changes; an interval of two ticks,
  so that a change may come between two pushes. `MaxU16` is 7 in place of 65535:
  the model's values stay below it, and what matters is the lower end. One point
  freezes, one drifts and is noisy, the clock goes on once, also within a turn of
  the loop.
- `MCCip`: two originators with two common serial numbers; three handles, so
  that one client has had two sessions; an interval of 2 and sequence numbers
  that wrap at 2; a register whose address lies beyond their number, so that a
  write can raise.
- `MCHmi`: three commands, some of which may be refused, two runs, one resend in
  place of three and a deque of three events in place of 48: three commands and a
  poll overflow it.
- `MCWeb`: `Starts` gives five databases and browsers to start from: an empty one
  with four requests, which reaches a lockout (limit 2) and two registrations of
  one name; and a library with one saved device, facility and member, with both
  browsers of one user or one each, and two or three requests, the most that can
  overlap with two browsers and one more. Two names that differ in case share a
  key of the lockout. Three facility files: one with an override that is refused,
  one with a configuration without a type, one that can be imported. The
  definition files vary one field at a time over what its check tells apart.
  Browsers are interchangeable; only safety is checked, so symmetry is sound.

### Fairness

Only what the scheduling of the code gives. `WF(PhysicsStep)`: `run_physics`
ticks in a loop that ends only with the process. `WF(Boot)` and `WF(FaultTask)`:
a process that was started reaches its event loop, and the fault task sleeps
0.2 s between turns. `WF(LoopTick)` and `WF(ProducerTick)`: the same of the FINS
and CIP tasks; both disable themselves when an exception ends the task, so
fairness does not revive it. `WF(Boot)`, `WF(LoopStep)`: the HMI's loop. Nothing
is assumed of users, networks, crashes or faults. Deadlock is checked in every
run; `Done` of `Fleet` and of `Web` is the end of their bounds.

## 4. What is proved

The theorems hold for every value of the constants that meets the assumptions
below, and for runs of any length. `tlapm M.tla` checks the proofs of module `M`.

| Module | Theorem | Statement |
| --- | --- | --- |
| `ProcessImageProofs` | `TypeCorrect` | `Spec => []TypeOK`: a point's value lies in its range, or is the one it started with |
| | `NoShadowOutlivesItsFault` | `Spec => []ShadowOnlyWhileStuck` |
| | `ClearedPointsTellTheTruth` | `Spec => []HealthyPointTellsThePlant` |
| | `ReportsAreInRange` | `Spec => []ReportsStayInRange` |
| | `FrozenPointsHold` | `Spec => FrozenReportHolds` |
| | `ImageImplementsContract` | `Spec => ImplementsContract` |
| | `AlarmsAlwaysDescribeLevel` | `IsTank` implies `Spec => []AlarmsDescribeLevel` |
| | `LevelAlwaysFollowsFlows` | `IsTank` implies `Spec => LevelFollowsFlows` |
| | `StuckPumpsKeepFlowing` | `IsActuator` implies `Spec => StuckPumpKeepsFlowing` |
| `S7Proofs` | `S7TypeCorrect` | `S7Spec => []S7TypeOK` |
| | `StuckPlantsHold` | `S7Spec => StuckPlantHolds` |
| | `CommandsArePersistent` | `S7Spec => []CommandsPersist` |
| `FinsProofs` | `FinsTypeCorrect` | `FinsSpec => []FinsTypeOK`: no packet holds more than a word can |
| | `NoChangeIsMissed` | `FinsSpec => []NothingMissed` |
| `FaultControlProofs` | `FaultControlTypeCorrect` | `FCSpec => []FCTypeOK` |
| | `StatusAlwaysTells` | `FCSpec => []StatusTellsTheFaults` |
| | `LastCommandAlwaysWins` | `FCSpec => []LastCommandWins` |
| `CipProofs` | `CipTypeCorrect` | `CipSpec => []CipTypeOK` |
| | `ConnectionsHaveSessions` | `CipSpec => []ConnectionHasItsSession` |
| | `ConnectionsEndUnderTheirSession` | `CipSpec => OnlyItsSessionCloses` |
| `HmiProofs` | `HmiTypeCorrect` | `HmiSpec => []HmiTypeOK` |
| | `CommandsKeepTheirOrder` | `HmiSpec => []CommandsAreSentInOrder` |
| `FleetProofs` | `FleetTypeCorrect` | `FleetSpec => []FleetTypeOK` |
| | `RestartsLoseNothing` | `FleetSpec => []RestartLosesNothing` |
| | `TargetsStayDistinct` | `FleetSpec => []TargetsAreDistinct` |
| | `HmisKeepTheirDevice` | `FleetSpec => []HmisHaveTheirDevice` |
| | `ProcessesStayInSight` | `FleetSpec => []RunningIsShown` |
| | `LaunchesAreWhole` | `FleetSpec => LaunchIsWhole` |
| `WebProofs` | `MembersAreTheirUsers` | `StoreSpec => []MembersStayWithTheirUser` |
| | `TagsAreOfFacilities` | `StoreSpec => []TaggedHaveTheirFacility` |
| | `RequestsKeepToTheirUser` | `StoreSpec => OnlyOwnRowsChange` |
| | `PlansOutliveTheLibrary` | `StoreSpec => LibraryEditsKeepPlans` |
| | `StoreTypeCorrect` | `StoreSpec => []StoreTypeOK` |
| | `ImportsAreWhole` | `StoreSpec => ImportFillsAllOrNothing` |
| | `NamesStayUnique` | `AccountsSpec => []NamesAreUnique` |
| | `LockoutsAreEarned` | `AccountsSpec => []LockoutIsEarned` |
| | `WebTypeCorrect` | `WebSpec => []WebTypeOK` |
| | `PartsKeepTheirInvariants` | `WebSpec => []`(members, tags, names and lockouts as above) |
| | `LoadedAreSound` | `WebSpec => []LoadedTypesAreSound` |
| | `AwayMeansUndisturbed` | `WebSpec => RowsOfTheAwayStay` |
| | `StoreStepsStayProper` | `WebSpec` implies the three action properties of the store |

### Inductive invariants

Few of these properties are inductive. Each module states a stronger one at its
top, has a lemma for the initial states and one for each action or group of
actions, and concludes.

- *Process image.* `HealthyPointTellsThePlant` is not inductive: a point without a
  fault shows its shadow, if it has one. `IInv == TypeOK /\ ShadowOnlyWhileStuck`
  is, where `SetFault` and `ClearFault` need that removing a stuck fault removes
  the shadow. Truth of healthy points and range of reports follow from `IInv`, of
  which `Held` is the part that lets a point keep an initial value outside its
  range until something converts it; the range of a drifting or noisy report is the lemma that `Normalize` ends in the
  range of its point. The refinement needs one more fact, that only writable
  points the simulation does not drive can be stuck (`StickingAssumption`).
- *Tank.* The alarms are kept by a tick because the flags are those of the level
  it stores, and by every other action because it writes none of the points. The
  error of a tick is that of `RoundHalfEven`, at most half a raw unit (lemma
  `RoundingError`), and clamping does not enlarge it.
- *Actuator.* `StuckPumpKeepsFlowing` follows from `IInv` before and after the
  step: no write and no fault moves the physical pump while its shadow stands, and
  the tick that computes the flow does so from that pump. That the flow rounds to
  a raw unit (`Shows`) and the meter is in no range carry it to what clients read.
- *S7.* `S7Inv` adds to `IInv` that the blocks hold 16-bit words between any two
  steps. What the loop takes back is then a set of raw writes as any client's
  (`TakeControlsKeepsIInv`), and a raw write to a stuck actuator goes to the
  shadow. `CommandsKept` follows a command around the cycle: it is in DB2 while
  the loop sleeps or is about to take it (`CommandsInBlock`), and in the image,
  shadow included, while the loop rewrites the blocks (`CommandsInImage`). It goes
  round because writing and reading a register are inverse on a raw value, for
  every range and scale that a device may have, and because a point that can only
  stick is never distorted (`FaultsAllowed`).
- *FINS.* `SentIsRemembered`: for the points that were neither noisy nor drifting
  at the last push, what the peer served last was sent is what the loop remembers,
  although the code reads them once to compare, once for the packet, and the clock
  goes on in between (`SteadyReads`). `NothingMissed` is then the comparison that
  the loop makes.
- *Fault control.* `FCInv`: the batch is the rest of the file up to the offset, so
  the commands obeyed are those up to `Obeyed`; the active faults are those that
  the last command for each point among them left (`FaultsFollow`); the status is
  behind only while a batch that changed something is being applied.
- *CIP.* `ConnInv`: the session of the connection is registered, and what is
  remembered of each session names serials. A frame may come from any client under
  any registered handle, so nothing is said of who sent it; a connection that ends
  does so in one of the requests that name its session, or is replaced. Equal
  serial numbers under different sessions do no harm.
- *HMI.* `HmiInv`: whatever was sent, in this run or before, precedes what waits
  in the batch or is the head of it, sent in vain `tries` times; the batch is in
  the order of the file and before the offset, and nothing waits when the client
  reads. Resends of one command are thus neighbours in `sent`, at most `Resends`
  more than one (`SendFacts`).
- *Fleet.* `FleetTypes` says what a job can look like: what waits behind its head
  are steps that a request or a call put there, and a step with what an earlier
  one read (a dump, an entry, a pid) stands at the head only. Five more invariants rest on it.
  `FilesCatchUp`: for a file whose dumps did not race, somebody is about to dump
  it, or the one dump that is pending agrees with the dictionary, or nothing is
  pending and the file does; agreement is up to the pids of dead processes, which
  a restart forgets anyhow, and which the kernel does not give again while an
  entry names them. `FewShare`: the devices with a target and the threads that
  found it free add up to at most the requests at once, in the dictionary, in the
  file and in every dump under way. Most actions touch neither, so each of these
  two is proved of the two writes of a save, the crash and the insertion, and of
  all others through one lemma about the shape of a quiet step (`IsMove`).
  `JobsKeepOrder`, for `HmisHaveTheirDevice`: every step names devices of its
  request or their HMIs (`StepsAreWithin`), so what two requests both touch is
  suspect (`RequestsOverlap`); a job removes a device only behind steps that
  remove each of its HMIs (`HmisGoFirst`), and an HMI about to be inserted is new
  to everybody and its device is there (`InsertionsFit`). A crash brings back what
  the files hold, hence `FilesKeepUp`, device by device: a file has the entries
  about a device that the dictionary has, with the pids that still live, unless a
  request about it has still to save or saves raced (`SameAbout`). Each action is
  shown to change only what its job names and to keep its job within reach
  (`Keeps`); one lemma per conjunct does the rest.
  `ProcessesInSight`, for `RunningIsShown`: a process that lives for an unsuspected
  device is the one its entry names, or the one a thread is about to record there
  (`AreShown`). What must be known for that when a step comes up is part of the
  invariant (`StepsAreSound`): nothing runs where a step spawns, inserts, creates
  or forgets, only the pid that a step records or confirms, and where a step
  removes an entry nothing runs or an earlier step of the job stops it. A spawn is
  for a device of its request that is still there (`SpawnsFit`). Jobs either build
  or remove, create a device once and confirm right after a save (`JobsAreSorted`),
  so nothing that waits in a job is made wrong by what comes before it; and as the
  jobs of others name nothing that an unsuspected request names, neither by them.
  A crash needs `FilesKeepUp`: the file names the same live process. An exception
  ends a job and nothing else, so that what waited in it is void (`RaisesKeep`);
  one in a save also marks the files it leaves behind (`SaveRaisesFacts`).
  `LaunchesFit`, for `LaunchIsWhole`: the devices of a launch whose devices no other
  request touched have no HMIs, and the launch either goes on or rolls back. As
  long as it goes on (`GoesOn`), each device is in the fleet or has a step that
  creates it, and what it starts is known. Once a start was refused (`RollsBack`),
  each device that is still there has a step that takes it out, and what is to be
  stopped or removed is known; for that to last, devices must be taken out one
  after the other (`UndoesInTurn`). When no step is left the first case has all
  devices in the fleet and the second none. Jobs of others name none of these
  devices (`UndisturbedLaunch`, from `StepsAreWithin` and `RequestsOverlap`).
- *Facility store.* `RowInv`: the ids a request under way holds were given out
  before it began. As ids are never given twice, a row that was deleted in the
  meantime is not replaced by another user's, and one that is still there is the
  user's own. `TagInv`: a launch's facility is there unless a deletion crossed it.
  `StoreInv`: what rows, exported files and jobs hold; an import has filled as
  many entries as it remembers. Rows in the order of their ids are a bijection
  that counts the ids up to each (`UpTo`, `AreIds`), which takes the place of an
  induction over the table; so a facility's plan is compared place by place.
- *Accounts.* Whether a name was free when a registration looked does not matter
  to `NamesAreUnique`, since the insertion meets the UNIQUE column. The rest of
  `AccountInv`: every failure a list holds is in the history (`HeldAreInHistory`),
  a request that is about to append has just pruned its list, also if that list
  was dropped since (`AppendsAreRecent`), and so the lists that reach the limit
  hold so many different failures within the window (`LockoutIsEarned`).
- *Web.* `WebInv` joins these with `types = TypesOf(directory)`. Each step of the
  whole is a step of one part that leaves the other's variables alone, or one of
  a file, which no part's invariant mentions.

### Assumptions

All are evaluated by the runs.

- `DeviceAssumption`, `AddressAssumption` (`DeviceModel`): what the loader
  checks of a definition, kinds and distinct addresses, and that ranges are not
  empty. An initial value is a number, of a Boolean point 0 or 1, which is what
  `__post_init__` makes of it or fails to; it need not lie in the range.
- `PhysicsAssumption`: the parameters of the simulation are integers and the
  tank has its ends in order.
- `ImageAssumption`, `UptimeAssumption`: the environment's parameters; `uptime`
  is an unclamped register nobody writes.
- `StickingAssumption`: no device lets the simulation drive a point that can get
  stuck. True of every shipped definition, not checked by the loader.
- `IsTank`, `IsActuator` are hypotheses of the theorems about tanks and pumps and
  hold of the shipped presets: their points and kinds; of a tank a level that
  trips nothing at the start and an emergency stop that no client writes; of a
  pump a flow meter that no client writes and nothing clamps.
- `S7Assumption`, `FinsAssumption`, `FaultControlAssumption`, `CipAssumption`,
  `HmiAssumption`, `StoreAssumption`, `AccountsAssumption`: the bounds are natural
  numbers, not zero where something must happen once, the names that stand for
  "none" are none of the values, and a lockout is no longer than the window of the
  failures that lead to it (`web/app.py:82`).
- `FleetAssumption`, `FacilityAssumption`: ids of devices and of HMIs differ, ids
  and threads are finitely many, which they are at any time, and the members of a
  facility have different targets, as `validate_facility_launch` checks. Also that
  a pid some entry names is not given to a new child (`FreePids`), which the kernel
  keeps to for a long time and not for ever.
- `WebAssumption`: a file has the fields that the loader looks at (`IsFile`), and
  the database to start with has rows that fit one another (`IsStart`), as the
  schema's foreign keys and the handlers' tests see to.
- `ModbusAssumption` belongs to a module that is model-checked only.

### Model-checked only

- All liveness: `AckIsReleased`, `FeedbackTellsThePlant`, `FaultsTakeEffect`,
  `TelemetryReachesThePeer`, `OpenedIsServed`, `CommandsAreAnswered`. Fairness and
  `ENABLED` are out of the prover's reach.
- `FlowGoesWithTheMotor`, `TypedIsCommanded` of `Modbus`: the first needs the
  history of a poll, the second two conversions with rounding.

## 5. Behaviour met while modelling

Besides the two violation runs, the models contain behaviour that a reader of
the documentation would not expect. It is in the actions as the code has it, and
the passing properties are stated so that they say what does hold.

In a device process:

- `set_fault` removes the previous fault before `freeze` captures the value
  (`emulator_core.py:284`), so a drifting point jumps back and then freezes, where
  `README.md:217` says that it "holds its last value".
- Initial values are neither checked (`device_defs.py:248`) nor clamped
  (`emulator_core.py:186`): a point may start outside its range, stays there until
  it is written or simulated, and jumps into it when it freezes. One that is no
  number, which the loader accepts too, ends the process that is started.
- A flow under half a raw unit per tick is rounded away by every tick
  (`emulator_core.py:373`). At 1 to 4 % speed the shipped inlet pump makes less
  than half a raw unit of flow, which clients read as 0 (`emulator_core.py:260`).
- A drift on a writable register of an S7 device enters the process: the loop
  publishes the distorted value in DB2 and takes it back as a command
  (`emulator_core.py:465`). The same clearing that loses coils lets a client
  read a frozen point of DB1 as 0.
- An S7 coil write reads the neighbours of its coil only in byte 0: for a coil in
  a later byte the client writes a fresh one, so its neighbours become zero
  (`hmi_client.py:252`). No shipped device has such a coil.
- Commands accepted while a process boots, by fault control
  (`emulator_core.py:130`) and by the HMI client (`hmi_client.py:61`), lie before
  the position from which the file is read, and are not executed.
- A fault mode that does not fit its point, which the loader accepts, ends the
  fault task (`emulator_core.py:592`), and so does a mode that was added to the
  definition file after the process booted: the web application reads the file
  for each request and accepts it.
- The Modbus server's data blocks have a fixed length, so points at addresses
  beyond it cannot be reached. The answer to a write of one point does not echo
  what was written: the library reads it back with the write's function code, for
  which `read_modbus` returns zeros.
- FINS pushes come on a change and not periodically (`fins.py:334`), any
  datagram makes its sender the peer (`fins.py:306`), and the loop remembers a
  reading other than the one it sent (`fins.py:347`), which under noise may
  leave a distorted value with the peer after the fault is cleared.
- A second Forward Open takes the one connection from the first originator
  (`cip.py:680`), and a negative reading ends the producer (`cip.py:360`) as it
  ends the FINS loop.
- The server takes the session from the frame and never compares it with the
  connection the frame came on (`cip.py:478`, `524`, `559`), and handles count up
  from 1. So a client that uses another's handle, by mistake or after a
  reconnection, unregisters that session and ends its implicit connection.
- The HMI's Modbus client is built with the library's default of three retries
  (`hmi_client.py:154`, `requirements.txt`), so an unanswered write is sent again
  within one `execute()`, and may overwrite what another client wrote meanwhile.
  An event is lost if more than 48 come before the next status
  (`hmi_client.py:393`); the page may then wait for an answer in vain.
- The length of an assembly write is checked against the number of registers, the
  words are then read at their addresses (`cip.py:297-311`): with a gap between
  the addresses a write raises after its first points were stored.

In the web application:

- An exited child answers `os.kill(pid, 0)` until it is waited for, so it is
  shown as running (`web/app.py:427`), and a start whose child exits at once is
  reported as a success (`web/app.py:604`).
- Two overlapping starts of one device leave a process no entry names
  (`web/app.py:574`).
- A launch is not all or nothing, as `README.md:109-113` has it. A member that
  cannot be started stays in the fleet, with a warning (`web/app.py:2039`). Only
  the `ValueError` of a conflict is rolled back (`web/app.py:2041`): if another
  request changes the size of a dictionary that is being searched or dumped
  (`web/app.py:375`, `444`, `673`), or the log file cannot be opened
  (`web/app.py:584`), the request ends with an exception, and what it had
  inserted and not saved stays in the dictionary.
- Of two overlapping saves the one that dumped first may be written last
  (`web/app.py:438`); the file is then behind until the next save. If the web
  application dies before that, processes that were started meanwhile go on
  without an entry that names them.
- A restarted HMI is shown with the status of its earlier run until it has
  written its own (`web/app.py:752`).
- A refused import leaves an empty facility (`web/app.py:1433`).
- A facility that is deleted while a launch of it goes on leaves instances with a
  tag that no Stop reaches (`web/app.py:1978`); a launch goes by the plan it
  computed at its beginning.
- A configuration without a device type can be saved but not made a member: the
  column may not be empty, so the request ends in an error.
- The last second of a lockout lets a login through, a failure soon after a
  lockout locks again at once, and a failure appended to a list that another
  request has just pruned is lost (`web/app.py:907-936`).
- A definition file whose `kind` is a list or whose `address` is infinite raises
  what the loader does not catch (`device_defs.py:324`), so every request that
  needs device types fails, where `README.md:196` says that files "are rejected
  individually". A `scale` that is not a number passes the test for zero.

## 6. Not modelled, and why

- Framing, encapsulation, identity objects, addresses' byte order, SIDs and
  logs: no property depends on them. The deque of the HMI's events is modelled.
- The two block reads of an S7 poll and the client for an unsupported protocol,
  for which the web application refuses to open an HMI. Of the HMI client, this is
  what is left out.
- The protocol registry, filled at import, and the stub backend, which only logs;
  `Unsupported` of `Fleet` stands for a backend that is missing.
- `authbind_utils.py` and `scripts/`: files created once, by one process.
- The legacy `plc_em.py`; templates and style.
- Password hashing, cookies and CSRF tokens: Flask's and Werkzeug's.
- Labels, widgets and other fields of a definition that only get a type check.
- Errors in writing a registry file, such as a full disk, and a definition whose
  initial values or simulation parameters are no numbers.
- Parameters of faults that are not numbers; malformed lines in command files.
- A pid that the system gives to a foreign process after its owner ended.

## 7. Plan

Done, most important behaviour first: the process image and its contract, the
tank and the actuator, the S7, FINS, EtherNet/IP and Modbus backends, fault
control, the fleet, the HMI client, the facility store, accounts, the loader, the
composition of the last three; proofs for all of them but Modbus.

What remains worth doing:

1. A proof of `FlowGoesWithTheMotor`: what a poll has read and what the plant did
   since.
2. `S7Backend`: the poll of the HMI, two block reads between which a refresh may
   come, so that its screen shows two instants.
3. `Fleet`: a saved pid that belongs to a foreign process after a restart, which
   `stop` would then signal.
4. Composition of `Fleet` and `FacilityStore`: a launch that is both interleaved
   with other instances' requests and with edits of the facility. Each half is
   checked with the other abstracted; together they exceed what TLC explores in a
   reasonable time.
