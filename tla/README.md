# A formal model of the FanPico firmware

FanPico is a fan controller for RP2040 and RP2350 boards. It reads PWM signals
from a motherboard, tachometers of fans and temperatures of many kinds of
sensors, and drives fans and the tachometer signals the motherboard sees. A
network stack (MQTT, SNMP, HTTP, Telnet, SSH) and a SCPI command language
configure and report it.

This directory holds TLA+ modules translated from the C sources in `src/src`,
TLC configurations that check them, and proofs for TLAPS. `PROJECT.json` maps
every definition to the lines it stands for, lists the runs, a mutation of the
code that breaks each property, the hazards the properties are for, and the
disagreements with the documentation that were met.

## 1. The system

### Processes

Three things run concurrently, and every hard behaviour comes from them:

* **core 0**: `main()` (`fanpico.c`), an endless loop that runs console commands,
  polls the network, I2C and 1-Wire sensors, updates the display and the
  persistent memory, and feeds the watchdog;
* **interrupts of core 0**: lwIP runs in `threadsafe_background` mode, so that
  its callbacks (MQTT, DHCP, DNS, SNMP, HTTP) run between any two instructions
  of the main loop;
* **core 1**: `core1_main()`, the control loop: read inputs, filter and map them,
  set outputs. The edge interrupts of the tachometer inputs run on this core.

They share memory through `config_mutex` (configuration, written by core 0,
copied by core 1 once a second), `state_mutex` (state, written by core 1, copied
by core 0), `pmem_mutex` (persistent memory, main loop and DHCP hook), and some
flags without a lock.

### Components

| Component (files) | State | Operations | Hard behaviour | What makes it correct |
|---|---|---|---|---|
| Exchange between the cores (`fanpico.c`, `command_util.c`) | two mutexes, `core1_config`, `transfer_state`, `system_state` | `run_cmd`, `update_system_state`, two sections of `core1_main` | interleaving, timeouts on mutexes | whole records only, never older ones; changes get through; pointers stay valid |
| Output control (`fanpico.c`, `pwm.c`, `tacho.c`, `square_wave_gen.*`) | duty cycles and frequencies, calculated and passed on; PIO FIFOs | `update_outputs`, configuration commands | settings from two copies of the configuration; hysteresis; a blocking FIFO | a pin follows what is calculated; a stopped fan is reported; the loop never stops |
| Virtual sensors, filters (`sensors.c`, `filter*.c`) | value and time of writing in three places, filter contexts | `WRITE` command, `get_vsensor`, filters | timeouts, stale values, feedback | a stale value gives way to the default; the last write counts |
| Tachometer inputs (`tacho.c`, `pulse_len.c`) | queues, edge counter, multiplexer; or a counter for each fan | `read_tacho_inputs`, edge interrupts | interrupt against poll, timeout race, fairness of the queues, counters that wrap | an interval belongs to its fan; every fan is read in the end; every edge counts once |
| Persistent memory (`fanpico.c`, `dhcp.c`) | block in RAM with a CRC | `init_persistent_memory`, `update_persistent_memory`, DHCP hook | a reset at any step; mutex held by the interrupted program | only whole blocks accepted; what a reset loses of the counters is bounded, unless it falls between a store and the CRC |
| MQTT (`mqtt.c`) | connection, topic and one-command buffer, retry and discovery times | callbacks, `fanpico_mqtt_reconnect`, `fanpico_mqtt_scpi_command`, discovery | interrupt against main loop, failures, requests at any time | commands once, in order, answered; reconnects; requests answered |
| Command engine (`command.c`, `command_util.c`) | last command path, last error, the whole configuration | more than 200 commands | chains, abbreviations, permission decided on arrival | the function that is called, and its item, are those the words name |
| Configuration, flash (`config.c`, `flash.c`) | JSON file in littlefs | save, load, upload, copy, rename, delete, format | failure or reset between steps; what is written depends on the defaults set before reading | a save and a load keep the settings; a unit comes up with what was saved last |
| Network start-up (`network.c`, `syslog.c`, `log.c`, `dhcp.c`) | `wifi_initialized`, link state, server addresses | `wifi_init`, link callback, `wifi_poll` | order of callback and initialisation | each service starts once and in the end |
| HTTP (`httpd.c`), SNMP (`snmp.c`) | buffer and position of a page, in static variables | `csv_stats`, `json_stats`, getters | run in interrupts while `system_state` is copied; two clients at once | whole pages, no freed memory |
| Telnet, SSH (`telnetd.c`, `sshd.c`, `ssh_util.c`) | table of public keys | add, list, delete | numbering after a deletion | the key that was named is deleted |
| I2C, 1-Wire (`i2c.c`, `onewire.c`) | devices found, polling state machines | set-up and scan, one step per pass of the main loop | failing and missing sensors | every device is tried again and again; readings reach the sensor they belong to |
| Displays, TLS keys, PSRAM and memory tests, ADC conversion, board constants, generated data | – | – | – | input and output only |

## 2. Modules

| Module | Models | Run by |
|---|---|---|
| `SnapshotExchange` | the abstract promise: a whole record handed over in one step | `dual_core` (as `ConfigExchange`, `StateExchange`) |
| `DualCore` | both exchanges between the cores, field by field | `dual_core`, `dual_core_filter_ctx` |
| `Maps` | `pwm_map()`, `tacho_map()`, `sensor_get_duty()` | `fan_outputs`, as an assumption of `MCFanOutputs` |
| `FanOutputs`, `MCFanOutputs` | `update_outputs()` and the settings it uses | `fan_outputs` |
| `VirtualSensor` | one virtual sensor in MANUAL or I2C mode with its filter | `virtual_sensor` |
| `SensorPolls`, `MCSensorPolls` | I2C and 1-Wire polling, virtual sensors of all modes in their round | `sensor_polls` |
| `TachoMux` | the multiplexed tachometer reader and its interrupt | `tacho_inputs` |
| `TachoFans`, `TachoCounters`, `MCTachoInputs` | the reader of boards with an input per fan; the choice of the board | `tacho_inputs` |
| `PersistentMemory` | the block that survives a reset | `persistent_memory` |
| `ConfigJson` | the configuration as JSON: `config_to_json()`, `json_to_config()` | `config_store` |
| `ConfigStore`, `MCConfigStore` | commands that change it, and the files that hold it | `config_store` |
| `CommandEngine` | the command tables, and how a line finds its functions | `mqtt_commands`, `mqtt_command_names` |
| `MqttCommands`, `MCMqttCommands` | commands by MQTT and from the console | `mqtt_commands`, `mqtt_command_names` |
| `MqttConnection` | connection and Home Assistant discovery | `network` |
| `Network` | `wifi_init()`, `wifi_poll()`, link callbacks, syslog, with the MQTT connection | `network` |
| `Reports` | pages of the HTTP server, messages for Home Assistant | `reports` |
| `DualCoreProofs`, `FanOutputsProofs`, `DataProofs`, `TachoProofs`, `SensorProofs`, `StorageProofs`, `MqttCommandsProofs`, `NetworkProofs` | their proofs | |

### DualCore

A configuration or state is a function from fields to the number of the
transaction that wrote the field; whether data is torn or old is then plain to
see. A `memcpy` moves one field per step (`CopyField`, `SendField`,
`FetchField`), and so does a command (`Assign`). `pc0` and `pc1` say where the
main loop and the control loop are. `mutex_enter_timeout_us()` that fails is
`SkipConfig`, `SkipState`; `mutex_enter_blocking()` is the guard of
`EnterConfig`. The filter context is a field whose number is the allocation it
points to, and `heap` the set of live ones. `committed`, `adopted`, `published`
and `fetched` are history: what the last complete section left. Field by field
is coarser than word by word, but no property tells words of a field apart. A
query runs without the mutex and changes nothing (the model has no action for
it). An I2C measurement is a `BeginWrite` like a command.

### FanOutputs

One action per output and round (`UpdateFan`, `UpdateMb`, in the order of the
loops), because core 0 can change `cfg` between any two of them, and because a
fan that follows another sees what that one has at that point of the round.
`fans` and `mbs` are core 0's configuration, `core1fans` core 1's copy: as in
the code, hysteresis and connector modes come from the first, sources, limits
and maps from the second. A map with its coefficient is a function; what a
filter returns is any duty cycle (`Filtered`). `PutPeriod` is the blocking write
to the PIO FIFO of four words, `Generate` the state machine that reads it, and
`started` the connectors whose state machine was started at boot. Frequencies
are in half hertz, so that the change of 1 Hz that is passed on is 2 and one
that is not exists.

### VirtualSensor

The reading is kept in three places as in the code (`cfg`, `core1cfg`, `state`);
timestamps are numbers of writes, with an age in seconds for each. `GetVsensor`
is all of `get_vsensor()` and the assignment of its result, which is what the
next call starts from. Both filters that keep state are modelled: `LossyPeak`
with its two timers, `SmaPush` with its window. Means are rounded to whole
units; the code uses floats.

### SensorPolls

`i2c` and `onewire` are the `static` variables of the two state machines, `ctx` the
contexts that `setup_i2c_bus()` made, `bus` the devices that the scan of the 1-Wire bus
found: any part of those that exist, in their order. `I2cRead` and `OneWireRead` read
one device or fail; `Sense` is the round of `get_vsensor()` over all sensors, in their
order, with the values of this round and of the one before. `Combine` is one pass of the
loop over the sources, `Combined` the loop, `Ideal` the reference it is compared with. A command
may move a sensor to another I2C device at any time, or between I2C and MANUAL
(`SetSource`): the context stays. A value is written by hand in `WriteTemp`. `late`
and `written` are history: sensors turned to I2C since measurements were started, and
sensors that were given a value.

### TachoMux and TachoCounters

`state` is the position in the `static` state machine of `read_tacho_inputs()`,
one action per branch; `NoInterval` and `PollAgain`/`TimedOut` are separate
steps because an edge may arrive, and time pass, between them. Time is in ticks
(`Elapse`), up to the 600 ms (`Limit`). Two things are assumed of it: a fan at a given
speed sends an edge within its `period`, and core 1 looks for the interval within `Pass` of
the last look. `steady` says that
the fan has been spinning at one speed since its measurement began. The bound on a pass
does not hold while core 1 is stopped for a write to the flash.

`TachoCounters` is the other build of the same function: it copies the counters one by
one (`step` is which) while the interrupt counts on, and takes differences modulo
`Width` when a second has passed. `sent` and `counted` are history: edges that came, and
edges that are in a reading. `MCTachoInputs` has a variable for the board, and the steps
of one build or of the other.

### PersistentMemory

Every store to the block is a step and `Reset` is possible after each. The CRC
is a copy of the block it was computed from, an ideal checksum. `rtc` says whether the clock
runs: only then is the time of day stored. It is started from the block, or by SNTP or a
command (`SetClock`), and may stop at a reset. `past`, `resets` and `gone` are history: the
time of earlier boots, their number, and the part of the time that was counted before the
last reset between a store to the block and its CRC (`Storing`). The DHCP hook
interrupts the main program: while it runs, the main program stands still. When
the interrupted program holds the mutex, the hook gives up (`LeaseBusy`).

### ConfigJson and ConfigStore

A JSON text is a function on the keys it has; `ConfigJson` has what is written for each
part of the configuration and what is read back, over the defaults that are set before.
Of the hundred settings there is one for each way of writing: numbers, flags written
when they differ from their default, strings, masks, lists of addresses, servers, access
lists and SSH keys, and objects for a fan, a motherboard connector, an analog and a
virtual sensor with its mode. Writing and copying are two steps, opening and closing
the file, since littlefs keeps a file as it was until it is closed (or has it, empty,
from its creation); `SaveFails` and `CopyFails` are errors in between and `Restart` may
come at any time. A configuration printed by `CONF:READ?` may be uploaded later, as may
that of another unit (`Elsewhere`). `kept` remembers which configuration was saved in a
file, until the user removes or replaces the file.

### CommandEngine and MqttCommands

`Tables` are the tables of `command.c`, with the letters an abbreviation must have.
`Resolve` follows `process_command()` and `run_cmd()` for all commands of a line: which
functions are called depends on its words alone. Lines from the console may be chains; the
payload of a message is cut at its first ';' (`Cut`), so that a command by MQTT is always a
single one. `Function` says what those do that the
model uses; the functions of the other entries are in the modules whose state they change.

Callbacks interleave with the steps of `fanpico_mqtt_scpi_command()`; the end of
a command is three steps, since `mqtt_scpi_cmd[0] = 0` and
`mqtt_scpi_cmd_queued = false` are two stores with interrupts on. What is
reported (`answers`) is taken from the buffer, not from the copy that was run,
as in the code. Lines from the console run between commands, and change whether
messages are taken, from which topic, and which commands are allowed.

### Network and MqttConnection

`Network` extends `MqttConnection` and runs its actions in `Mqtt` and `Greet`. `stage` is
where `wifi_init()` is; `Associate`, `Leased`, `Renewed` and `LinkLost` are callbacks
and may come at any time. `wifi_poll()` reads the status (`seen`) and compares it in a
second step, since a callback may set it in between. The timers `mqtt_reconnect` and
`mqtt_ha_discovery` are reduced to zero or not, the time since the last change of the
status to units of 10 s.

### Reports

`page` is the three static variables of `csv_stats()`, `heap` the buffers that are
allocated, `Fitting` how many parts of a page its buffer may have room for (that of
`csv_stats()` has 1024 bytes, and the rest is left out without a word; that of
`json_stats()` is as long as the page), `copying` how far `update_system_state()` is in its `memcpy`: a page may be
made in the middle of it. `disturbed` marks requests that overlapped with another.
`masks` choose which values are announced (`Discovery`) and which are sent (`StateKeys`),
under names that two functions spell separately. Of the discovery messages any may be
refused by lwIP, which the code does not look at.

## 3. Runs

| Run | Shows | Bounds, and why they are enough |
|---|---|---|
| `dual_core` | whole records both ways, refinement of `SnapshotExchange` both ways, a command gets its mutex, changes get through | two fields each way (a torn copy needs two), two commands and two rounds (old, new, and one during the copy) |
| `dual_core_filter_ctx` | *violation*: core 1 uses a filter context that was freed | one command is enough |
| `fan_outputs` | pins track duty cycles, stops are reported, chains of fans settle; and, as an assumption, that `Mapped` is the reference on all maps of two and three points on a small grid | two fans, the first following the second; three duty cycles and hysteresis 1 or 2 (a change that is passed on and one that is not); frequencies 0, 1/2 and 3/2 Hz; thresholds of 1/2 and 1 Hz; one command of any kind in a running system, a single one because two multiply the states past use, and because the theorems below cover any number |
| `virtual_sensor` | stale values, no revival, settling | a timeout of 3 s against a period of 2 s, so that expiry falls between calls; two writes, one equal to the initial 0 |
| `sensor_polls` | own device, started before read, all tried, combinations settle | two I2C devices and two chips, each of which may be missing or fail at any time; two changes of readings or written values; two commands, so that a sensor is turned to MANUAL and back to I2C in the middle of a round, or moved twice; configurations in which a combination comes before and after its sources |
| `tacho_inputs` | attribution of intervals, edges counted once, spinning fans seen, detection | two fans, in either queue, and any change of them at any time (the second queue with two entries is where its scan position matters); 600 ms are 4 ticks, a pass one, and fans send an edge every tick (fast enough for `SpinningSeen`) or every second one (not fast enough: these are recorded as stopped now and then); counters modulo 3 and four edges, so that they wrap; up to two ticks, so that a reading may come late |
| `persistent_memory` | acceptance of whole blocks, bounded loss, zone applied | three resets (a boot, one cut short, one that sees the damage); the clock running or not, boots of up to 3 time units, updates at most 2 apart |
| `config_store` | what a save and a load keep, and what survives a reset | three sensors and two fans; lists of two to four sources, real and virtual, one longer than what is stored; two slots for keys, servers and access lists each, so that there is a gap; an empty, the default and another value of each kind; two changes of settings; two files, one text that was printed, and any number of saves, copies, failures and resets |
| `mqtt_commands` | hand-over of commands, permission, chains | two messages of up to two pieces: one running, one refused, one after it; payloads that are chains, also back to the root; one line from the console out of six, which may forbid commands or change the topic while one waits |
| `mqtt_command_names` | *violation*: the full name of an entry calls another entry | one line |
| `network` | the link comes up again, syslog opens, one attempt at a time, reconnects, discovery | one loss of the link and one failure of the connection, at any point and in any order, after which everything must recover; one request for discovery, before, during or after a set |
| `reports` | all of the page that fits, no freed memory, announced names | two overlapping requests; pages of three parts, so that there is a middle one, of which two or all fit; two states from core 1 besides the first; two kinds of values and one change of a mask |

Deadlock is checked except in `fan_outputs` (core 1 may block for ever, see section 5),
`mqtt_commands`, `mqtt_command_names`, `network`, `sensor_polls` and `reports` (they are
at rest once the bounded number of messages, failures or changes is used up).

Every property has a mutation of a mapped definition that TLC finds to violate
it; the operators marked `MUTANT of` stand beside the definition they replace.

### Properties in words

* `ConfigWhole`, `StateWhole`: outside its `memcpy` a core holds exactly what the
  other one completed. `ImplementsConfigExchange`, `ImplementsStateExchange`: the
  same as a refinement, which also says that no field goes back.
* `CommandCompletes`, `ConfigReachesCore1`, `StateReachesCore0`: waiting for a
  mutex ends, and a change arrives although attempts time out.
* `OutputTracks`: the pin is off the reported duty cycle by less than the
  hysteresis, although small changes are not passed on, for however long they go
  in one direction. It does not say that the pin respects a maximum at once:
  a maximum lowered by less than the hysteresis is not applied.
* `StopReported`: on a connector that was left in its mode a stopped fan raises
  the alarm, if the threshold is at least the 1 Hz that counts as a change, or stops the
  square wave. `ChainSettles`: a fan that follows a fan
  gets the value of the other in the end.
* `StaleIsDefault`, `NoRevival`, `SettlesUnfiltered`: see the comments in `VirtualSensor`.
* `OwnDevice`: what a sensor shows was read from its own device, whichever devices are
  found and whichever fail, or written by hand. For a sensor moved by a command that is
  the device it had at start-up (`command.c:1427`). `StartedFirst`, `AllTried`: no device is
  read without a start, but that of a sensor turned to I2C since the last start, and none is
  left out for ever. `CombinationsSettle`: `get_vsensor()`, which
  mixes two rounds, ends up at the maximum, minimum, mean or difference of its sources.
* `Attribution`, `SpinningSeen`, `Detected`: no interval is mixed from two fans; a fan
  that spins throughout its measurement is not taken for stopped when twice its period and
  one pass of the loop are less than 600 ms, which is as far as it goes: the run has a fan
  that is slower, and is taken for stopped when the time ends between the two looks; and each
  fan of that speed, or stopped, is sooner or later reported as it is.
  `EdgesCounted`: what is counted, and what is still to be read from the counters, is
  together what came.
* `AcceptedWhole`, `PastCounted`, `ServerZoneApplies`: a reset never leaves a
  half-written block that is accepted (its time of day is of the update its uptime is of,
  or the clock never ran); the total is short by at most the time since the last
  update of each boot, and by all of it when a reset came between a store and the CRC,
  which loses the block; the DHCP zone is used in the end.
* `SaveKeeps`: a save and a load keep every setting, with the exceptions that it lists
  and the code has (an empty string or mask whose default is not empty comes back as
  the default, a syslog client that is off is taken for the NTP client, virtual
  sensors among the sources are dropped, and fields of a mode that is not in use).
  `LoadStable`: these losses happen at the first save, a second one loses nothing.
  `SaveSurvives`: a unit comes up with what was saved last, whatever save, copy or
  reset failed or was cut short after that.
* `RunsAsAccepted`, `AnswersMatch`, `QueueDrains`: a command is run once, in order
  and answered with its own text. `OnlyWrites`: without `mqtt_allow_scpi` nothing but
  the values of virtual sensors changes, however long a message waits, whatever it
  abbreviates, and whatever chain it brings: this rests on the payload being cut at its first
  ';' before it is looked at, and the mutant leaves that out. `OwnItem`: a command in a chain acts on the item that its own words
  name.
* `OneAttempt`, `Reconnects`, `DiscoveryAnswered`: what is retried is retried,
  never twice at a time, and a request during a set leads to another set.
  `Reconnects` makes the exception visible: after an error of the resolver or of
  the client other than `ERR_RTE` nothing is tried again (`gaveUp`).
* `UpAgain`: however the callbacks fall between the two halves of `wifi_poll()`, a link
  that is lost is joined again. `SyslogOpens`: with a server configured syslog is open,
  to that server, unless the interface came up before `wifi_init()` was through.
* `WholePage`, `PageMemory`: of a page that no other request came in between, all that fitted
  the buffer is handed out, in order, of at most two states; and no page, disturbed or not, comes from freed memory.
  `StateAnnounced`: every name in a message was announced, unless a mask was set since, or
  its own discovery message was not made or not taken by lwIP.

### Fairness

* `DualCore`: both cores run for ever. Weak fairness of what a core has begun;
  strong fairness of taking a mutex, because timers come due again and again and
  an attempt that is possible infinitely often succeeds in the end.
  `[]<>(pc1 = "state" /\ stOwner = Nobody)` says that core 0, which holds the
  mutex for one `memcpy` after a command or once a second, does not hold it at
  every single attempt of core 1. Begun commands (`BeginWrite`) have no fairness.
* `FanOutputs`: weak fairness of core 1's steps (a blocked put is not enabled),
  strong fairness of `CopyConfig`, weak fairness of state machines that run.
* `VirtualSensor`: time passes, `get_vsensor()` is called, the copy is made.
* `SensorPolls`: both state machines and the round go on, and a 1-Wire conversion is
  started with success again and again; devices may fail for ever.
* `TachoMux`: core 1 and time go on, and a fan that spins throughout sends edges (in time
  for its period, which is a guard of `Elapse`, not fairness). No
  liveness is checked, and no fairness assumed, of `TachoCounters`.
* `PersistentMemory`: the main program is strongly fair (interrupts return); the
  DHCP server renews its lease again and again, hours apart, and does not meet
  the mutex taken each time.
* `MqttCommands`: the main loop, and lwIP in the middle of a message, go on.
* `Network`: `wifi_init()` gets through; the parts of `wifi_poll()` and the MQTT duties
  come round (strong fairness where a callback may make a step impossible for a while);
  time passes; an access point, DHCP, the name server and the broker, asked again and
  again, answer in the end (strong fairness of the steps that do). Losses are bounded:
  a link that is lost for ever cannot be up. Discovery is called from
  `fanpico_mqtt_publish()`, which the main loop calls only with a status interval above
  0 (the default is not 0): the model assumes that.
* `ConfigStore`, `Reports`: no fairness; their properties are of safety.

## 4. Proofs

TLAPS proves, for every value of the constants that the named assumptions allow:

| Module | For any | Theorems |
|---|---|---|
| `DualCoreProofs` | sets of fields, bounds | `TypeCorrect`, `ConfigAlwaysWhole`, `StateAlwaysWhole`, `ConfigRefinement`, `StateRefinement` |
| `FanOutputsProofs` | numbers of fans and connectors, maps to the naturals, hysteresis, settings and locked rotor thresholds | `TypeCorrect`, `OutputsTrack`, `StopsReported` |
| `DataProofs` | number of points, in any order; in ascending order | `InterpolateWithin`; `MappedIsReference` |
| `TachoProofs` | number of fans, periods, limit and pass; width of the counters, number of edges | `TypeCorrect`, `EdgesAttributed`, `SpinningIsSeen`; `EdgesCountedOnce` |
| `SensorProofs` | temperatures, timeouts, windows, delays, numbers of writes; sources of a combination; sensors, devices and chips | `FilteredWithin`, `StaleGivesWay`, `DefaultStays`, `ShownWithin`; `ExtremesAreIdeal`, `DeltaIsIdeal`; `PollsTypeCorrect`, `OwnDeviceShown`, `StartedBeforeRead` |
| `StorageProofs` | interval between updates, length and number of boots; slots, fans, sensors, values of settings, saves, copies, failures and resets | `TypeCorrect`, `AcceptedIsWhole`, `PastIsCounted`; `StoreTypeCorrect`, `SettingsKept`, `LoadsAreStable`, `SavedSurvives` |
| `MqttCommandsProofs` | topics, messages and pieces; commands and lines, of any number of parts and words | `TypeCorrect`, `RunInOrder`, `AnsweredAsRun`; `LinesOwnItems`, `ItemsAreOwn`, `LinesOnlyWrite`, `WritesOnly` |
| `NetworkProofs` | number of failures and losses; requests, parts, rounds, kinds of values, changes of masks | `OneAttemptAtATime`, `SyslogIsOpened`; `PagesInMemory`, `PagesAreWhole`, `MessagesAnnounced` |

Each safety theorem rests on an inductive invariant (`Invariance`, `CountersInvariance`,
`SensorInvariance`, `PollsInvariance`, `StoreInvariance`), in two lemmas (the initial states
satisfy it, every step preserves it) and a last step in temporal logic. The action
properties (`SpinningSeen`, `NoRevival`, `StartedFirst`, `SaveSurvives`, `OnlyWrites`)
follow from the same invariants, step by step.

*Induction.* The induction theorems of the library take an operator, which the provers
cannot instantiate. `DataProofs` states induction over sets instead (`SetInduction`,
`BoundedInduction`: a set of naturals that has 0 and the successor of each of its elements
has them all), from the well-foundedness of their order, and from it that a function defined
by recursion exists (`RecursionExists`) and has the type its steps keep (`RecursionType`).
This is what all statements about loops rest on: over the points of a map, the
sources of a combination, the samples of a filter, the slots of a list, the bits of a mask,
the words of a command and the commands of a line. `Step`, `Function` and `RunCmd` are
operators, so that the functions recursion makes of them have existence proofs of their
own (`WalkExists`, `ResolutionExists`, `RunExists`, `ProcessExists`).

*DualCore.* `ConfigWhole` alone is not inductive: that a finished copy is whole
depends on the fields copied so far and on nobody writing meanwhile. The
inductive `IInv` adds `MutexInv` (a core is in a section exactly when it owns the
mutex), and for each direction that outside a section the record is the completed
one, that fields copied so far equal the source, and that versions only grow and
are bounded by the counter of transactions. The last part is what the refinement
needs: a published record is no older in any field. Each refinement is proved by
mapping every action to `Publish`, `Adopt` or a stutter.

*FanOutputs.* `OutputTracks` follows from `PinInv`: the pin equals
`fan_duty_prev`, and this one differs from the duty cycle by less than the
hysteresis of that update. `StopReported` needs `ModeInv` (a connector whose mode
command was not used is driven the way its setting says, at the level that
belongs to the frequency passed on last) and `RoundInv` (what is not passed on in
this round differs by less than 1 Hz). The invariant shows where the condition
on thresholds comes from: with a threshold below 1 Hz a fan that stops from less
than 1 Hz raises no alarm. `Limited` keeps a duty cycle in range whatever the order
of the limits, although no command compares them (`LimitedType`).

*Maps.* The loop over the points ends (`FoundExists`); the result is then a value of a
point, or lies on the line between two points whose abscissas differ, so that the quotient
is between 0 and the difference of their values (`QuotientBetween`, `OnLineBetween`). The
points need not be in order for that, since no command asks for it; when they are,
`MappedIsReference` gives the value exactly.

*TachoMux.* `Attribution` needs `PortInv`: from the switch of the multiplexer to the
recording of the fan the multiplexer stays, and all edges since the counter was reset are
of that fan, also the first of two. `SpinningSeen` adds `SpinInv`: while the fan has spun
throughout and there is no interval, at most a period has passed before the first edge, and
one more since; a look that finds none therefore came within two periods of the start, and
the look at the 600 ms follows it within a pass.

*TachoCounters.* The counters are what was sent modulo `Width` (`CountersInv`); the copies,
while they are being taken, are between the last reading and that (`CopiedInv`); the
difference taken modulo `Width` is therefore what was sent since, however often the counter
has wrapped to here (`WrappedDifference`).

*VirtualSensor.* That a stale value has given way one period after its timeout is not
inductive. `StaleInv` says it of the time since the last call: a reading whose age is more
than the timeout and that time has been replaced by the default. Its age counts on up to
`OldAge`, and stops where no timeout is left to tell ages apart. `PeakInv` (what lossypeak shows is
its peak) is why a default stays. Of the moving average, which may show anything between
its samples, `ShownWithin` says that: the sum of a window lies between its
length times the smallest and the largest sample (`SumBetween`).

*SensorPolls.* `OwnInv` follows a reading on its way: at the place of the device on the
bus, in the configuration, and in the value shown; it covers sensors on MANUAL too, which
keep their value when they are turned to I2C. `BegunInv` says that what a round has still to
read was started, or was turned to I2C since. That the round goes over all sensors is an induction (`RoundSteps`).
The extremes and the difference are proved equal to their reference; the mean is compared
by TLC (both are a sum, over a sequence and over a set).

*PersistentMemory.* `AcceptedWhole` follows from `WholeInv`: the CRC always belongs to a
block whose times are of one update, because it is only computed when they are, and the
hook, which computes it too, finds the mutex free only between updates (`LockInv`).
`PastCounted` needs what a block that is *not yet accepted* would count (`CountInv`): the
time of all boots is at most the total and the uptime of the block the CRC belongs to,
one interval for each reset, the time since the last update, and what was `gone` with a
block that a reset left without its CRC.

*ConfigJson and ConfigStore.* For each part of the configuration a lemma says what a save
and a load make of it (`ListBack`, `SlotsBack`, `MaskBack`, `FanBack`, `MbfanBack`,
`VsensorBack`), and `Reloaded` puts them together: `SaveKeeps` is true of every
configuration whose lists have no gaps where the commands leave none, and whose sources of a
sensor fit their array (`Usable`), which every command keeps (`SetsUsable`). A configuration
that a load has made is `Settled`: it has lost all that a save loses, and comes back
unchanged (`SettledStays`). That what is in memory after a load *is* settled, also after a
text from another unit and after a file that cannot be read, is the invariant `LoadedInv`
(`LoadSettles`, `DefaultSettles`). `SaveSurvives` needs `KeptInv`, that a file which is said
to hold a configuration holds its text, and `CopyInv`: a copy is only made to a name that
nothing is said to be saved under, so that one cut short destroys nothing.

*MqttCommands.* While a command is in the buffer and has not run, what was accepted is
what has run and that command (`OrderInv`); from its start to the release of the buffer
the copy, the buffer and the flag agree (`BufferInv`), so that the answer, which is made
from the buffer, has the text of what was run (`AnswerInv`). `PieceInv` orders pieces by
message and number, which is why none is both refused and accepted. Nothing is assumed of
what commands do, and of lines only that they are sequences of commands, and these of
words (`TextAssumption`). `RunsAsAccepted` needs the flag to be reset last: with the mutant
that resets it at the start the invariant fails at `Accept`.

*CommandEngine.* `OwnItem` is an induction over the words of a command, in one over the
commands of a line: the stack never holds a word that is not of the current path
(`IsPlace`), and what was called before stays (`IsResolved`). `OnlyWrites` follows the level
in the same way: after a first word `WRITE` it is the table of the writes (`FirstStep`),
whose only entry leads nowhere (`StepInWrite`), so that every call of the line is of that
table, and changes a value at most (and changes a value at most (`WriteGives`). An MQTT command is a line of one command
(`CutLine`), which is why nothing is assumed of chains. Two facts enter as an assumption,
`WordAssumption`, since the provers cannot compute with letters: which entry the word
`WRITE` finds, and which table stands under `write`. They are about the tables and have no
parameter; TLC evaluates them in every run of the module. `AllowedInv` says that what was
accepted without permission began with `WRITE:`, whatever was permitted later.

*Network.* `ConnInv` adds that `mqtt_connect()` is under way only while there is no
connection, and nothing before there is a client; `ServerInv` follows the address of the
log server from DHCP and the configuration to the open syslog, and says what `missed`
stands for.

*Reports.* A buffer that is handed out is the one that was allocated last, and is freed
with the variable that points to it (`NextPage`). `WholePage` needs `StateInv` (in the middle of the copy,
what is copied is of one state and the rest of the one before, so that a page has at most
two) and `ResponseInv`: a request that no other came in between is the only one open, and
what was sent and what is left of the page are together what fitted of it, in order. `MaskInv` says
of every mask that is set that its name was announced, not only of those sent.

Only model-checked: all liveness (`CommandCompletes`, `ConfigReachesCore1`,
`StateReachesCore0`, `ChainSettles`, `SettlesUnfiltered`, `Detected`, `ServerZoneApplies`,
`QueueDrains`, `Reconnects`, `DiscoveryAnswered`, `UpAgain`, `AllTried`,
`CombinationsSettle`), since fairness and `ENABLED` are beyond the prover, and the two
violations. Every invariant and action property of a passing run, and both refinements,
have a theorem. No module uses a RECURSIVE operator.

## 5. Disagreements with the documentation

1. Filter commands free a context in use by core 1 (`command.c:614`, run
   `dual_core_filter_ctx`).
2. `MEASure:FANx:RPM?` and other commands call the function of an entry before theirs in
   the table (`command.c:3153`, run `mqtt_command_names`).

Seen while modelling, without a run of their own:

*Control.* A connector changed from LRA to TACHO without a reset blocks core 1 in a write to
a FIFO nobody reads (`square_wave_gen.c:75`). A filtered virtual sensor feeds its own
output to its filter (`sensors.c:126`). The alarm level of a connector stays until the
frequency changes by 1 Hz (`fanpico.c:369`). A maximum lowered by less than the hysteresis
is not passed to the pin. A virtual sensor moved to another I2C device stays with the old
one until a reset (`command.c:1427`), and one turned to I2C in the middle of a round is read without a
start. A locked rotor threshold below 1 Hz, which the command accepts (`command.c:945`),
misses a fan that stops from less than 1 Hz (`tacho.c:360`). A fan slower than the sum in
`SpinningSeen` may be recorded as stopped for a round, although its edges came within the
600 ms that `tacho.c:204` says are measured ("down to 50 RPM").

*Configuration.* A syslog client that is off is saved as an NTP client that is off
(`config.c:867`). Of a list of sources, as many are stored as there are sensors, and
virtual ones are lost on load (`command.c:1466`, `config.c:416`; commands.md:1313 shows one
with 101). An error in writing a file is reported as success (`flash.c:149`). SSH keys are
listed by a running number but deleted by slot (`command.c:2307`; commands.md:3699). The
arguments of a lossypeak filter below 1e-6 are rounded when saved. A reset before the first
update of a boot adds the uptime of the boot before to the total once more
(`fanpico.c:109`). A reset between a store to the persistent block and its CRC loses
the whole block: the total starts over (`fanpico.c:115`), although commands.md:3994 calls
it the "total time unit has been on since last cold reset". The time of day is
not restored after a reset when the clock did not run.

*Commands.* `uint16_setting()` and `uint8_setting()` truncate before they compare with the
limits: a WiFi mode of 256 is taken as 0 (`command_util.c:303`). Queries of indexed settings
return 1, so that `SYS:ERR?` reports an error after them; relative commands on an item after
';' fail, because the stack of numbers starts empty. `cmd_mbfan_source` changes the setting
although it reports an error when an invalid source follows two valid ones.
`mqtt_allow_scpi` is looked at when a command is queued, not when it runs.

*Network.* Syslog is never opened with a static address or a synchronous connection, when
the interface is up before the server is known. A message that lwIP hands over in pieces
is taken for one command per piece; with a birth topic set, a message on another topic
keeps the `incoming_topic` of the one before (`mqtt.c:156`). Pages of the HTTP server that
overlap mix, and a buffer is lost (`httpd.c:38`); what exceeds 1024 bytes of the page in CSV
is left out without a word, the last row perhaps cut short (`httpd.c:32`). A discovery message that
lwIP refuses is lost until Home Assistant asks again, since the result of sending
it is ignored (`mqtt.c:551`).

## 6. Not modelled, and why

* Displays, TLS keys, PSRAM set-up and memory tests, ADC and PWM input conversion: input
  and output, or arithmetic without state that others depend on.
* The SNMP getters each read one value of `system_state`; what an interrupt may see in the
  middle of the copy is in `Reports`. The tables are data.
* The Telnet and SSH servers, the drivers of I2C and 1-Wire devices and the filesystem are
  in `libs/`, which is empty here; they appear as what the code in `src/` relies on.
* Settings written in the same way as one that is modelled, and functions of commands that
  only print. Text of any kind: lines are words, files are records.
* Floating point: temperatures and frequencies are whole units; rounding is modelled where a
  property could tell (`VirtualSensor`, `Maps`). The Steinhart-Hart formula is left out.
* Maps with more points than fit the array, counters past their 64 bits, a CRC that matches
  by chance.
* Periodic messages of one value each (`fanpico_mqtt_publish_temp()` and the like).

A next stage could refine `MqttCommands` to a queue of one command and `ConfigStore` to a
store of whole configurations, compose `VirtualSensor` and `FanOutputs` from a write to the
pin, prove the mean of a combination equal to its reference, and model the ring buffer of
the moving average (`filter_sma.c`).
