------------------------------ MODULE ConfigStore ------------------------------
(***************************************************************************)
(* Changing, saving and loading the configuration.                        *)
(*                                                                         *)
(* CONF:SAVE writes the configuration as JSON to fanpico.cfg.  A reset     *)
(* clears the configuration and loads that file, or the default built into *)
(* the program when there is none that can be parsed.  Files are also      *)
(* copied, renamed and deleted, and a JSON text printed by CONF:READ? can  *)
(* be loaded by CONF:UPLOAD.  A reset may come at any time.                *)
(*                                                                         *)
(* littlefs is modelled by what the code relies on: a new file exists,     *)
(* empty, from its creation; what is written to a file counts when the     *)
(* file is closed after no error.                                         *)
(***************************************************************************)
EXTENDS ConfigJson

CONSTANTS
  Backup,        \* name of a second file
  Elsewhere,     \* configuration of another unit, whose text the user has
  Safemode,      \* setting in the firmware image: do not read the saved configuration
  MaxChanges     \* bound: changes of a setting

\* What is entered with the commands.
CONSTANTS
  Numbers,       \* numbers for a setting of eight bits, in 0..1
  Masks,         \* masks of fans
  Addresses,     \* lists of DNS servers; "any" is 0.0.0.0
  AccessLists,      \* access lists, of each entry its prefix
  FanSources,    \* sources of a fan, type and number
  TachoSources,  \* sources of a connector, type and numbers
  RpmModes,      \* modes of a connector
  Coefficients,  \* numbers for an analog sensor
  Timeouts,      \* timeouts of a fixed value
  SourceLists    \* sources of a virtual sensor, other virtual sensors from 101

ConfigFile == "fanpico.cfg"
Files == {ConfigFile, Backup}

ASSUME StoreAssumption ==
  /\ Safemode \in BOOLEAN /\ MaxChanges \in Nat /\ Backup # ConfigFile
  /\ Elsewhere \in Stored /\ Masks \subseteq SUBSET (0..FanSlots-1)
  /\ \A l \in SourceLists : l \in Seq((1..SensorCount) \cup (101..108)) /\ Len(l) \in 2..8
ASSUME ArgumentAssumption ==
  /\ Numbers \subseteq Int /\ Coefficients \subseteq Int /\ Timeouts \subseteq Int
  /\ \A l \in Addresses : l \in Seq(Servers \cup {"any"})
  /\ \A l \in AccessLists : l \in Seq(0..32)
  /\ \A s \in FanSources : s \in SourceTypes \X Int
  /\ \A s \in TachoSources : s \in TachoTypes \X Seq(Int)
  /\ \A r \in RpmModes : \/ r.mode = "tacho"
                         \/ r.mode = "lra" /\ r.treshold \in Int /\ r.invert \in BOOLEAN

VARIABLES
  cfg,       \* fanpico_config
  flash,     \* the file system: for each name, what is there
  printed,   \* a JSON text the user has kept from CONF:READ?
  task,      \* "boot", "run", "save", "copy": where core 0 is
  job,       \* source and destination of the copy under way
  changes    \* changes so far

\* History: whether cfg is as it was loaded; the configuration that was saved in a
\* file which the user has not removed since.
VARIABLES fresh, kept

storeVars == <<cfg, flash, printed, task, job, changes, fresh, kept>>

-------------------------------------------------------------------------------
\* What a file is: missing, empty, the beginning of a text, or a complete one.
NoText    == [k \in {} |-> 0]
Missing   == [state |-> "missing", text |-> NoText]
EmptyFile == [state |-> "empty", text |-> NoText]
Broken    == [state |-> "broken", text |-> NoText]
Whole(j)  == [state |-> "whole", text |-> j]
Unknown   == [known |-> FALSE, cfg |-> Cleared]

\* A unit that is switched on for the first time: lfs_setup() finds no file system, and
\* makes an empty one.
StoreInit ==
  /\ cfg = Cleared /\ flash = [n \in Files |-> Missing]
  /\ printed \in {NoText, Json(Elsewhere)}
  /\ task = "boot" /\ job = <<ConfigFile, ConfigFile>> /\ changes = 0
  /\ fresh = TRUE /\ kept = [n \in Files |-> Unknown]

\* What flash_read_file() reads of a file can be parsed.  What an older and longer text
\* leaves in it is behind the NUL that ends the text, and not parsed.
Readable(n) == flash[n].state = "whole"

\* read_config(): an empty or broken file is like none.
Boot ==
  /\ task = "boot" /\ task' = "run"
  /\ cfg' = Load(IF ~Safemode /\ Readable(ConfigFile) THEN flash[ConfigFile].text
                 ELSE DefaultJson)
  /\ fresh' = TRUE
  /\ UNCHANGED <<flash, printed, job, changes, kept>>

\* The reset button, the watchdog, a power failure or *RST, at any time.  Only the files,
\* and what the user has, are left.
Restart ==
  /\ task' = "boot" /\ cfg' = Cleared /\ fresh' = TRUE /\ job' = <<ConfigFile, ConfigFile>>
  /\ UNCHANGED <<flash, printed, changes, kept>>

-------------------------------------------------------------------------------
(***************************************************************************)
(* Commands that change a setting.  One that leaves it as it is, or that  *)
(* is refused, is no step.                                                *)
(***************************************************************************)
Change(c) ==
  /\ task = "run" /\ changes < MaxChanges /\ c # cfg
  /\ cfg' = c /\ changes' = changes + 1 /\ fresh' = FALSE
  /\ UNCHANGED <<flash, printed, task, job, kept>>

\* cmd_led(), string_setting(), bitmask16_setting(), bool_setting()
SetLedMode(v)   == v \in 0..2 /\ Change([cfg EXCEPT !.led_mode = v])
SetCommunity(s) == Change([cfg EXCEPT !.snmp_community = s])
SetMask(m)      == Change([cfg EXCEPT !.http_fan_mask = m])
SetFlag(k, b)   == Change([cfg EXCEPT ![k] = b])

\* uint8_setting(): the number is cut to eight bits before it is compared with its range.
SetWifiMode(v) == v % 256 \in 0..1 /\ Change([cfg EXCEPT !.wifi_mode = v % 256])

\* ip_list_change() and acl_list_change(): the entries before the first null one, as many
\* as there are slots.
UpTo(l, null) ==
  SubSeq(l, 1, Min({i \in 1..Len(l) : l[i] = null} \cup {Len(l) + 1}) - 1)
SetServers(l) ==
  l # <<>> /\ Change([cfg EXCEPT !.dns_servers = InSlots(UpTo(l, "any"), ServerSlots, "any")])
SetAcls(l) ==
  l # <<>> /\ Change([cfg EXCEPT !.ssh_acls = InSlots(UpTo(l, 0), AclSlots, 0)])

\* cmd_ssh_pubkey_add(): into the first free slot.
AddKey(k) ==
  LET free == {i \in 1..KeySlots : cfg.ssh_pub_keys[i] = ""}
  IN free # {} /\ Change([cfg EXCEPT !.ssh_pub_keys[Min(free)] = k])

\* cmd_ssh_pubkey_del(): by slot, while cmd_ssh_pubkey() numbers the keys it lists.
DeleteKey(i) == Change([cfg EXCEPT !.ssh_pub_keys[i] = ""])

\* valid_pwm_source_ref() and valid_tacho_source_ref(), which know the largest board only.
ValidSource(type, id) == IF type = "fixed" THEN id \in 0..100 ELSE id \in 0..FanSlots-1
ValidTacho(type, id) ==
  IF type = "fixed" THEN 0 <= id /\ id <= 50000 ELSE id \in 0..FanSlots-1
Id(type, n) == IF type = "fixed" THEN n ELSE n - 1

\* cmd_fan_source(), cmd_fan_pwm_map() and cmd_fan_filter(): arguments that are not valid
\* change nothing.
SetFanSource(type, n) ==
  /\ ValidSource(type, Id(type, n))
  /\ Change([cfg EXCEPT !.fan.s_type = type, !.fan.s_id = Id(type, n)])
SetPwmMap(m) == Change([cfg EXCEPT !.fan.map = m])
SetFilter(f) == Change([cfg EXCEPT !.fan.filter = f])

\* cmd_mbfan_source(): one source, or the fans named before the first that is not valid,
\* if two of them are on the board.  An error that is reported then changes the setting.
SetTachoSource(type, l) ==
  LET named == {i \in DOMAIN l : \A j \in 1..i : ValidTacho(type, Id(type, l[j]))}
      fans  == {l[i] - 1 : i \in named}
  IN IF type \in Many
     THEN /\ Cardinality(fans \cap 0..FanCount-1) >= 2
          /\ Change([cfg EXCEPT !.mbfan.s_type = type, !.mbfan.s_id = 0, !.mbfan.sources = fans])
     ELSE /\ 1 \in named
          /\ Change([cfg EXCEPT !.mbfan.s_type = type, !.mbfan.s_id = Id(type, l[1])])

\* cmd_mbfan_rpm_mode(): the threshold is clamped to 0..100000 and stored in 16 bits.
SetRpmMode(r) ==
  LET clamped == IF r.treshold < 0 THEN 0 ELSE IF r.treshold > 100000 THEN 100000 ELSE r.treshold
  IN IF r.mode = "lra"
     THEN Change([cfg EXCEPT !.mbfan.rpm_mode = "lra", !.mbfan.lra_treshold = clamped % 65536,
                             !.mbfan.lra_invert = r.invert])
     ELSE Change([cfg EXCEPT !.mbfan.rpm_mode = r.mode])

\* array_float_setting(): a number that is out of range changes nothing.
SetBeta(b) == 0 <= b /\ b <= 100000 /\ Change([cfg EXCEPT !.sensor.beta = b])
SetOffset(o) == -10000 <= o /\ o <= 10000 /\ Change([cfg EXCEPT !.sensor.offset = o])

\* cmd_vsensor_source(): a fixed value with a timeout.
SetManual(t) ==
  Change([cfg EXCEPT !.vsensor.mode = "manual", !.vsensor.timeout = IF t < 0 THEN 0 ELSE t])

\* cmd_vsensor_source(): the address of a device, kept for each kind of device.
SetDevice(mode, addr) == Change([cfg EXCEPT !.vsensor.mode = mode, !.vsensor[mode] = addr])

\* cmd_vsensor_source(): a combination of two or more sources, of which as many are
\* stored as there are real sensors.
SetCombined(l) ==
  Change([cfg EXCEPT !.vsensor.mode = "avg",
                     !.vsensor.sensors = SubSeq(l, 1, Min({Len(l), SensorCount}))])

-------------------------------------------------------------------------------
(***************************************************************************)
(* Commands on files.                                                     *)
(***************************************************************************)

\* MUTANT of SaveOpen: the old file is removed first.
SaveOpenRemoves ==
  /\ task = "run" /\ task' = "save"
  /\ flash' = [flash EXCEPT ![ConfigFile] = EmptyFile]
  /\ UNCHANGED <<cfg, printed, job, changes, fresh, kept>>

\* save_config(): flash_write_file() opens the file, or creates it.
SaveOpen ==
  /\ task = "run" /\ task' = "save"
  /\ flash' = [flash EXCEPT ![ConfigFile] = IF @.state = "missing" THEN EmptyFile ELSE @]
  /\ UNCHANGED <<cfg, printed, job, changes, fresh, kept>>

\* It writes the text and closes the file.
SaveClose ==
  /\ task = "save" /\ task' = "run"
  /\ flash' = [flash EXCEPT ![ConfigFile] = Whole(Json(cfg))]
  /\ kept' = [kept EXCEPT ![ConfigFile] = [known |-> TRUE, cfg |-> cfg]]
  /\ UNCHANGED <<cfg, printed, job, changes, fresh>>

\* An error in writing, after which closing the file leaves it as it was.  The result
\* of lfs_file_write() is kept in an unsigned, and the error is reported as success.
SaveFails ==
  /\ task = "save" /\ task' = "run"
  /\ UNCHANGED <<cfg, flash, printed, job, changes, fresh, kept>>

\* flash_copy_file(), without overwriting.  (With a destination that exists it fails
\* and changes no file.)
CopyOpen(src, dst) ==
  /\ task = "run" /\ src # dst
  /\ flash[src].state # "missing" /\ flash[dst].state = "missing"
  /\ task' = "copy" /\ job' = <<src, dst>>
  /\ flash' = [flash EXCEPT ![dst] = EmptyFile]
  /\ UNCHANGED <<cfg, printed, changes, fresh, kept>>

CopyClose ==
  /\ task = "copy" /\ task' = "run" /\ job' = <<ConfigFile, ConfigFile>>
  /\ flash' = [flash EXCEPT ![job[2]] = flash[job[1]]]
  /\ kept' = [kept EXCEPT ![job[2]] = kept[job[1]]]
  /\ UNCHANGED <<cfg, printed, changes, fresh>>

\* An error in writing leaves the destination empty, one in reading leaves what was
\* copied before it.
CopyFails ==
  /\ task = "copy" /\ task' = "run" /\ job' = <<ConfigFile, ConfigFile>>
  /\ \E f \in {EmptyFile, Broken} : flash' = [flash EXCEPT ![job[2]] = f]
  /\ UNCHANGED <<cfg, printed, changes, fresh, kept>>

\* flash_delete_file()
Delete(n) ==
  /\ task = "run" /\ flash[n].state # "missing"
  /\ flash' = [flash EXCEPT ![n] = Missing] /\ kept' = [kept EXCEPT ![n] = Unknown]
  /\ UNCHANGED <<cfg, printed, task, job, changes, fresh>>

\* flash_rename_file(): an existing file of the new name is replaced.
Rename(old, new) ==
  /\ task = "run" /\ old # new /\ flash[old].state # "missing"
  /\ flash' = [flash EXCEPT ![new] = flash[old], ![old] = Missing]
  /\ kept' = [kept EXCEPT ![new] = kept[old], ![old] = Unknown]
  /\ UNCHANGED <<cfg, printed, task, job, changes, fresh>>

\* flash_format()
Format ==
  /\ task = "run"
  /\ flash' = [n \in Files |-> Missing] /\ kept' = [n \in Files |-> Unknown]
  /\ UNCHANGED <<cfg, printed, task, job, changes, fresh>>

\* print_config().  Bound: the user keeps the first text there is.
PrintConfig ==
  /\ task = "run" /\ printed = NoText /\ printed' = Json(cfg)
  /\ UNCHANGED <<cfg, flash, task, job, changes, fresh, kept>>

\* upload_config() with a text from print_config(); any text that cannot be parsed, or
\* has no "id", changes nothing.
Upload ==
  /\ task = "run" /\ printed # NoText
  /\ cfg' = Load(printed) /\ fresh' = TRUE
  /\ UNCHANGED <<flash, printed, task, job, changes, kept>>

Setting ==
  \/ \E v \in {1, 3} : SetLedMode(v)
  \/ \E s \in Communities : SetCommunity(s)
  \/ \E m \in Masks : SetMask(m)
  \/ \E k \in {"mqtt_tls", "syslog_active", "ntp_active"}, b \in BOOLEAN : SetFlag(k, b)
  \/ \E v \in Numbers : SetWifiMode(v)
  \/ \E l \in Addresses : SetServers(l)
  \/ \E l \in AccessLists : SetAcls(l)
  \/ \E k \in Keys : AddKey(k)
  \/ \E i \in 1..KeySlots : DeleteKey(i)
  \/ \E s \in FanSources : SetFanSource(s[1], s[2])
  \/ \E m \in Maps : SetPwmMap(m)
  \/ \E f \in Filters \cup {NoFilter} : SetFilter(f)
  \/ \E s \in TachoSources : SetTachoSource(s[1], s[2])
  \/ \E r \in RpmModes : SetRpmMode(r)
  \/ \E n \in Coefficients : SetBeta(n) \/ SetOffset(n)
  \/ \E t \in Timeouts : SetManual(t)
  \/ \E mode \in {"i2c", "onewire"} : SetDevice(mode, "x")
  \/ \E l \in SourceLists : SetCombined(l)

StoreNext ==
  \/ Boot \/ Restart
  \/ Setting
  \/ SaveOpen \/ SaveClose \/ SaveFails
  \/ \E src, dst \in Files : CopyOpen(src, dst) \/ Rename(src, dst)
  \/ CopyClose \/ CopyFails
  \/ \E n \in Files : Delete(n)
  \/ Format \/ PrintConfig \/ Upload

StoreSpec == StoreInit /\ [][StoreNext]_storeVars

-------------------------------------------------------------------------------
\* Whatever was set by commands, a save and a load keep it, but for: a string or a mask
\* that is empty, the syslog client and with it NTP, sources that are virtual sensors,
\* fans that are not on the board, fields that do not belong to the mode of a virtual
\* sensor, the type of a connector or the chip's own sensor, and the slots of the SSH
\* keys, not their order.
SaveKeeps ==
  LET c == cfg
      l == Load(Json(cfg))
  IN /\ \A k \in {"led_mode", "wifi_mode", "mqtt_tls", "dns_servers", "ssh_acls", "fan"} : l[k] = c[k]
     /\ \A k \in {"s_type", "s_id", "rpm_mode", "lra_treshold", "lra_invert"} : l.mbfan[k] = c.mbfan[k]
     /\ c.mbfan.s_type \in Many => l.mbfan.sources = c.mbfan.sources \cap 0..FanCount-1
     /\ KeysJson(l.ssh_pub_keys) = KeysJson(c.ssh_pub_keys)
     /\ l.sensor.offset = c.sensor.offset
     /\ SensorType = "external" => l.sensor.beta = c.sensor.beta
     /\ c.snmp_community # "" => l.snmp_community = c.snmp_community
     /\ c.http_fan_mask # {} => l.http_fan_mask = c.http_fan_mask
     /\ c.syslog_active => l.syslog_active /\ l.ntp_active = c.ntp_active
     /\ l.vsensor.mode = c.vsensor.mode
     /\ c.vsensor.mode = "manual" => l.vsensor.timeout = c.vsensor.timeout
     /\ c.vsensor.mode = "avg" =>
          l.vsensor.sensors = Only(c.vsensor.sensors, 1..SensorCount)
     /\ c.vsensor.mode \in {"i2c", "onewire"} => l.vsensor[c.vsensor.mode] = c.vsensor[c.vsensor.mode]

\* What was loaded from a file or a paste is not changed by any number of further
\* saves and loads: the losses happen once, at the first save.
LoadStable == task # "boot" /\ fresh => Load(Json(cfg)) = cfg

\* A unit comes up with what was saved in fanpico.cfg last, or copied and renamed to it,
\* whatever save, copy or reset failed or was cut short after that.
SaveSurvives ==
  [][task = "boot" /\ task' = "run" /\ kept[ConfigFile].known /\ ~Safemode
     => cfg' = Load(Json(kept[ConfigFile].cfg))]_storeVars

===============================================================================
