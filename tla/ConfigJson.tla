------------------------------- MODULE ConfigJson -------------------------------
(***************************************************************************)
(* The configuration, and its form as JSON: what config_to_json() writes  *)
(* and what json_to_config() makes of it after clear_config().            *)
(*                                                                         *)
(* The hundred settings are written in a handful of ways; each way is     *)
(* represented by one setting, of one fan, one motherboard connector, one *)
(* analog and one virtual sensor.  A JSON object is a function on the     *)
(* keys that are present.                                                 *)
(***************************************************************************)
EXTENDS Integers, Sequences, FiniteSets, SequencesExt

CONSTANTS
  SensorCount,   \* SENSOR_COUNT
  FanCount,      \* FAN_COUNT
  FanSlots,      \* FAN_MAX_COUNT: bits of http_fan_mask, and sources of a connector
  KeySlots,      \* SSH_MAX_PUB_KEYS
  ServerSlots,   \* DNS_MAX_SERVERS
  AclSlots,      \* SSH_MAX_ACL_ENTRIES
  SensorType,    \* "internal" or "external": the analog sensor of the board
  Communities,   \* values of snmp_community
  Servers,       \* addresses of DNS servers
  Keys,          \* users with their SSH public keys
  Filters,       \* filters with arguments that can be parsed
  Maps           \* maps of two or more points; "linear" is the one of a board

ASSUME CountAssumption ==
  /\ SensorCount \in 1..100 /\ {KeySlots, ServerSlots, AclSlots} \subseteq Nat
  /\ FanCount \in Nat /\ FanSlots \in Nat /\ FanCount <= FanSlots
ASSUME DataAssumption ==
  /\ {"", "public"} \subseteq Communities /\ "" \notin Keys /\ "any" \notin Servers
  /\ "linear" \in Maps /\ SensorType \in {"internal", "external"}
ASSUME FilterAssumption == Filters \subseteq STRING \X STRING   \* name and arguments

NoFilter == <<"none", "">>
SourceTypes == {"fixed", "mbfan", "sensor", "vsensor", "fan"}
TachoTypes == {"fixed", "fan", "min", "max", "avg"}
Many == {"min", "max", "avg"}   \* connectors that combine several fans

Uint16 == {n \in Nat : n < 65536}
Devices == {"", "x"}            \* addresses: none, and that of a device
Sources == 1..108               \* of a virtual sensor: sensors, and from 101 virtual ones

FanCfg == [s_type : SourceTypes, s_id : Nat, map : Maps \cup {""}, filter : Filters \cup {NoFilter}]
MbfanCfg == [s_type : TachoTypes, s_id : Nat, sources : SUBSET (0..FanSlots-1),
             rpm_mode : {"tacho", "lra"}, lra_treshold : Uint16, lra_invert : BOOLEAN]
SensorCfg == [type : {SensorType}, offset : Int, beta : Nat]
VsensorCfg == [mode : {"manual", "i2c", "onewire", "avg"}, timeout : Nat, i2c : Devices,
               onewire : Devices, sensors : Seq(Sources)]
Configs == [led_mode : 0..2, wifi_mode : 0..1, mqtt_tls : BOOLEAN, snmp_community : Communities,
            http_fan_mask : SUBSET (0..FanSlots-1), syslog_active : BOOLEAN, ntp_active : BOOLEAN,
            dns_servers : [1..ServerSlots -> Servers \cup {"any"}], ssh_acls : [1..AclSlots -> 0..32],
            ssh_pub_keys : [1..KeySlots -> Keys \cup {""}],
            fan : FanCfg, mbfan : MbfanCfg, sensor : SensorCfg, vsensor : VsensorCfg]

\* The start of a list in its slots; an entry that is null marks a free slot.
InSlots(l, n, null) == [i \in 1..n |-> IF i <= Len(l) THEN l[i] ELSE null]
Filled(slots, null) == \A i \in 2..Len(slots) : slots[i-1] = null => slots[i] = null

\* The elements of a list that are in S, in their order: the loops that copy some of them.
Only(l, S) ==
  LET copied[k \in 0..Len(l)] ==
        IF k = 0 THEN <<>> ELSE IF l[k] \in S THEN Append(copied[k-1], l[k]) ELSE copied[k-1]
  IN copied[Len(l)]
NotNull(slots, null) == Only(slots, {slots[i] : i \in 1..Len(slots)} \ {null})

\* Configurations as the commands make them: lists of addresses start in the first slot.
Stored == {c \in Configs : Filled(c.dns_servers, "any") /\ Filled(c.ssh_acls, 0)}

\* clear_config()
Cleared ==
  [led_mode |-> 0, wifi_mode |-> 0, mqtt_tls |-> TRUE, snmp_community |-> "public",
   http_fan_mask |-> 0..FanCount-1, syslog_active |-> TRUE, ntp_active |-> TRUE,
   dns_servers |-> InSlots(<<>>, ServerSlots, "any"), ssh_acls |-> InSlots(<<>>, AclSlots, 0),
   ssh_pub_keys |-> InSlots(<<>>, KeySlots, ""),
   fan |-> [s_type |-> "fixed", s_id |-> 0, map |-> "", filter |-> NoFilter],
   mbfan |-> [s_type |-> "fixed", s_id |-> 0, sources |-> {},
              rpm_mode |-> "tacho", lra_treshold |-> 200, lra_invert |-> FALSE],
   sensor |-> [type |-> SensorType, offset |-> 0, beta |-> 0],
   vsensor |-> [mode |-> "manual", timeout |-> 60, i2c |-> "", onewire |-> "", sensors |-> <<>>]]

-------------------------------------------------------------------------------
\* JSON_TO_NUM and the like: a key that is missing leaves what is there.
Field(j, key, default) == IF key \in DOMAIN j THEN j[key] ELSE default

\* bitmask_to_str(): the runs of bits that are set, bits numbered from 1.
MaskJson(mask) ==
  {r \in (1..FanSlots) \X (1..FanSlots) :
     /\ r[1] <= r[2] /\ \A b \in r[1]..r[2] : b - 1 \in mask
     /\ r[1] - 2 \notin mask /\ r[2] \notin mask}

\* MUTANT of MaskLoad: bits are taken to be numbered from 0.
MaskLoadFromZero(runs) == (UNION {r[1]..r[2] : r \in runs}) \cap 0..FanSlots-1

\* str_to_bitmask(): the first bit of a run counts for itself, the others if the last of
\* them is in range.
MaskLoad(runs) ==
  (UNION {IF r[2] <= FanSlots THEN r[1]-1 .. r[2]-1 ELSE {r[1]-1} : r \in runs})
    \cap 0..FanSlots-1

\* filter2json() and json2filter(): a filter without a context has no arguments.
FilterJson(f) == IF f = NoFilter THEN [name |-> f[1]] ELSE [name |-> f[1], args |-> f[2]]
FilterLoad(j) == <<j.name, Field(j, "args", "")>>

FanJson(f) ==
  [source_type |-> f.s_type, source_id |-> f.s_id, pwm_map |-> f.map, filter |-> FilterJson(f.filter)]

\* MUTANT of FanLoad: the source is taken to be numbered from 1, as in commands.
FanLoadFromOne(j) ==
  [s_type |-> j.source_type, map |-> j.pwm_map,
   s_id |-> IF j.source_type = "fixed" \/ j.source_id = 0 THEN j.source_id ELSE j.source_id - 1,
   filter |-> FilterLoad(Field(j, "filter", [name |-> "none"]))]

FanLoad(j) ==
  [s_type |-> j.source_type, s_id |-> j.source_id, map |-> j.pwm_map,
   filter |-> FilterLoad(Field(j, "filter", [name |-> "none"]))]

\* The sources of a connector are written when it combines several fans, those of the
\* board only; the inversion when it is on.
MbfanJson(m) ==
  [k \in {"source_type", "source_id", "rpm_mode", "lra_treshold"}
           \cup {s \in {"sources"} : m.s_type \in Many}
           \cup {s \in {"lra_invert"} : m.lra_invert} |->
     CASE k = "source_type" -> m.s_type
       [] k = "source_id"   -> m.s_id
       [] k = "sources"     -> {s + 1 : s \in m.sources \cap 0..FanCount-1}
       [] OTHER             -> m[k]]

MbfanLoad(j) ==
  [s_type |-> j.source_type, s_id |-> j.source_id, rpm_mode |-> Field(j, "rpm_mode", "tacho"),
   lra_treshold |-> Field(j, "lra_treshold", 200), lra_invert |-> Field(j, "lra_invert", FALSE),
   sources |-> {s - 1 : s \in Field(j, "sources", {})} \cap 0..FanSlots-1]

\* What an analog sensor needs for a thermistor is written for one on a connector only.
SensorJson(s) ==
  [k \in {"sensor_type", "temp_offset"} \cup {b \in {"beta"} : s.type = "external"} |->
     CASE k = "sensor_type" -> s.type [] k = "temp_offset" -> s.offset [] OTHER -> s.beta]

SensorLoad(j) ==
  [type |-> j.sensor_type, offset |-> Field(j, "temp_offset", 0),
   beta |-> IF j.sensor_type = "external" THEN Field(j, "beta", 0) ELSE 0]

\* The fields of the mode only: a fixed value its timeout, a device its address, a
\* combination its list of sensors.
VsensorJson(v) ==
  CASE v.mode = "manual" -> [mode |-> v.mode, timeout |-> v.timeout]
    [] v.mode = "avg"    -> [mode |-> v.mode, sensors |-> v.sensors]
    [] OTHER             -> [mode |-> v.mode, addr |-> v[v.mode]]

\* json2vsensors(): real sensors only, and no more of them than there are.
KnownSensors(l) ==
  LET real == Only(l, 1..SensorCount)
  IN SubSeq(real, 1, Min({Len(real), SensorCount}))

\* One entry of "vsensors".
VsensorLoad(j) ==
  LET v == [Cleared.vsensor EXCEPT !.mode = j.mode]
  IN CASE j.mode = "manual" -> [v EXCEPT !.timeout = Field(j, "timeout", @)]
       [] j.mode = "avg"    -> [v EXCEPT !.sensors = KnownSensors(j.sensors)]
       [] OTHER             -> [v EXCEPT ![j.mode] = j.addr]

\* iplist2json(), json2iplist() and the same for access lists and SSH keys: what is not
\* null, in its order, and back into the slots from the first.
ServersJson(ips) == NotNull(ips, "any")
ServersLoad(l)   == InSlots(l, ServerSlots, "any")
AclsJson(acls)   == NotNull(acls, 0)
AclsLoad(l)      == InSlots(l, AclSlots, 0)
KeysJson(keys)   == NotNull(keys, "")
KeysLoad(l)      == InSlots(l, KeySlots, "")

-------------------------------------------------------------------------------
\* Keys that are written: numbers and objects always; flags and wifi_mode when they differ
\* from the default; strings, masks and lists when they are not empty.  A syslog client
\* that is off is written as an NTP client that is off.
Written(c) ==
  {"led_mode", "fans", "mbfans", "sensors", "vsensors"}
    \cup {k \in {"wifi_mode", "mqtt_tls"} : c[k] # Cleared[k]}
    \cup {k \in {"ntp_active"} : ~c.syslog_active \/ ~c.ntp_active}
    \cup {k \in {"snmp_community"} : c.snmp_community # ""}
    \cup {k \in {"http_fan_mask"} : c.http_fan_mask \notin {Cleared.http_fan_mask, {}}}
    \cup {k \in {"dns_servers"} : ServerSlots > 0 /\ c.dns_servers[1] # "any"}
    \cup {k \in {"ssh_acls"} : AclsJson(c.ssh_acls) # <<>>}
    \cup {k \in {"ssh_pubkeys"} : KeysJson(c.ssh_pub_keys) # <<>>}

\* config_to_json().  Of two values with the same key the first is found later.
Json(c) ==
  [k \in Written(c) |->
     CASE k = "ntp_active"    -> c.syslog_active /\ c.ntp_active
       [] k = "http_fan_mask" -> MaskJson(c.http_fan_mask)
       [] k = "dns_servers"   -> ServersJson(c.dns_servers)
       [] k = "ssh_acls"      -> AclsJson(c.ssh_acls)
       [] k = "ssh_pubkeys"   -> KeysJson(c.ssh_pub_keys)
       [] k = "fans"          -> FanJson(c.fan)
       [] k = "mbfans"        -> MbfanJson(c.mbfan)
       [] k = "sensors"       -> SensorJson(c.sensor)
       [] k = "vsensors"      -> VsensorJson(c.vsensor)
       [] OTHER               -> c[k]]

\* clear_config(), then json_to_config().
Load(j) ==
  [k \in DOMAIN Cleared |->
     CASE k = "http_fan_mask" /\ k \in DOMAIN j              -> MaskLoad(j[k])
       [] k = "ssh_pub_keys" /\ "ssh_pubkeys" \in DOMAIN j   -> KeysLoad(j.ssh_pubkeys)
       [] k = "dns_servers" /\ k \in DOMAIN j                -> ServersLoad(j[k])
       [] k = "ssh_acls" /\ k \in DOMAIN j                   -> AclsLoad(j[k])
       [] k = "fan" /\ "fans" \in DOMAIN j                   -> FanLoad(j.fans)
       [] k = "mbfan" /\ "mbfans" \in DOMAIN j               -> MbfanLoad(j.mbfans)
       [] k = "sensor" /\ "sensors" \in DOMAIN j             -> SensorLoad(j.sensors)
       [] k = "vsensor" /\ "vsensors" \in DOMAIN j           -> VsensorLoad(j.vsensors)
       [] OTHER                                              -> Field(j, k, Cleared[k])]

\* The default configuration of a board: the fans follow the motherboard's connectors,
\* which report the fans.
DefaultJson ==
  [led_mode |-> 0, vsensors |-> [mode |-> "manual", timeout |-> 30],
   sensors |-> SensorJson([type |-> SensorType, offset |-> 0, beta |-> 3950]),
   fans |-> [source_type |-> "mbfan", source_id |-> 0, pwm_map |-> "linear"],
   mbfans |-> [source_type |-> "fan", source_id |-> 0]]

===============================================================================
