----------------------------- MODULE CommandEngine -----------------------------
(***************************************************************************)
(* The SCPI commands: their tables, and how a line finds a function.      *)
(*                                                                         *)
(* A line is a chain of commands.  A command is a path of words, an       *)
(* argument (a record whose field tells what it can be read as: "num",    *)
(* "flag" or "text"), and perhaps a question mark; a word is a text with  *)
(* a number (0 for none).  A command starts in the table where the one before it   *)
(* ended, or at the root if it begins with ':' (or '*').                  *)
(*                                                                         *)
(* The numbers on the way, as the 2 in FAN2, are on a stack that starts   *)
(* empty for each command.                                                *)
(***************************************************************************)
EXTENDS Integers, Sequences, FiniteSets, FiniteSetsExt, SequencesExt, TLC

-------------------------------------------------------------------------------
(***************************************************************************)
(* The tables of command.c.  An entry has a name, the letters of it that  *)
(* have to be there, and a table or a function or both.                   *)
(***************************************************************************)
Call(name, min)        == [name |-> name, min |-> min, sub |-> "", func |-> TRUE]
Group(name, min, sub)  == [name |-> name, min |-> min, sub |-> sub, func |-> FALSE]
Both(name, min, sub)   == [name |-> name, min |-> min, sub |-> sub, func |-> TRUE]

RootTable == <<
  Call("*CLS", 4), Call("*ESE", 4), Call("*ESR", 4), Call("*IDN", 4), Call("*OPC", 4),
  Call("*RST", 4), Call("*SRE", 4), Call("*STB", 4), Call("*TST", 4), Call("*WAI", 4),
  Both("CONFIGURE", 4, "config"), Call("EXIT", 4), Group("MEASURE", 3, "measure"),
  Group("SYSTEM", 3, "system"), Call("READ", 1), Call("WHO", 3), Group("WRITE", 3, "write")>>

ConfigTables == [
  config   |-> <<Call("DELETE", 3), Group("FAN", 3, "fan_c"), Group("MBFAN", 5, "mbfan_c"),
                 Call("READ", 1), Call("SAVE", 3), Group("SENSOR", 6, "sensor_c"),
                 Call("UPLOAD", 6), Both("VSENSORS", 8, "vsensors_c"),
                 Group("VSENSOR", 7, "vsensor_c")>>,
  fan_c    |-> <<Call("FILTER", 6), Call("MAXPWM", 3), Call("MINPWM", 3), Call("NAME", 4),
                 Call("PWMCOEFF", 4), Call("PWMMAP", 4), Call("RPMFACTOR", 4),
                 Call("RPMMODE", 5), Call("SOURCE", 3), Group("HYSTERESIS", 4, "fan_hyst")>>,
  fan_hyst |-> <<Call("TACHO", 3), Call("PWM", 3)>>,
  mbfan_c  |-> <<Call("FILTER", 6), Call("MAXRPM", 3), Call("MINRPM", 3), Call("NAME", 4),
                 Call("RPMCOEFF", 4), Call("RPMFACTOR", 4), Call("RPMMODE", 5),
                 Call("RPMMAP", 4), Call("SOURCE", 3)>>,
  sensor_c |-> <<Call("BETACOEFF", 4), Call("FILTER", 6), Call("NAME", 4),
                 Call("TEMPCOEFF", 5), Call("TEMPMAP", 5), Call("TEMPNOMINAL", 5),
                 Call("TEMPOFFSET", 5), Call("THERMISTOR", 4)>>,
  vsensor_c  |-> <<Call("FILTER", 6), Call("NAME", 4), Call("SOURCE", 3), Call("TEMPMAP", 5)>>,
  vsensors_c |-> <<Call("SOURCE", 3)>>]

\* fan_commands and mbfan_commands have the same words.
MeasureTables == [
  measure |-> <<Both("FAN", 3, "fan"), Both("MBFAN", 5, "fan"), Call("READ", 1),
                Both("SENSOR", 6, "sensor"), Call("VSENSORS", 8), Both("VSENSOR", 7, "vsensor")>>,
  fan     |-> <<Call("PWM", 3), Call("READ", 1), Call("RPM", 3), Call("TACHO", 3)>>,
  sensor  |-> <<Call("READ", 1), Call("TEMP", 4)>>,
  vsensor |-> <<Call("HUMIDITY", 3), Call("PRESSURE", 3), Call("READ", 1), Call("TEMP", 4)>>]

WriteTable == <<Call("VSENSOR", 7)>>

SystemTable == <<
  Call("BOARD", 5), Call("DEBUG", 5), Both("DISPLAY", 4, "display"), Call("ECHO", 4),
  Call("ERROR", 3), Call("FANS", 4), Call("FLASH", 5), Both("I2C", 3, "i2c"), Call("LED", 3),
  Both("LFS", 3, "lfs"), Call("LOG", 3), Call("MBFANS", 6), Call("MEMTEST", 7),
  Call("MEMORY", 3), Call("NAME", 4), Both("ONEWIRE", 7, "onewire"), Call("PSRAM", 5),
  Call("SENSORS", 7), Call("SERIAL", 6), Call("SPI", 3), Call("SYSLOG", 6),
  Call("TIMEZONE", 8), Call("TIME", 4), Call("UPGRADE", 7), Call("UPTIME", 4),
  Call("VERSION", 3), Call("VREFADC", 4), Call("VSENSORS", 8), Both("WIFI", 4, "wifi"),
  Group("HTTP", 4, "http"), Group("MQTT", 4, "mqtt"), Group("SNMP", 4, "snmp"),
  Group("TELNET", 6, "telnet"), Group("SSH", 3, "ssh"), Group("TLS", 3, "tls")>>

DeviceTables == [
  display |-> <<Call("LAYOUTR", 7), Call("LOGO", 4), Call("THEME", 4)>>,
  lfs     |-> <<Call("COPY", 4), Call("DELETE", 3), Call("DIRECTORY", 3), Call("FORMAT", 6),
                Call("RENAME", 3)>>,
  i2c     |-> <<Call("SCAN", 4), Call("SPEED", 5)>>,
  onewire |-> <<Call("SENSORS", 3)>>,
  wifi    |-> <<Call("AUTHMODE", 4), Call("COUNTRY", 3), Call("GATEWAY", 4),
                Call("HOSTNAME", 4), Call("IPADDRESS", 2), Call("MAC", 3), Call("NETMASK", 4),
                Call("DNS", 3), Call("NTPCLIENT", 4), Call("NTP", 3), Call("MODE", 4),
                Call("PASSWORD", 4), Call("REJOIN", 6), Call("SSID", 4), Call("STATS", 5),
                Call("STATUS", 4), Call("INFO", 4), Call("SYSLOGCLIENT", 7),
                Call("SYSLOG", 6)>>]

ServiceTables == [
  http      |-> <<Group("MASK", 4, "http_mask"), Call("PORT", 4), Call("TLSPORT", 7),
                  Call("SERVER", 4)>>,
  http_mask |-> <<Call("SENSOR", 6), Call("VSENSOR", 7), Call("FAN", 3), Call("MBFAN", 5)>>,
  snmp      |-> <<Call("AGENT", 5), Call("COMMUNITY", 4), Call("CONTACT", 4),
                  Call("LOCATION", 4), Group("TRAPS", 4, "snmp_trap"),
                  Call("WRITECOMMUNITY", 4)>>,
  snmp_trap |-> <<Call("AUTH", 4), Call("COMMUNITY", 4), Call("DESTINATION", 4)>>,
  ssh       |-> <<Call("ACLS", 3), Call("AUTH", 4), Call("PORT", 4), Call("SERVER", 4),
                  Call("PASSWORD", 4), Call("USER", 4), Both("KEY", 3, "ssh_pkey"),
                  Both("PUBKEY", 6, "ssh_pubkey")>>,
  ssh_pkey  |-> <<Call("CREATE", 3), Call("DELETE", 3), Call("LIST", 4)>>,
  ssh_pubkey |-> <<Call("ADD", 3), Call("DELETE", 3), Call("LIST", 4)>>,
  telnet    |-> <<Call("ACLS", 3), Call("AUTH", 4), Call("PORT", 4), Call("RAWMODE", 3),
                  Call("SERVER", 4), Call("PASSWORD", 4), Call("USER", 4)>>,
  tls       |-> <<Call("CERT", 4), Call("PKEY", 4)>>]

Publishing == <<Call("FANRPM", 6), Call("FANPWM", 6), Call("MBFANRPM", 8), Call("MBFANPWM", 8)>>
Climate == <<Call("TEMP", 4), Call("VTEMP", 5), Call("VHUMIDITY", 4), Call("VPRESSURE", 4)>>

MqttTables == [
  mqtt       |-> <<Call("SERVER", 4), Call("PORT", 4), Call("USER", 4), Call("PASSWORD", 4),
                   Call("SCPI", 4), Call("TLS", 3), Group("HA", 2, "mqtt_ha"),
                   Group("INTERVAL", 3, "mqtt_interval"), Group("MASK", 4, "mqtt_mask"),
                   Group("TOPIC", 5, "mqtt_topic")>>,
  mqtt_ha    |-> <<Call("DISCOVERY", 4)>>,
  mqtt_interval |-> <<Call("STATUS", 6), Call("TEMP", 4), Call("VSENSOR", 4), Call("RPM", 3),
                      Call("PWM", 3)>>,
  mqtt_mask  |-> Climate \o Publishing,
  mqtt_topic |-> <<Call("STATUS", 4), Call("COMMAND", 4), Call("RESPONSE", 4)>>
                 \o Climate \o Publishing]

Tables == [root |-> RootTable, write |-> WriteTable, system |-> SystemTable]
          @@ ConfigTables @@ MeasureTables @@ DeviceTables @@ ServiceTables @@ MqttTables

-------------------------------------------------------------------------------
(***************************************************************************)
(* The functions of the commands the models use, on sys: the settings     *)
(* they change, the values written, and last_error_num.                   *)
(***************************************************************************)

Result(res, sys) == [res |-> res, sys |-> sys]

\* array_string_setting(), of an array of the settings.
ArrayString(sys, array, item, query, arg) ==
  IF item \notin DOMAIN sys[array] THEN Result(1, sys)
  ELSE IF query THEN Result(0, sys)
  ELSE Result(0, [sys EXCEPT ![array][item] = arg.text])

\* array_uint8_setting() and its like: a query prints the value and is a command error.
ArrayNumber(sys, array, item, query, arg, low, high) ==
  IF item \notin DOMAIN sys[array] \/ query \/ "num" \notin DOMAIN arg THEN Result(1, sys)
  ELSE IF arg.num \notin low..high THEN Result(2, sys)
  ELSE Result(0, [sys EXCEPT ![array][item] = arg.num])

\* string_setting() and bool_setting(), of the kind of argument they take.
Setting(sys, field, kind, query, arg) ==
  IF query THEN Result(0, sys)
  ELSE IF kind \notin DOMAIN arg THEN Result(2, sys)
  ELSE Result(0, [sys EXCEPT ![field] = arg[kind]])

\* cmd_vsensor_write(), to a sensor in manual mode.
WriteVsensor(sys, item, query, arg) ==
  IF query \/ item \notin DOMAIN sys.vtemp \/ "num" \notin DOMAIN arg THEN Result(1, sys)
  ELSE Result(0, [sys EXCEPT !.vtemp[item] = arg.num])

\* cmd_fan_read(), cmd_fan_pwm() and the like.
ReadItem(sys, item, query) == Result(IF query /\ item \in DOMAIN sys.name THEN 0 ELSE 1, sys)

\* cmd_err()
ReadError(sys, query) ==
  IF query THEN Result(0, [sys EXCEPT !.error = 0]) ELSE Result(1, sys)

\* get_prev_cmd_index() at depth 0.
OuterNumber(stack) == IF stack = <<>> THEN 0 ELSE Last(stack)[2]

\* get_cmd_index() of the word itself, or of the one before it if that has the name.
OwnOrOuter(stack, word, name) ==
  IF stack # <<>> /\ Last(stack)[1] = name THEN Last(stack)[2] ELSE word[2]

\* The item a function acts on, 0 if it has none.
Item(table, entry, stack, word) ==
  CASE table \in {"fan_c", "fan"} /\ entry # "READ" -> OuterNumber(stack)
    [] <<table, entry>> \in {<<"measure", "FAN">>, <<"fan", "READ">>} ->
         OwnOrOuter(stack, word, "FAN")
    [] table = "write" -> OwnOrOuter(stack, word, "VSENSOR")
    [] OTHER -> 0

Function(c, sys) ==
  CASE <<c.table, c.entry>> = <<"fan_c", "NAME">> ->
         ArrayString(sys, "name", c.item, c.query, c.arg)
    [] <<c.table, c.entry>> = <<"fan_c", "MINPWM">> ->
         ArrayNumber(sys, "min", c.item, c.query, c.arg, 0, 100)
    [] c.table \in {"measure", "fan"} -> ReadItem(sys, c.item, c.query)
    [] c.table = "write" -> WriteVsensor(sys, c.item, c.query, c.arg)
    [] <<c.table, c.entry>> = <<"mqtt", "SCPI">> ->
         Setting(sys, "scpi", "flag", c.query, c.arg)
    [] <<c.table, c.entry>> = <<"mqtt_topic", "COMMAND">> ->
         Setting(sys, "topic", "text", c.query, c.arg)
    [] <<c.table, c.entry>> = <<"system", "ERROR">> -> ReadError(sys, c.query)
    [] OTHER -> Result(IF c.query THEN 0 ELSE 1, sys)

-------------------------------------------------------------------------------
(***************************************************************************)
(* run_cmd() and process_command().  Which functions a line calls depends *)
(* on its words alone.                                                    *)
(***************************************************************************)

\* strncasecmp() with the letters of an entry that have to be there.
Matches(text, entry) ==
  /\ Len(text) >= entry.min
  /\ SubSeq(text, 1, entry.min) = SubSeq(entry.name, 1, entry.min)

\* One word: the first entry that matches leads to its table, if there is a word to look
\* for in it, and otherwise its function is called.  A word that is not found ends it.
Step(at, cmd, k) ==
  LET table == Tables[at.level]
      hits  == {i \in DOMAIN table : Matches(cmd.path[k][1], table[i])}
      entry == table[Min(hits)]
      more  == k < Len(cmd.path)
  IN IF ~at.going THEN at
     ELSE IF hits = {} THEN [at EXCEPT !.going = FALSE]
     ELSE IF entry.sub # "" /\ more
     THEN [at EXCEPT !.level = entry.sub, !.stack = Append(@, cmd.path[k])]
     ELSE IF ~entry.func THEN at
     ELSE [at EXCEPT !.calls = Append(@, [
             path |-> cmd.path, table |-> at.level, entry |-> entry.name,
             word |-> cmd.path[k][1], query |-> cmd.query /\ ~more, arg |-> cmd.arg,
             item |-> Item(at.level, entry.name, at.stack, cmd.path[k])])]

\* run_cmd(): where a command ends that starts at the given place.
Walk(start, cmd) ==
  LET begun == [start EXCEPT !.level = IF cmd.root THEN "root" ELSE @,
                             !.stack = IF cmd.root THEN <<>> ELSE @,
                             !.calls = <<>>, !.going = TRUE]
      after[k \in 0..Len(cmd.path)] == IF k = 0 THEN begun ELSE Step(after[k - 1], cmd, k)
  IN after[Len(cmd.path)]

\* MUTANT of NewStack: the words of the command before stay on the stack.
OldStack(at) == at

\* Each command starts with an empty stack, at the level of the one before.
NewStack(at) == [at EXCEPT !.stack = <<>>]

\* process_command(): the calls of each command of a line.
Resolve(line) ==
  LET after[k \in 0..Len(line)] ==
        IF k = 0
        THEN [level |-> "root", stack |-> <<>>, calls |-> <<>>, going |-> TRUE, done |-> <<>>]
        ELSE LET at == Walk(NewStack(after[k - 1]), line[k])
             IN [at EXCEPT !.done = Append(@, at.calls)]
  IN after[Len(line)].done

Status(res) == CASE res < 0 -> -113 [] res = 0 -> 0 [] res = 1 -> -100 [] res = 2 -> -102
                 [] OTHER -> -1

\* sys after the calls of a command; the status is that of the last of them.
RunCmd(sys, calls) ==
  LET after[k \in 0..Len(calls)] ==
        IF k = 0 THEN Result(-1, sys) ELSE Function(calls[k], after[k - 1].sys)
      ended == after[Len(calls)]
  IN [ended.sys EXCEPT !.error = Status(ended.res)]

\* sys after a line, from the calls of its commands.
ProcessCommand(sys, resolved) ==
  LET after[k \in 0..Len(resolved)] ==
        IF k = 0 THEN sys ELSE RunCmd(after[k - 1], resolved[k])
  IN after[Len(resolved)]

===============================================================================
