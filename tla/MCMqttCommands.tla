---------------------------- MODULE MCMqttCommands ----------------------------
(* Lines and commands for the runs of MqttCommands. *)
EXTENDS MqttCommands

W(text) == <<text, 0>>
Cmd(path, arg) == [path |-> path, arg |-> arg, query |-> FALSE, root |-> FALSE]
Query(path) == [path |-> path, arg |-> [text |-> ""], query |-> TRUE, root |-> FALSE]
Root(c) == [c EXCEPT !.root = TRUE]

MCFans == 1..2

SetTopic(t) == Cmd(<<W("SYS"), W("MQTT"), W("TOPIC"), W("COMM")>>, [text |-> t])
SetName(n, v) == Cmd(<<W("CONF"), <<"FAN", n>>, W("NAME")>>, [text |-> v])
WriteValue(n, v) == Cmd(<<W("WRITE"), <<"VSENSOR", n>>>>, [num |-> v])

MCText == [
  topic  |-> <<SetTopic("other")>>,
  no_topic |-> <<SetTopic("")>>,
  limit  |-> <<Cmd(<<W("SYST"), W("MQTT"), W("SCPI")>>, [flag |-> FALSE])>>,
  chain  |-> <<SetName(1, "a"), Cmd(<<W("NAME")>>, [text |-> "b"]),
               Root(Query(<<W("SYS"), W("ERR")>>))>>,
  twice  |-> <<Cmd(<<W("CONF"), <<"FAN", 2>>, W("MINPWM"), W("MINPWM")>>, [num |-> 5]),
               Root(WriteValue(1, 7))>>,
  level  |-> <<Query(<<W("MEAS"), <<"FAN", 1>>, W("PWM")>>), Query(<<W("TACHO")>>)>>,
  query  |-> <<Query(<<W("CONF"), <<"FAN", 1>>, W("MIN")>>)>>,
  value  |-> <<WriteValue(1, 3), Root(SetName(1, "d"))>>,
  name   |-> <<SetName(2, "c")>>,
  more   |-> <<Query(<<W("WRITE"), <<"VSENSOR", 1>>, W("NAME")>>)>>,
  pwm    |-> <<Query(<<W("MEASURE"), <<"FAN", 1>>, W("PWM")>>)>>,
  rpm    |-> <<Query(<<W("MEASURE"), <<"FAN", 1>>, W("RPM")>>)>>]
===============================================================================
