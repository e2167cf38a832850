----------------------------- MODULE MqttCommands -----------------------------
(***************************************************************************)
(* Commands: lines from the console, and commands that arrive by MQTT.    *)
(*                                                                         *)
(* The MQTT client of lwIP calls back in interrupts of core 0: once with  *)
(* the topic of a message, then with each piece of its payload.  A piece  *)
(* on the command topic is cut at its first ';' and put in a buffer for   *)
(* one command.  The main program looks at that buffer twice a second,    *)
(* runs the command, sends the result, and empties the buffer.            *)
(*                                                                         *)
(* Lines from the console are run by the main program in the same loop.   *)
(* They may be chains of commands.  Both change the settings, of which    *)
(* some decide how messages are taken.                                    *)
(*                                                                         *)
(* A message is <<number, topic>>, a piece of it                          *)
(* <<number, topic, part, command>>.                                      *)
(***************************************************************************)
EXTENDS CommandEngine

CONSTANTS
  Topics,      \* topics the command topic is chosen from
  Birth,       \* the topic Home Assistant announces itself on
  BirthSet,    \* whether an HA discovery prefix is configured
  MaxParts,    \* pieces lwIP may hand a message over in
  MaxMsgs,     \* bound: messages
  MaxLines,    \* bound: lines from the console
  Fans,        \* numbers of fans and of virtual sensors in manual mode
  Lines,       \* names of the lines users enter
  Commands,    \* names of the payloads that come by MQTT
  Text         \* the line each name stands for

ASSUME TopicAssumption == Birth \notin Topics /\ "" \notin Topics /\ BirthSet \in BOOLEAN
ASSUME BoundsAssumption == MaxParts \in Nat \ {0} /\ MaxMsgs \in Nat /\ MaxLines \in Nat
ASSUME NameAssumption == Lines \cap Commands = {}
ASSUME FanAssumption == Fans \subseteq Nat \ {0}
ASSUME TextAssumption ==
  /\ Lines \cup Commands \subseteq DOMAIN Text
  /\ \A line \in Lines \cup Commands :
       /\ Text[line] \in Seq(ToSet(Text[line]))
       /\ \A cmd \in ToSet(Text[line]) : cmd.path \in Seq(STRING \X Nat)
\* "WRITE" finds its own entry, not one before it in the table.
ASSUME WordAssumption ==
  LET root == Tables["root"]
      hits == {i \in DOMAIN root : Matches("WRITE", root[i])}
  IN hits # {} /\ root[Min(hits)].sub = "write" /\ Tables["write"] = WriteTable

VARIABLES
  system,         \* settings, with the command topic ("" for none), and last_error_num
  subscribed,  \* topics the broker sends: subscribed when the connection was made
  incoming,    \* incoming_topic: 0 ignored, 1 command, 2 Home Assistant
  msg,         \* message that is being received
  parts,       \* pieces of it still to come
  buffer,      \* mqtt_scpi_cmd
  queued,      \* mqtt_scpi_cmd_queued
  pc,          \* main program in fanpico_mqtt_scpi_command(), "idle" outside
  running,     \* its copy of the command
  sent,        \* messages so far
  entered      \* lines from the console so far

\* History: what was put in the buffer, and which of it while all commands were allowed;
\* what was run, and the answers sent, each with the status; what was refused, which is
\* answered with status 1; the name of the line or command
\* that ran last.
VARIABLES accepted, allowed, ran, answers, refused, last

vars == <<system, subscribed, incoming, msg, parts, buffer, queued, pc, running,
          sent, entered, accepted, allowed, ran, answers, refused, last>>

None == <<0, "", 0, "">>

\* MUTANT of Cut: the rest of the payload is not ignored.
CutNothing(line) == line

\* incoming_fanpico_cmd(): a payload ends at the first ';' in it.
Cut(line) == IF line = <<>> THEN <<>> ELSE <<Head(line)>>

\* What runs under a name: a whole line, or what is left of a payload.
Requested(name) == IF name \in Commands THEN Cut(Text[name]) ELSE Text[name]

\* What may run, with the calls it makes.
Resolved == {<<name, Resolve(Requested(name))>> : name \in Lines \cup Commands}
CallsOf(name) == (CHOOSE r \in Resolved : r[1] = name)[2]

AllTopics == Topics \cup {Birth}
Pieces == (1..MaxMsgs) \X AllTopics \X (1..MaxParts) \X Commands

TypeOK ==
  /\ incoming \in 0..2 /\ parts \in 0..MaxParts /\ sent \in 0..MaxMsgs
  /\ msg \in ((1..MaxMsgs) \X AllTopics) \cup {<<0, "">>}
  /\ buffer \in Pieces \cup {None} /\ running \in Pieces \cup {None}
  /\ queued \in BOOLEAN /\ pc \in {"idle", "run", "answer", "empty", "release"}
  /\ accepted \in Seq(Pieces) /\ refused \subseteq Pieces

\* Connected: mqtt_connection_cb() has subscribed to what is configured.
Init ==
  /\ system \in [name : {[f \in Fans |-> ""]}, min : {[f \in Fans |-> 0]},
               vtemp : {[f \in Fans |-> 0]}, topic : Topics, scpi : BOOLEAN, error : {0}]
  /\ subscribed = {system.topic} \cup (IF BirthSet THEN {Birth} ELSE {})
  /\ incoming = 0 /\ msg = <<0, "">> /\ parts = 0
  /\ buffer = None /\ queued = FALSE /\ pc = "idle" /\ running = None
  /\ sent = 0 /\ entered = 0
  /\ accepted = <<>> /\ allowed = {} /\ ran = <<>> /\ answers = <<>>
  /\ refused = {} /\ last = ""

main == <<pc, running>>
receive == <<incoming, msg, parts, sent>>
engine == <<system, subscribed, entered, last>>
history == <<accepted, allowed, ran, answers, refused>>

-------------------------------------------------------------------------------
\* A line is complete and runs.  If it changes the command topic, the subscription stays.
Console(line) ==
  /\ pc = "idle" /\ entered < MaxLines
  /\ entered' = entered + 1
  /\ system' = ProcessCommand(system, CallsOf(line)) /\ last' = line
  /\ UNCHANGED <<subscribed, receive, buffer, queued, main, history>>

\* mqtt_incoming_publish_cb(): a topic that is neither of the two is only told from
\* them when no birth topic is set.
Publish(t, n) ==
  /\ parts = 0 /\ t \in subscribed /\ sent < MaxMsgs
  /\ sent' = sent + 1 /\ msg' = <<sent', t>> /\ parts' = n
  /\ incoming' = CASE t = system.topic -> 1
                   [] t # system.topic /\ BirthSet /\ t = Birth -> 2
                   [] t # system.topic /\ BirthSet /\ t # Birth -> incoming
                   [] OTHER -> 0
  /\ UNCHANGED <<engine, buffer, queued, main, history>>

Piece(c) == <<msg[1], msg[2], parts, c>>

\* What begins with "WRITE:".
BeginsWithWrite(line) ==
  /\ line # <<>> /\ ~line[1].root
  /\ Len(line[1].path) > 1 /\ line[1].path[1] = <<"WRITE", 0>>

\* Without mqtt_allow_scpi the beginning of the command decides.
Permitted(c) == Requested(c) # <<>> /\ (system.scpi \/ BeginsWithWrite(Requested(c)))

\* MUTANT of Refuse: a command that comes while another runs takes its place.
Overwrite(c) ==
  /\ parts > 0 /\ incoming = 1 /\ Permitted(c) /\ queued
  /\ parts' = parts - 1
  /\ buffer' = Piece(c) /\ accepted' = Append(accepted, Piece(c))
  /\ UNCHANGED <<engine, incoming, msg, sent, queued, main, allowed, ran, answers, refused>>

\* incoming_fanpico_cmd(): the queue is full; the answer has status 1.
Refuse(c) ==
  /\ parts > 0 /\ incoming = 1 /\ Permitted(c) /\ queued
  /\ parts' = parts - 1
  /\ refused' = refused \cup {Piece(c)}
  /\ UNCHANGED <<engine, incoming, msg, sent, buffer, queued, main, accepted, allowed, ran,
                 answers>>

\* incoming_fanpico_cmd(): the command is queued.
Accept(c) ==
  /\ parts > 0 /\ incoming = 1 /\ Permitted(c) /\ ~queued
  /\ parts' = parts - 1
  /\ buffer' = Piece(c) /\ queued' = TRUE
  /\ accepted' = Append(accepted, Piece(c))
  /\ allowed' = IF system.scpi THEN allowed \cup {Piece(c)} ELSE allowed
  /\ UNCHANGED <<engine, incoming, msg, sent, main, ran, answers, refused>>

\* incoming_ha_status(), a message that is ignored, and a command that is empty or not
\* permitted.
Other ==
  /\ parts > 0
  /\ parts' = parts - 1
  /\ UNCHANGED <<engine, incoming, msg, sent, buffer, queued, main, history>>

Receive == Other \/ \E c \in Commands : Accept(c) \/ Refuse(c)

\* MUTANT of Start: the buffer is released as soon as the command is copied.
StartEarlyRelease ==
  /\ pc = "idle" /\ queued
  /\ pc' = "run" /\ running' = buffer /\ queued' = FALSE
  /\ UNCHANGED <<engine, receive, buffer, history>>

\* MUTANT of Start: nothing is run while no command topic is configured.
StartNeedsTopic ==
  /\ pc = "idle" /\ queued /\ system.topic # ""
  /\ pc' = "run" /\ running' = buffer
  /\ UNCHANGED <<engine, receive, buffer, queued, history>>

\* fanpico_mqtt_scpi_command() copies the command.
Start ==
  /\ pc = "idle" /\ queued
  /\ pc' = "run" /\ running' = buffer
  /\ UNCHANGED <<engine, receive, buffer, queued, history>>

\* process_command()
Run ==
  /\ pc = "run" /\ pc' = "answer"
  /\ system' = ProcessCommand(system, CallsOf(running[4])) /\ last' = running[4]
  /\ ran' = Append(ran, <<running, system'.error>>)
  /\ UNCHANGED <<subscribed, entered, receive, buffer, queued, running, accepted, allowed, answers,
                 refused>>

\* The result goes out: last_error_num, with the text in the BUFFER.
Answer ==
  /\ pc = "answer" /\ pc' = "empty"
  /\ answers' = Append(answers, <<buffer, system.error>>)
  /\ UNCHANGED <<engine, receive, buffer, queued, running, accepted, allowed, ran, refused>>

\* mqtt_scpi_cmd[0] = 0
Empty ==
  /\ pc = "empty" /\ pc' = "release"
  /\ buffer' = None
  /\ UNCHANGED <<engine, receive, queued, running, history>>

\* mqtt_scpi_cmd_queued = false
Release ==
  /\ pc = "release" /\ pc' = "idle"
  /\ queued' = FALSE
  /\ UNCHANGED <<engine, receive, buffer, running, history>>

Main == Start \/ Run \/ Answer \/ Empty \/ Release

Next ==
  \/ \E line \in Lines : Console(line)
  \/ \E t \in AllTopics, n \in 1..MaxParts : Publish(t, n)
  \/ Receive
  \/ Main

Spec == Init /\ [][Next]_vars

\* The main loop comes round again and again, and a command ends.
FairSpec == Spec /\ WF_vars(Main) /\ WF_vars(Receive)

-------------------------------------------------------------------------------
\* Commands run in the order they were accepted, each once, none that was refused:
\* the interrupt never changes the buffer under the main program.
RunsAsAccepted ==
  /\ Len(ran) <= Len(accepted) /\ Len(accepted) <= Len(ran) + 1
  /\ \A k \in 1..Len(ran) : ran[k][1] = accepted[k]
  /\ refused \cap ToSet(accepted) = {}

\* A command is answered once, with its own text and the status it ended with itself,
\* although both are read from variables that interrupts and the console change, too.
AnswersMatch == pc \notin {"run", "answer"} => ToSet(answers) = ToSet(ran)

\* What comes by MQTT while not all commands are allowed changes nothing but the values
\* that virtual sensors are given, whatever else the message brings: also if the command
\* waits in the queue while lines from the console run, or finds its function by an
\* abbreviation or through more than one word of a path.
OnlyWrites ==
  [][Run /\ running \notin allowed =>
       system' = [system EXCEPT !.vtemp = system'.vtemp, !.error = system'.error]]_vars

Called == IF last = "" THEN {} ELSE UNION {ToSet(calls) : calls \in ToSet(CallsOf(last))}

\* In a chain a command acts on the item that its own words name, never on the one a
\* command before it was about, although it starts in the table where that one ended.
OwnItem == \A c \in Called : c.item # 0 => \E w \in ToSet(c.path) : w[2] = c.item

\* A word that is the name of an entry calls the function of that entry.
\* (commands.md:1497: "MEASure:FANx:RPM?  Return current fan speed (RPM).")
NameCallsEntry ==
  \A c \in Called :
    (\E e \in ToSet(Tables[c.table]) : e.name = c.word) => c.entry = c.word

\* Every accepted command is run and answered, and the queue is free again.
QueueDrains == queued ~> ~queued

===============================================================================
