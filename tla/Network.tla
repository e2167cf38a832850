-------------------------------- MODULE Network --------------------------------
(***************************************************************************)
(* The wireless network and the clients that depend on it.                *)
(*                                                                         *)
(* wifi_init() configures the interface, joins a network and starts the   *)
(* servers; wifi_poll() then looks at the link every 1.5 s and joins      *)
(* again when it has been down for a while.  lwIP and the driver report   *)
(* changes in interrupts, also while wifi_init() or wifi_poll() are under *)
(* way.  The first time the interface has an address syslog is opened,    *)
(* and 2 s later the MQTT client is set up.                               *)
(*                                                                         *)
(* syslog_active is set, an MQTT server is configured, and neither they   *)
(* nor the name and the password of the network change while it runs.     *)
(***************************************************************************)
EXTENDS MqttConnection

CONSTANT MaxLosses   \* bound: losses of the link, failed attempts to join

ASSUME LossesAssumption == MaxLosses \in Nat

VARIABLES
  stage,       \* wifi_init(): "start", "connect", the tries of the synchronous
               \* connection, "services"; then "poll", or "off" after an early return
  address,     \* of the interface: "none", "static" or "leased"
  wifiStatus,  \* net_state->wifi_status
  age,         \* time since wifi_status_change, in units of 10 s, up to 3
  seen,        \* wifi_poll(): "no", the status it has read, or "rejoin"
  started,     \* network_initialized
  greeted,     \* init_msg_sent
  cfgServer,   \* cfg->syslog_server is set
  server,      \* net_state->syslog_server: "none", "cfg" or "dhcp"
  syslog,      \* where the open syslog sends to: "closed", "cfg" or "dhcp"
  losses,      \* losses so far
  missed       \* history: the interface came up before wifi_init() was through, or
               \* syslog could not be opened

netVars == <<stage, address, started, greeted, cfgServer, server, syslog, missed>>
linkVars == <<link, wifiStatus, age, seen, losses>>
vars == <<linkVars, netVars, mqttVars>>

Init ==
  /\ MqttInit
  /\ link = "down" /\ stage = "start" /\ address = "none" /\ wifiStatus = "inactive"
  /\ age = 0 /\ seen = "no" /\ started = FALSE /\ greeted = FALSE
  /\ cfgServer \in BOOLEAN /\ server = "none" /\ syslog = "closed"
  /\ losses = 0 /\ missed = FALSE

Lose == losses < MaxLosses /\ losses' = losses + 1

\* wifi_check_status() in a callback: what it returns is not looked at.
Report(status) ==
  IF status # wifiStatus THEN wifiStatus' = status /\ age' = 0
                         ELSE UNCHANGED <<wifiStatus, age>>

\* syslog_open(): it cannot be opened without a server, or when memory or the port
\* cannot be had.
OpenSyslog(known) ==
  syslog' \in IF known = "none" THEN {"closed"} ELSE {known, "closed"}

\* wifi_status_cb(): only the first time the interface is up is syslog opened.
InterfaceUp(known) ==
  IF started THEN UNCHANGED <<started, syslog, missed>>
  ELSE /\ started' = TRUE /\ OpenSyslog(known)
       /\ missed' = (stage # "poll" \/ (known # "none" /\ syslog' = "closed"))

-------------------------------------------------------------------------------
(***************************************************************************)
(* wifi_init()                                                            *)
(***************************************************************************)

\* Up to the MAC address.  There may be no wireless hardware, or it fails.  To give the
\* interface a static address calls wifi_status_cb() at once.
Configure ==
  /\ stage = "start"
  /\ \/ stage' = "off" /\ UNCHANGED <<address, started, syslog, missed, wifiStatus, age>>
     \/ /\ stage' = "connect" /\ address' = "static"
        /\ InterfaceUp(server) /\ Report(link)
     \/ stage' = "connect" /\ UNCHANGED <<address, started, syslog, missed, wifiStatus, age>>
  /\ UNCHANGED <<link, seen, losses, greeted, cfgServer, server, mqttVars>>

\* The early returns; or cyw43_arch_wifi_connect_async(), or its synchronous sister.
Join ==
  /\ stage = "connect"
  /\ \/ stage' = "off" /\ UNCHANGED link
     \/ stage' \in {"services", "try1"} /\ link' = "join"
  /\ UNCHANGED <<wifiStatus, age, seen, losses, address, started, greeted, cfgServer,
                 server, syslog, missed, mqttVars>>

\* cyw43_arch_wifi_connect_timeout_ms() returns; there are two tries.
JoinReturns ==
  /\ \/ stage \in {"try1", "try2"} /\ link = "up" /\ stage' = "services" /\ UNCHANGED link
     \/ stage = "try1" /\ link # "up" /\ stage' = "try2" /\ link' = "join"
     \/ stage = "try2" /\ link # "up" /\ stage' = "off" /\ UNCHANGED link
  /\ UNCHANGED <<wifiStatus, age, seen, losses, address, started, greeted, cfgServer,
                 server, syslog, missed, mqttVars>>

\* MUTANT of StartServices: net_state->syslog_server is left to DHCP.
StartServicesKeep ==
  /\ stage = "services" /\ stage' = "poll"
  /\ UNCHANGED <<linkVars, address, started, greeted, cfgServer, server, syslog, missed, mqttVars>>

\* The servers are started; then net_state->syslog_server is copied, which forgets a
\* server that DHCP gave.
StartServices ==
  /\ stage = "services" /\ stage' = "poll"
  /\ server' = IF cfgServer THEN "cfg" ELSE "none"
  /\ UNCHANGED <<linkVars, address, started, greeted, cfgServer, syslog, missed, mqttVars>>

-------------------------------------------------------------------------------
(***************************************************************************)
(* The driver and lwIP, in interrupts.  The network may come up while     *)
(* wifi_poll() is about to rejoin; that counts as a loss.                 *)
(***************************************************************************)

ComesUp == IF seen = "rejoin" THEN Lose ELSE UNCHANGED losses

\* Associated with the access point; an address there is stays.  wifi_link_cb().
Associate ==
  /\ link = "join"
  /\ link' = IF address = "none" THEN "noip" ELSE "up"
  /\ ComesUp /\ Report(link')
  /\ UNCHANGED <<seen, netVars, mqttVars>>

\* The access point is not there, or refuses; no callback.
JoinFails ==
  /\ link = "join" /\ link' = "fail" /\ Lose
  /\ UNCHANGED <<wifiStatus, age, seen, netVars, mqttVars>>

\* pico_dhcp_option_parse_hook(): an acknowledgement may name a log server.
DhcpServer == server' \in {server} \cup (IF cfgServer THEN {} ELSE {"dhcp"})

\* DHCP acknowledges: the options are read, the address is set, and wifi_status_cb().
Leased ==
  /\ link = "noip" /\ link' = "up" /\ address' = "leased" /\ ComesUp
  /\ DhcpServer /\ InterfaceUp(server') /\ Report(link')
  /\ UNCHANGED <<seen, stage, greeted, cfgServer, mqttVars>>

\* DHCP acknowledges the address there is.
Renewed ==
  /\ link = "up" /\ address = "leased" /\ DhcpServer
  /\ UNCHANGED <<linkVars, stage, address, started, greeted, cfgServer, syslog, missed, mqttVars>>

\* wifi_link_cb(): the access point is gone.
LinkLost ==
  /\ link \in {"noip", "up"} /\ link' = "down" /\ Lose /\ Report(link')
  /\ UNCHANGED <<seen, netVars, mqttVars>>

TenSeconds ==
  /\ wifiStatus # "up" /\ age < 3 /\ age' = age + 1
  /\ UNCHANGED <<link, wifiStatus, seen, losses, netVars, mqttVars>>

-------------------------------------------------------------------------------
(***************************************************************************)
(* wifi_poll(), one thing at a time.                                      *)
(***************************************************************************)

Polling == stage = "poll" /\ pc = "idle" /\ call = "none"

\* wifi_check_status(): the status is read ...
ReadStatus ==
  /\ Polling /\ seen = "no" /\ seen' = link
  /\ UNCHANGED <<link, wifiStatus, age, losses, netVars, mqttVars>>

\* MUTANT of CheckStatus: only a failure makes it join again.
CheckStatusFail ==
  /\ Polling /\ seen \notin {"no", "rejoin"}
  /\ IF seen # wifiStatus
     THEN wifiStatus' = seen /\ age' = 0 /\ seen' = "no"
     ELSE /\ seen' = IF seen = "fail" /\ age >= 1 THEN "rejoin" ELSE "no"
          /\ UNCHANGED <<wifiStatus, age>>
  /\ UNCHANGED <<link, losses, netVars, mqttVars>>

\* ... and compared with the last one, which a callback may have set since.  A link
\* that has been down for 10 s, or between two states for 30 s, is joined again.
CheckStatus ==
  /\ Polling /\ seen \notin {"no", "rejoin"}
  /\ IF seen # wifiStatus
     THEN wifiStatus' = seen /\ age' = 0 /\ seen' = "no"
     ELSE /\ seen' = IF seen # "up" /\ age >= (IF seen \in {"join", "noip"} THEN 3 ELSE 1)
                     THEN "rejoin" ELSE "no"
          /\ UNCHANGED <<wifiStatus, age>>
  /\ UNCHANGED <<link, losses, netVars, mqttVars>>

\* wifi_rejoin(): a network it is joined to is left, and the driver is asked to join.
Rejoin ==
  /\ Polling /\ seen = "rejoin" /\ seen' = "no" /\ age' = 0
  /\ \/ link' = "join" /\ UNCHANGED losses
     \/ Lose /\ link' = IF link \in {"join", "noip", "up"} THEN "down" ELSE link
  /\ UNCHANGED <<wifiStatus, netVars, mqttVars>>

\* 2 s after the network was there.
Greet ==
  /\ Polling /\ seen = "no" /\ started /\ ~greeted /\ greeted' = TRUE
  /\ Setup
  /\ UNCHANGED <<linkVars, stage, address, started, cfgServer, server, syslog, missed>>

Mqtt ==
  /\ \/ Polling /\ seen = "no" /\ (Reconnect \/ Due)
     \/ Connect \/ Finish \/ LwIP \/ Dropped \/ Online
  /\ UNCHANGED <<linkVars, netVars>>

Next ==
  \/ Configure \/ Join \/ JoinReturns \/ StartServices
  \/ Associate \/ JoinFails \/ Leased \/ Renewed \/ LinkLost \/ TenSeconds
  \/ ReadStatus \/ CheckStatus \/ Rejoin \/ Greet
  \/ Mqtt

Spec == Init /\ [][Next]_vars

Only(A) == A /\ UNCHANGED <<linkVars, netVars>>

\* wifi_init() gets through, wifi_poll() is called again and again and does each of its
\* duties in turn; time passes; an access point that is asked often enough answers, and
\* so do DHCP, the name server and the broker.
FairSpec ==
  /\ Spec
  /\ WF_vars(Configure) /\ WF_vars(Join) /\ WF_vars(JoinReturns) /\ WF_vars(StartServices)
  /\ SF_vars(ReadStatus) /\ WF_vars(CheckStatus) /\ WF_vars(Rejoin) /\ SF_vars(Greet)
  /\ WF_vars(TenSeconds) /\ SF_vars(Associate) /\ SF_vars(Leased)
  /\ SF_vars(Polling /\ seen = "no" /\ Only(Reconnect))
  /\ SF_vars(Polling /\ seen = "no" /\ Only(Due))
  /\ WF_vars(Only(Connect)) /\ WF_vars(Only(Finish)) /\ WF_vars(Only(LwIP))
  /\ SF_vars(Only(Resolve) /\ call' = "connect")

-------------------------------------------------------------------------------
\* Syslog is open to the server of the configuration, or else to one DHCP gave, and
\* with a server in the configuration it is open from the time the network is there --
\* unless it could not be opened, or the interface was up before wifi_init() was
\* through, as it is with a static address or a synchronous connection: then
\* net_state->syslog_server is not set yet.
SyslogOpens ==
  /\ syslog = "dhcp" => ~cfgServer
  /\ stage = "poll" /\ started /\ cfgServer => syslog = "cfg" \/ missed

\* However often the link is lost, an attempt to join fails or DHCP does not answer,
\* also at the time when wifi_poll() looks at the status: in the end the network is up
\* again, and the status that is shown says so.
UpAgain == <>[](stage = "off" \/ (link = "up" /\ wifiStatus = "up"))

\* After any number of failures, of the network and of the connection, the client is
\* connected again, unless one of them was of a kind that is not tried again: no
\* client, an error of the resolver or of the client, or a wrong login.
Reconnects == <>[](conn = "up" \/ gaveUp \/ stage = "off")

===============================================================================
