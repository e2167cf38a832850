---------------------------- MODULE MqttConnection ----------------------------
(***************************************************************************)
(* The MQTT connection, and the discovery messages for Home Assistant.    *)
(*                                                                         *)
(* mqtt_connect() runs in the main program and in the callback of the     *)
(* name lookup; lwIP reports what became of an attempt in interrupts.     *)
(* Everything that goes wrong is meant to end in a value of               *)
(* mqtt_reconnect: the seconds to wait for the next attempt, 0 for none.  *)
(* Home Assistant asks for the discovery messages whenever it comes up,   *)
(* at any time, also while the main program is sending them.              *)
(*                                                                         *)
(* Module Network runs these actions, and has the network come and go.    *)
(***************************************************************************)
EXTENDS Integers

CONSTANTS
  MaxFailures,   \* bound: failures while the network is up, and final ones
  MaxOnline      \* bound: times Home Assistant comes up

ASSUME BoundsAssumption == MaxFailures \in Nat /\ MaxOnline \in Nat

VARIABLES
  link,       \* of the wireless interface; see module Network
  client,     \* mqtt_client # NULL
  conn,       \* the client of lwIP: "down", "resolving", "connecting" or "up"
  call,       \* mqtt_connect() between its calls: "none", "resolve" or "connect"
  reconnect,  \* mqtt_reconnect, not its length
  discovery,  \* mqtt_ha_discovery, not its length
  pc,         \* main program in fanpico_mqtt_ha_discovery(): "idle", "clear", "send"
  failures,   \* failures so far
  online      \* times Home Assistant came up so far

\* History: requests for discovery messages that no complete set has followed yet:
\* "no", "sending" when the set under way was begun after the request, or "yes";
\* whether a failure came that is not tried again; whether a message was lost.
VARIABLES owed, gaveUp, lost

hist == <<owed, gaveUp, lost>>
mqttVars == <<client, conn, call, reconnect, discovery, pc, failures, online, hist>>

MqttInit ==
  /\ client = FALSE /\ conn = "down" /\ call = "none" /\ reconnect = FALSE
  /\ discovery = FALSE /\ pc = "idle" /\ failures = 0 /\ online = 0
  /\ owed = "no" /\ gaveUp = FALSE /\ lost = FALSE

\* A failure; without a network there is no end of them.
Fail == failures < MaxFailures /\ failures' = failures + 1
FailOrNoLink == IF link = "up" THEN Fail ELSE UNCHANGED failures
Fine == UNCHANGED failures

-------------------------------------------------------------------------------
(***************************************************************************)
(* mqtt_connect()                                                         *)
(***************************************************************************)

\* fanpico_setup_mqtt_client(): a client that cannot be had is not asked for again.
Setup ==
  /\ ~client
  /\ \/ client' = TRUE /\ call' = "resolve" /\ UNCHANGED gaveUp
     \/ gaveUp' = TRUE /\ UNCHANGED <<client, call>>
  /\ reconnect' = FALSE /\ discovery' = FALSE
  /\ UNCHANGED <<conn, pc, failures, online, owed, lost>>

\* fanpico_mqtt_reconnect(), once mqtt_reconnect seconds have passed; a connection
\* that exists is given up.  mqtt_connect() clears both requests.
Reconnect ==
  /\ pc = "idle" /\ call = "none" /\ reconnect
  /\ reconnect' = FALSE /\ discovery' = FALSE /\ owed' = "no"
  /\ call' = "resolve"
  /\ conn' = IF conn = "up" THEN "down" ELSE conn
  /\ UNCHANGED <<client, pc, failures, online, gaveUp, lost>>

\* dns_gethostbyname(): the address is known, is asked for (ERR_INPROGRESS), or there
\* is another error, after which nothing is tried again.
Resolve ==
  /\ call = "resolve"
  /\ \/ call' = "connect" /\ Fine /\ UNCHANGED <<conn, gaveUp>>
     \/ call' = "none" /\ conn' = "resolving" /\ Fine /\ UNCHANGED gaveUp
     \/ call' = "none" /\ Fail /\ gaveUp' = TRUE /\ UNCHANGED conn
  /\ UNCHANGED <<client, reconnect, discovery, pc, online, owed, lost>>

\* MUTANT of ClientConnect: a missing route is not tried again.
ClientConnectOnce ==
  /\ call = "connect" /\ call' = "none"
  /\ \/ link = "up" /\ conn' = "connecting" /\ Fine /\ UNCHANGED gaveUp
     \/ FailOrNoLink /\ gaveUp' \in {gaveUp, TRUE} /\ UNCHANGED conn
  /\ UNCHANGED <<client, reconnect, discovery, pc, online, owed, lost>>

\* mqtt_client_connect(): no error, ERR_RTE, or an error that is not tried again.
ClientConnect ==
  /\ call = "connect" /\ call' = "none"
  /\ \/ link = "up" /\ conn' = "connecting" /\ Fine /\ UNCHANGED <<reconnect, gaveUp>>
     \/ FailOrNoLink /\ reconnect' = TRUE /\ UNCHANGED <<conn, gaveUp>>
     \/ Fail /\ gaveUp' = TRUE /\ UNCHANGED <<conn, reconnect>>
  /\ UNCHANGED <<client, discovery, pc, online, owed, lost>>

-------------------------------------------------------------------------------
(***************************************************************************)
(* Callbacks of lwIP.                                                     *)
(***************************************************************************)

\* mqtt_dns_resolve_cb(): on to mqtt_connect(), in the interrupt; or no answer.
Resolved ==
  /\ conn = "resolving" /\ call = "none" /\ conn' = "down"
  /\ \/ link = "up" /\ call' = "resolve" /\ reconnect' = FALSE /\ discovery' = FALSE /\ Fine
     \/ reconnect' = TRUE /\ FailOrNoLink /\ UNCHANGED <<call, discovery>>
  /\ UNCHANGED <<client, pc, online, hist>>

\* MUTANT of Accepted: a reconnect is scheduled for a connection that exists.
AcceptedReconnect ==
  /\ link = "up" /\ conn = "connecting" /\ conn' = "up"
  /\ discovery' = TRUE /\ owed' = "yes" /\ reconnect' = TRUE
  /\ UNCHANGED <<client, call, pc, failures, online, gaveUp, lost>>

\* mqtt_connection_cb(), accepted: subscribe, and announce the sensors.
Accepted ==
  /\ link = "up" /\ conn = "connecting" /\ conn' = "up"
  /\ discovery' = TRUE /\ owed' = "yes"
  /\ UNCHANGED <<client, call, reconnect, pc, failures, online, gaveUp, lost>>

\* mqtt_connection_cb(): the attempt failed.  A wrong user name or password is final.
Rejected ==
  /\ conn = "connecting" /\ conn' = "down"
  /\ \/ FailOrNoLink /\ reconnect' = TRUE /\ UNCHANGED gaveUp
     \/ link = "up" /\ Fail /\ gaveUp' = TRUE /\ UNCHANGED reconnect
  /\ UNCHANGED <<client, call, discovery, pc, online, owed, lost>>

\* mqtt_connection_cb(): an established connection ended.
Dropped ==
  /\ conn = "up" /\ conn' = "down" /\ FailOrNoLink
  /\ reconnect' = TRUE /\ owed' = "no"
  /\ UNCHANGED <<client, call, discovery, pc, online, gaveUp, lost>>

\* incoming_ha_status(): "online".
Online ==
  /\ link = "up" /\ conn = "up" /\ online < MaxOnline /\ online' = online + 1
  /\ discovery' = TRUE /\ owed' = "yes"
  /\ UNCHANGED <<client, conn, call, reconnect, pc, failures, gaveUp, lost>>

-------------------------------------------------------------------------------
(***************************************************************************)
(* fanpico_mqtt_ha_discovery(), from fanpico_mqtt_publish()               *)
(***************************************************************************)

\* A request, and its delay has passed.
Due ==
  /\ pc = "idle" /\ call = "none" /\ discovery /\ pc' = "clear"
  /\ UNCHANGED <<client, conn, call, reconnect, discovery, failures, online, hist>>

\* mqtt_ha_discovery = 0
Clear ==
  /\ pc = "clear" /\ pc' = "send" /\ discovery' = FALSE
  /\ owed' = IF owed = "yes" THEN "sending" ELSE owed
  /\ UNCHANGED <<client, conn, call, reconnect, failures, online, gaveUp, lost>>

\* MUTANT of Sent: the request is cleared when the messages are sent.
SentAndCleared ==
  /\ pc = "send" /\ pc' = "idle" /\ discovery' = FALSE
  /\ owed' = IF owed = "sending" THEN "no" ELSE owed
  /\ UNCHANGED <<client, conn, call, reconnect, failures, online, gaveUp, lost>>

\* All messages are sent (or none, when the connection is gone).  The result of
\* mqtt_publish_message() is not looked at: a message lwIP has no room for is lost.
Sent ==
  /\ pc = "send" /\ pc' = "idle"
  /\ \/ Fine /\ owed' = (IF owed = "sending" THEN "no" ELSE owed) /\ UNCHANGED lost
     \/ Fail /\ owed' = (IF owed = "sending" THEN "yes" ELSE owed) /\ lost' = TRUE
  /\ UNCHANGED <<client, conn, call, reconnect, discovery, online, gaveUp>>

\* mqtt_connect() goes on in the context it runs in; the rest waits for wifi_poll().
Connect == Resolve \/ ClientConnect
LwIP == Resolved \/ Accepted \/ Rejected
Finish == Clear \/ Sent

-------------------------------------------------------------------------------
\* No attempt is scheduled while a connection exists or one is under way: the main
\* program and the callbacks never work on two attempts at once.
OneAttempt == reconnect => conn = "down" /\ call = "none"

\* Every request of Home Assistant is followed by a complete set of discovery
\* messages, also one that comes while a set is being sent, unless lwIP has no room
\* for a message of the set.
DiscoveryAnswered == owed = "yes" ~> owed = "no" \/ lost

===============================================================================
