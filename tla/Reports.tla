-------------------------------- MODULE Reports --------------------------------
(***************************************************************************)
(* What is reported of the state: pages of the HTTP server, and the       *)
(* messages for Home Assistant.                                           *)
(*                                                                         *)
(* The HTTP server runs in interrupts of core 0, which also come while    *)
(* the main program copies transfer_state to system_state.  csv_stats()   *)
(* (and json_stats(), which works alike) puts a page into a buffer of its *)
(* own and hands it out one part per call.  The buffer of csv_stats() has *)
(* a fixed size: what does not fit is left out, without a word.  Where it *)
(* is in the page is in static variables: there is one page at a time,    *)
(* and a second client that asks for it disturbs the first.               *)
(*                                                                         *)
(* The main program publishes a message with the current values, under    *)
(* names that discovery messages announced before; masks in the           *)
(* configuration choose which, and commands change them.                  *)
(***************************************************************************)
EXTENDS Integers, Sequences, FiniteSets, SequencesExt

CONSTANTS
  Requests,     \* requests for the page
  FieldCount,   \* parts of the state; each makes one part of a page
  Fitting,      \* how many parts may fit in the buffer; the last of them may be cut short
  Kinds,        \* the kinds of values that are considered for messages
  MaxRounds,    \* bound: states core 1 sends
  MaxSettings   \* bound: changes of the masks

\* The names json_ha_state_message() gives to values, by their masks.
StateName ==
  [temp |-> "sensor", vtemp |-> "vtemp", vhumidity |-> "vhumidity", vpressure |-> "vpressure",
   fan_rpm |-> "fanrpm", fan_duty |-> "fanpwm", mbfan_rpm |-> "mbfanrpm", mbfan_duty |-> "mbfanpwm"]

\* MUTANT of DiscoveryName: motherboard fans are announced as fans.
DiscoveryNameFan ==
  [temp |-> "sensor", vtemp |-> "vtemp", vhumidity |-> "vhumidity", vpressure |-> "vpressure",
   fan_rpm |-> "fanrpm", fan_duty |-> "fanpwm", mbfan_rpm |-> "mbfanrpm", mbfan_duty |-> "fanpwm"]

\* The names fanpico_mqtt_ha_discovery() announces them under, in this order.
DiscoveryName ==
  [temp |-> "sensor", vtemp |-> "vtemp", vhumidity |-> "vhumidity", vpressure |-> "vpressure",
   fan_rpm |-> "fanrpm", fan_duty |-> "fanpwm", mbfan_rpm |-> "mbfanrpm", mbfan_duty |-> "mbfanpwm"]

DiscoveryOrder == <<"temp", "vtemp", "vhumidity", "vpressure",
                    "fan_rpm", "fan_duty", "mbfan_rpm", "mbfan_duty">>

ASSUME ReportAssumption ==
  /\ Kinds \subseteq DOMAIN StateName
  /\ FieldCount \in Nat \ {0} /\ Fitting \subseteq 1..FieldCount
  /\ MaxRounds \in Nat /\ MaxSettings \in Nat

Null == "null"

VARIABLES
  transfer,   \* transfer_state, as the number of the round it is from
  system,     \* system_state, each of its parts
  copying,    \* parts that update_system_state() has copied
  heap,       \* buffers that are allocated, named for the requests they were made for
  page,       \* static variables of csv_stats(): buf, whose page p points to, and what is
              \* left of it
  request,    \* each request: "new", "open", "done" or "aborted"
  response,   \* what each has been sent: parts, with the round they are from
  masks,      \* kinds of values whose mask in the configuration is set
  settings,   \* changes of the masks so far
  message     \* names in the last message with current values

\* History: requests that were open when another page was made; how many parts fitted in
\* the page made for each; names announced, and kinds that were chosen since or whose
\* discovery message was not sent.
VARIABLES disturbed, fitted, announced, excused

stateVars == <<transfer, system, copying>>
pageVars == <<heap, page, request, response, disturbed, fitted>>
messageVars == <<masks, settings, message, announced, excused>>
reportVars == <<stateVars, pageVars, messageVars>>

Fields == 1..FieldCount
NoPage == [buf |-> Null, of |-> Null, left |-> <<>>]

ReportsInit ==
  /\ transfer = 0 /\ system = [f \in Fields |-> 0] /\ copying = 0
  /\ heap = {} /\ page = NoPage
  /\ request = [r \in Requests |-> "new"] /\ response = [r \in Requests |-> <<>>]
  /\ masks \in {{}, Kinds} /\ settings = 0 /\ message = {}
  /\ disturbed = {} /\ fitted = [r \in Requests |-> 0] /\ announced = {} /\ excused = masks

Open == {r \in Requests : request[r] = "open"}

-------------------------------------------------------------------------------
(***************************************************************************)
(* The state on core 0.                                                   *)
(***************************************************************************)

\* Core 1 sends a state; not while core 0 holds state_mutex.
Send ==
  /\ copying = 0 /\ transfer < MaxRounds /\ transfer' = transfer + 1
  /\ UNCHANGED <<system, copying, pageVars, messageVars>>

\* MUTANT of CopyPart: the mutex is not held while the parts are copied.
CopyPartUnlocked ==
  /\ copying' = (copying + 1) % FieldCount
  /\ system' = [system EXCEPT ![copying + 1] = transfer]
  /\ transfer' \in transfer..MaxRounds
  /\ UNCHANGED <<pageVars, messageVars>>

\* The memcpy of update_system_state(), with interrupts between its parts.
CopyPart ==
  /\ copying' = (copying + 1) % FieldCount
  /\ system' = [system EXCEPT ![copying + 1] = transfer]
  /\ UNCHANGED <<transfer, pageVars, messageVars>>

-------------------------------------------------------------------------------
(***************************************************************************)
(* csv_stats(), json_stats(): in interrupts, each call without a break.   *)
(***************************************************************************)

\* What a call does in the end, from the variables pg: the next part is handed out, and
\* after the last one the buffer is freed.
HandOut(r, pg, allocated) ==
  LET left == IF pg.left = <<>> THEN <<>> ELSE Tail(pg.left)
  IN /\ response' = [response EXCEPT ![r] = IF pg.left = <<>> THEN @ ELSE Append(@, Head(pg.left))]
     /\ IF left # <<>>
        THEN /\ page' = [pg EXCEPT !.left = left] /\ heap' = allocated
             /\ request' = [request EXCEPT ![r] = "open"]
        ELSE /\ page' = NoPage /\ heap' = allocated \ {pg.buf}
             /\ request' = [request EXCEPT ![r] = "done"]

\* The page that is made of system_state for a request, as far as it fits.
NewPage(r, n) == [buf |-> r, of |-> r, left |-> [f \in 1..n |-> <<f, system[f]>>]]

\* MUTANT of Start: a page that was left is freed first.
StartFree(r) ==
  /\ request[r] = "new"
  /\ LET freed == heap \ {page.buf}
     IN \/ /\ \E n \in Fitting : HandOut(r, NewPage(r, n), freed \cup {r})
                                  /\ fitted' = [fitted EXCEPT ![r] = n]
           /\ disturbed' = disturbed \cup Open \cup (IF Open # {} THEN {r} ELSE {})
        \/ /\ page' = [page EXCEPT !.buf = Null] /\ heap' = freed
           /\ request' = [request EXCEPT ![r] = "done"]
           /\ UNCHANGED <<response, disturbed, fitted>>
  /\ UNCHANGED <<stateVars, messageVars>>

\* The first call for a request: the page is made from system_state.  The buffer of a page
\* that is not at its end is forgotten.  Without memory the response ends.
Start(r) ==
  /\ request[r] = "new"
  /\ \/ /\ \E n \in Fitting : HandOut(r, NewPage(r, n), heap \cup {r})
                               /\ fitted' = [fitted EXCEPT ![r] = n]
        /\ disturbed' = disturbed \cup Open \cup (IF Open # {} THEN {r} ELSE {})
     \/ /\ page' = [page EXCEPT !.buf = Null] /\ request' = [request EXCEPT ![r] = "done"]
        /\ UNCHANGED <<heap, response, disturbed, fitted>>
  /\ UNCHANGED <<stateVars, messageVars>>

\* The next call for a request that has not got the whole page.
Continue(r) ==
  /\ request[r] = "open" /\ HandOut(r, page, heap)
  /\ UNCHANGED <<stateVars, messageVars, disturbed, fitted>>

\* The client has gone.
Abort(r) ==
  /\ request[r] = "open" /\ request' = [request EXCEPT ![r] = "aborted"]
  /\ UNCHANGED <<stateVars, messageVars, heap, page, response, disturbed, fitted>>

-------------------------------------------------------------------------------
(***************************************************************************)
(* Messages for Home Assistant, from the main program.                    *)
(***************************************************************************)

\* bitmask16_setting(): one of the masks is set or cleared.
SetMask(k) ==
  /\ settings < MaxSettings /\ settings' = settings + 1
  /\ masks' = IF k \in masks THEN masks \ {k} ELSE masks \cup {k}
  /\ excused' = IF k \in masks THEN excused ELSE excused \cup {k}
  /\ UNCHANGED <<stateVars, pageVars, message, announced>>

\* fanpico_mqtt_ha_discovery(): the first message that cannot be made ends it.  One that
\* lwIP does not take is lost, and the next follows.
Discovery ==
  \E n \in 0..Len(DiscoveryOrder) :
    \E sent \in SUBSET (ToSet(SubSeq(DiscoveryOrder, 1, n)) \cap masks) :
      /\ announced' = announced \cup {DiscoveryName[k] : k \in sent}
      /\ excused' = (excused \ sent) \cup (masks \ sent)

\* The names in the message json_ha_state_message() makes.
StateKeys == {StateName[k] : k \in masks}

\* fanpico_mqtt_publish(): without memory for the status message nothing follows.  Otherwise
\* the discovery messages, when they are due (see MqttConnection), and the values.
Publish ==
  /\ copying = 0
  /\ Discovery \/ UNCHANGED <<announced, excused>>
  /\ message' \in {message, StateKeys}
  /\ UNCHANGED <<stateVars, pageVars, masks, settings>>

ReportsNext ==
  \/ Send \/ CopyPart
  \/ \E r \in Requests : Start(r) \/ Continue(r) \/ Abort(r)
  \/ \E k \in Kinds : SetMask(k)
  \/ Publish

ReportsSpec == ReportsInit /\ [][ReportsNext]_reportVars

-------------------------------------------------------------------------------
\* A response no other request came in between is all of the page that fitted, in its
\* order, although it is handed out from variables it shares with others, some of which may
\* have been aborted half way or had no memory.  It shows a state core 1 sent, or -- when
\* the interrupt came in the middle of the copy -- a part of one before the rest of the one
\* it replaces.
WholePage ==
  \A r \in Requests \ disturbed :
    request[r] = "done" /\ response[r] # <<>> =>
      /\ [i \in DOMAIN response[r] |-> response[r][i][1]] = [f \in 1..fitted[r] |-> f]
      /\ Cardinality({part[2] : part \in ToSet(response[r])}) <= 2

\* No page is handed out of memory that has been freed, however requests overlap.
PageMemory == page.left # <<>> => page.of \in heap

\* A value in a message was announced under the name it has there, whatever the masks are,
\* unless its mask was set since the discovery messages, or its own message was not sent:
\* it could not be made, came after one that could not, or was refused by lwIP.
StateAnnounced == message \subseteq announced \cup {StateName[k] : k \in excused}

===============================================================================
