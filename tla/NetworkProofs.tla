----------------------------- MODULE NetworkProofs -----------------------------
(***************************************************************************)
(* Proofs about Network and the MQTT connection in it, for any number of  *)
(* failures, and about Reports, what clients of the network are given,    *)
(* for any requests, parts of a page, and changes of the state.           *)
(***************************************************************************)
EXTENDS Network, Reports, FiniteSetTheorems, TLAPS

\* mqtt_connect() runs only while there is no connection, and there is none without a client.
ConnInv ==
  /\ reconnect => conn = "down" /\ call = "none"
  /\ call # "none" => conn = "down"
  /\ ~client => conn = "down" /\ call = "none" /\ ~reconnect

\* A server in the configuration is the only one that is ever known, from the time the
\* servers are started; what was opened earlier is marked.
ServerInv ==
  /\ cfgServer \in BOOLEAN
  /\ cfgServer => server \in {"none", "cfg"} /\ syslog \in {"closed", "cfg"}
  /\ cfgServer /\ stage = "poll" => server = "cfg"
  /\ cfgServer /\ started => missed \/ syslog = "cfg"

\* The servers there are.
ServerOK == server \in {"none", "cfg", "dhcp"}

-------------------------------------------------------------------------------
\* The two invariants speak of different variables.
LEMMA ConnUnchanged ==
  ASSUME ConnInv, UNCHANGED <<reconnect, conn, call, client>> PROVE ConnInv'
BY DEF ConnInv

\* And those of the network of others than the connection.
LEMMA ServerUnchanged == ASSUME ServerInv, UNCHANGED netVars PROVE ServerInv'
BY DEF ServerInv, netVars

\* The initial states satisfy them.
LEMMA InitInv == Init => ConnInv /\ ServerInv /\ ServerOK
BY DEF Init, MqttInit, ConnInv, ServerInv, ServerOK

\* Every step of the connection preserves the first.
LEMMA MqttConn == ASSUME ConnInv, Mqtt \/ Greet PROVE ConnInv'
<1>1. CASE Setup
  BY <1>1 DEF Setup, ConnInv
<1>2. CASE Reconnect
  BY <1>2 DEF Reconnect, ConnInv
<1>3. CASE Connect
  BY <1>3 DEF Connect, Resolve, ClientConnect, ConnInv
<1>4. CASE LwIP
  BY <1>4 DEF LwIP, Resolved, Accepted, Rejected, ConnInv
<1>5. CASE Dropped
  BY <1>5 DEF Dropped, ConnInv
<1>6. CASE Online \/ Due \/ Finish
  BY <1>6, ConnUnchanged DEF Online, Due, Finish, Clear, Sent
<1>7. QED
  BY <1>1, <1>2, <1>3, <1>4, <1>5, <1>6 DEF Mqtt, Greet

\* Steps of the network leave the connection alone.
LEMMA NetConn ==
  ASSUME ConnInv, \/ Configure \/ Join \/ JoinReturns \/ StartServices
                  \/ Associate \/ JoinFails \/ Leased \/ Renewed \/ LinkLost \/ TenSeconds
                  \/ ReadStatus \/ CheckStatus \/ Rejoin \/ UNCHANGED vars
  PROVE  ConnInv'
<1>1. UNCHANGED mqttVars
  BY DEF Configure, Join, JoinReturns, StartServices, Associate, JoinFails, Leased, Renewed,
         LinkLost, TenSeconds, ReadStatus, CheckStatus, Rejoin, vars
<1>2. QED
  BY <1>1, ConnUnchanged DEF mqttVars

\* The interface comes up: syslog is opened, to a server that is known.
LEMMA UpServer ==
  ASSUME ServerInv, NEW known, InterfaceUp(known), known \in {"none", "cfg", "dhcp"},
         cfgServer => known \in {"none", "cfg"},
         cfgServer /\ stage = "poll" => known = "cfg"
  PROVE  /\ cfgServer => syslog' \in {"closed", "cfg"}
         /\ cfgServer /\ started' => missed' \/ syslog' = "cfg"
<1>1. CASE started
  BY <1>1 DEF InterfaceUp, ServerInv
<1>2. CASE ~started
  BY <1>2 DEF InterfaceUp, OpenSyslog
<1>3. QED
  BY <1>1, <1>2

\* Every step preserves the second invariant.
LEMMA NextServer == ServerOK /\ ServerInv /\ [Next]_vars => ServerInv'
<1> SUFFICES ASSUME ServerOK, ServerInv, [Next]_vars PROVE ServerInv'
  OBVIOUS
<1>1. CASE Configure
  <2>1. cfgServer' = cfgServer /\ server' = server /\ stage' \in {"off", "connect"}
    BY <1>1 DEF Configure
  <2>2. CASE InterfaceUp(server)
    BY <2>1, <2>2, UpServer DEF ServerInv, ServerOK
  <2>3. CASE UNCHANGED <<started, syslog, missed>>
    BY <2>1, <2>3 DEF ServerInv
  <2>4. QED
    BY <1>1, <2>2, <2>3 DEF Configure
<1>2. CASE Join \/ JoinReturns
  <2>1. UNCHANGED <<cfgServer, server, syslog, started, missed>> /\ stage' # "poll"
    BY <1>2 DEF Join, JoinReturns
  <2>2. QED
    BY <2>1 DEF ServerInv
<1>3. CASE StartServices
  BY <1>3 DEF StartServices, ServerInv
<1>4. CASE Leased
  <2>1. /\ UNCHANGED <<stage, cfgServer>> /\ InterfaceUp(server')
        /\ server' = server \/ (~cfgServer /\ server' = "dhcp")
    BY <1>4 DEF Leased, DhcpServer
  <2>2. QED
    BY <2>1, UpServer DEF ServerInv, ServerOK
<1>5. CASE Renewed
  <2>1. /\ UNCHANGED <<stage, cfgServer, syslog, started, missed>>
        /\ server' = server \/ (~cfgServer /\ server' = "dhcp")
    BY <1>5 DEF Renewed, DhcpServer
  <2>2. QED
    BY <2>1 DEF ServerInv
<1>6. CASE Greet
  BY <1>6 DEF Greet, ServerInv
<1>7. CASE \/ Associate \/ JoinFails \/ LinkLost \/ TenSeconds \/ ReadStatus \/ CheckStatus
           \/ Rejoin \/ Mqtt \/ UNCHANGED vars
  <2>1. UNCHANGED netVars
    BY <1>7 DEF Associate, JoinFails, LinkLost, TenSeconds, ReadStatus, CheckStatus, Rejoin,
                Mqtt, vars
  <2>2. QED
    BY <2>1, ServerUnchanged
<1>8. QED
  BY <1>1, <1>2, <1>3, <1>4, <1>5, <1>6, <1>7 DEF Next

\* And which servers there are.
LEMMA NextServerOK == ServerOK /\ [Next]_vars => ServerOK'
<1> SUFFICES ASSUME ServerOK, [Next]_vars PROVE ServerOK'
  OBVIOUS
<1>1. CASE \/ Configure \/ Join \/ JoinReturns \/ Associate \/ JoinFails \/ LinkLost
           \/ TenSeconds \/ ReadStatus \/ CheckStatus \/ Rejoin \/ Mqtt \/ Greet
           \/ UNCHANGED vars
  <2>1. server' = server
    BY <1>1 DEF Configure, Join, JoinReturns, Associate, JoinFails, LinkLost, TenSeconds,
                ReadStatus, CheckStatus, Rejoin, Mqtt, Greet, vars, netVars
  <2>2. QED
    BY <2>1 DEF ServerOK
<1>2. CASE StartServices \/ Leased \/ Renewed
  BY <1>2 DEF StartServices, Leased, Renewed, DhcpServer, ServerOK
<1>3. QED
  BY <1>1, <1>2 DEF Next

\* Every step preserves the first invariant.
LEMMA NextConn == ConnInv /\ [Next]_vars => ConnInv'
BY MqttConn, NetConn DEF Next

\* Main program and callbacks never work on two attempts at once: none is scheduled while
\* a connection exists or one is under way.
THEOREM OneAttemptAtATime == Spec => []OneAttempt
<1>1. ConnInv => OneAttempt
  BY DEF ConnInv, OneAttempt
<1>2. QED
  BY <1>1, InitInv, NextConn, PTL DEF Spec

\* Syslog goes to the server of the configuration, if there is one, whatever DHCP sends and
\* whenever the link comes up; otherwise it is known to have been missed.
THEOREM SyslogIsOpened == Spec => []SyslogOpens
<1>1. ServerInv => SyslogOpens
  BY DEF ServerInv, SyslogOpens
<1>2. QED
  BY <1>1, InitInv, NextServer, NextServerOK, PTL DEF Spec

-------------------------------------------------------------------------------
(***************************************************************************)
(* Reports: the memory pages are made in.                                 *)
(***************************************************************************)

Part == Fields \X Nat
Pages == [buf : Requests \cup {Null}, of : Requests \cup {Null}, left : Seq(Part)]

\* What the variables of the pages are.
ReportsTypeOK ==
  /\ transfer \in Nat /\ copying \in 0..(FieldCount - 1) /\ system \in [Fields -> Nat]
  /\ page \in Pages
  /\ request \in [Requests -> {"new", "open", "done", "aborted"}]
  /\ response \in [Requests -> Seq(Part)]
  /\ fitted \in [Requests -> 0..FieldCount]

\* The page that is made is of the parts that fit.
LEMMA NewPageType ==
  ASSUME ReportsTypeOK, NEW r \in Requests, NEW n \in Fitting
  PROVE  /\ NewPage(r, n) \in Pages /\ Len(NewPage(r, n).left) = n
         /\ \A f \in 1..n : NewPage(r, n).left[f] = <<f, system[f]>>
<1>1. FieldCount \in Nat /\ n \in 1..FieldCount
  BY ReportAssumption
<1> DEFINE left == [f \in 1..n |-> <<f, system[f]>>]
<1>2. left \in [1..n -> Part]
  BY <1>1 DEF ReportsTypeOK, Part, Fields
<1>3. left \in Seq(Part) /\ Len(left) = n
  BY <1>1, <1>2
<1>4. QED
  BY <1>3 DEF NewPage, Pages

\* Handing out a part keeps the types.
LEMMA HandOutType ==
  ASSUME ReportsTypeOK, NEW r \in Requests, NEW pg \in Pages, NEW allocated,
         HandOut(r, pg, allocated), UNCHANGED stateVars,
         fitted' \in [Requests -> 0..FieldCount]
  PROVE  ReportsTypeOK'
<1>1. pg.left \in Seq(Part)
  BY DEF Pages
<1>2. page' \in Pages
  <2>1. NoPage \in Pages
    BY DEF NoPage, Pages
  <2>2. CASE pg.left # <<>>
    <3>1. Tail(pg.left) \in Seq(Part)
      BY <1>1, <2>2
    <3>2. [pg EXCEPT !.left = Tail(pg.left)] \in Pages
      BY <3>1 DEF Pages
    <3>3. QED
      BY <2>1, <2>2, <3>2 DEF HandOut
  <2>3. QED
    BY <2>1, <2>2 DEF HandOut
<1>3. request' \in [Requests -> {"new", "open", "done", "aborted"}]
  BY DEF HandOut, ReportsTypeOK
<1>4. response' \in [Requests -> Seq(Part)]
  <2>1. response[r] \in Seq(Part)
    BY DEF ReportsTypeOK
  <2>2. pg.left # <<>> => Append(response[r], Head(pg.left)) \in Seq(Part)
    BY <1>1, <2>1
  <2>3. QED
    BY <2>1, <2>2 DEF HandOut, ReportsTypeOK
<1>5. QED
  BY <1>2, <1>3, <1>4 DEF ReportsTypeOK, stateVars

\* Every step keeps them.
LEMMA NextReportsType == ReportsTypeOK /\ [ReportsNext]_reportVars => ReportsTypeOK'
<1> SUFFICES ASSUME ReportsTypeOK, [ReportsNext]_reportVars PROVE ReportsTypeOK'
  OBVIOUS
<1>1. ASSUME NEW r \in Requests, Start(r) PROVE ReportsTypeOK'
  <2>1. ASSUME NEW n \in Fitting, HandOut(r, NewPage(r, n), heap \cup {r}),
               fitted' = [fitted EXCEPT ![r] = n]
        PROVE  ReportsTypeOK'
    <3>1. n \in 0..FieldCount
      BY ReportAssumption
    <3>2. fitted' \in [Requests -> 0..FieldCount]
      BY <2>1, <3>1 DEF ReportsTypeOK
    <3>3. QED
      BY <1>1, <2>1, <3>2, HandOutType, NewPageType DEF Start
  <2>2. CASE /\ page' = [page EXCEPT !.buf = Null]
             /\ request' = [request EXCEPT ![r] = "done"] /\ UNCHANGED <<response, fitted>>
    BY <1>1, <2>2 DEF Start, ReportsTypeOK, Pages, stateVars
  <2>3. QED
    BY <1>1, <2>1, <2>2 DEF Start
<1>2. ASSUME NEW r \in Requests, Continue(r) PROVE ReportsTypeOK'
  <2>1. /\ page \in Pages /\ HandOut(r, page, heap) /\ UNCHANGED stateVars
        /\ fitted' \in [Requests -> 0..FieldCount]
    BY <1>2 DEF Continue, ReportsTypeOK
  <2>2. QED
    BY <2>1, HandOutType
<1>3. ASSUME NEW r \in Requests, Abort(r) PROVE ReportsTypeOK'
  BY <1>3 DEF Abort, ReportsTypeOK, stateVars
<1>4. CASE CopyPart
  <2>1. /\ FieldCount \in Nat \ {0} /\ copying \in 0..(FieldCount - 1)
        /\ copying + 1 \in Fields
    BY ReportAssumption DEF ReportsTypeOK, Fields
  <2>2. copying' \in 0..(FieldCount - 1)
    BY <1>4, <2>1 DEF CopyPart
  <2>3. QED
    BY <1>4, <2>1, <2>2 DEF CopyPart, ReportsTypeOK, pageVars
<1>5. CASE Send
  BY <1>5 DEF Send, ReportsTypeOK, pageVars
<1>6. CASE (\E k \in Kinds : SetMask(k)) \/ Publish \/ UNCHANGED reportVars
  <2>1. UNCHANGED <<stateVars, pageVars>>
    BY <1>6 DEF SetMask, Publish, reportVars
  <2>2. QED
    BY <2>1 DEF ReportsTypeOK, stateVars, pageVars
<1>7. QED
  BY <1>1, <1>2, <1>3, <1>4, <1>5, <1>6 DEF ReportsNext

\* They hold in the beginning.
LEMMA InitReportsType == ReportsInit => ReportsTypeOK
<1>1. FieldCount \in Nat \ {0}
  BY ReportAssumption
<1>2. NoPage \in Pages
  BY DEF NoPage, Pages
<1>3. <<>> \in Seq(Part)
  OBVIOUS
<1>4. QED
  BY <1>1, <1>2, <1>3 DEF ReportsInit, ReportsTypeOK

\* Whatever is left of a page is handed out of the buffer it was made in: a later page
\* replaces what is left along with the buffer, and a page that cannot be made neither.
LEMMA NextPage ==
  ReportsTypeOK /\ PageMemory /\ [ReportsNext]_reportVars => PageMemory'
<1> SUFFICES ASSUME ReportsTypeOK, PageMemory, [ReportsNext]_reportVars PROVE PageMemory'
  OBVIOUS
<1>1. ASSUME NEW r, NEW pg \in Pages, NEW allocated, HandOut(r, pg, allocated),
             pg.of \in allocated
      PROVE  PageMemory'
  BY <1>1 DEF HandOut, PageMemory, NoPage, Pages
<1>2. ASSUME NEW r \in Requests, Start(r) PROVE PageMemory'
  <2>1. ASSUME NEW n \in Fitting, HandOut(r, NewPage(r, n), heap \cup {r})
        PROVE  PageMemory'
    <3>1. NewPage(r, n).of = r
      BY DEF NewPage
    <3>2. QED
      BY <1>1, <2>1, <3>1, NewPageType
  <2>2. CASE page' = [page EXCEPT !.buf = Null] /\ UNCHANGED heap
    BY <2>2 DEF PageMemory, ReportsTypeOK, Pages
  <2>3. QED
    BY <1>2, <2>1, <2>2 DEF Start
<1>3. ASSUME NEW r \in Requests, Continue(r) PROVE PageMemory'
  <2>1. CASE page.left # <<>>
    BY <1>1, <1>3, <2>1 DEF Continue, PageMemory, ReportsTypeOK
  <2>2. CASE page.left = <<>>
    BY <1>3, <2>2 DEF Continue, HandOut, PageMemory, NoPage
  <2>3. QED
    BY <2>1, <2>2
<1>4. ASSUME UNCHANGED <<heap, page>> PROVE PageMemory'
  BY <1>4 DEF PageMemory
<1>5. QED
  BY <1>2, <1>3, <1>4 DEF ReportsNext, Send, CopyPart, Abort, SetMask, Publish, reportVars,
                          pageVars

\* No page is ever handed out of memory that has been freed.
THEOREM PagesInMemory == ReportsSpec => []PageMemory
<1>1. ReportsInit => PageMemory
  BY DEF ReportsInit, PageMemory, NoPage
<1>2. QED
  BY <1>1, InitReportsType, NextReportsType, NextPage, PTL DEF ReportsSpec

-------------------------------------------------------------------------------
(***************************************************************************)
(* Reports: what is in a page.                                            *)
(***************************************************************************)

\* The parts that have been copied are from one state, the others from the one before.
StateInv ==
  \E old \in Nat : \A f \in Fields : system[f] = IF f <= copying THEN transfer ELSE old

\* What was sent and what is left are a page, of the rounds a and b.
FromRounds(sent, left, a, b) ==
  /\ \A i \in 1..Len(sent) : sent[i] = <<i, a>> \/ sent[i] = <<i, b>>
  /\ \A i \in 1..Len(left) :
       left[i] = <<Len(sent) + i, a>> \/ left[i] = <<Len(sent) + i, b>>

Whole(n, sent, left) ==
  /\ Len(sent) + Len(left) = n
  /\ \E a, b \in Nat : FromRounds(sent, left, a, b)

\* A request that no other came in between is the only one that is open, and what is left
\* of the page is the rest of its response.
ResponseInv ==
  \A r \in Requests \ disturbed :
    /\ request[r] = "new" => response[r] = <<>>
    /\ request[r] = "open" => /\ Open = {r} /\ page.left # <<>>
                              /\ Whole(fitted[r], response[r], page.left)
    /\ request[r] = "done" => response[r] = <<>> \/ Whole(fitted[r], response[r], <<>>)

\* One part after the other.
LEMMA HandOver ==
  ASSUME NEW sent \in Seq(Part), NEW left \in Seq(Part), left # <<>>,
         NEW n, Whole(n, sent, left)
  PROVE  Whole(n, Append(sent, Head(left)), Tail(left))
<1> DEFINE more == Append(sent, Head(left))
           rest == Tail(left)
<1>1. PICK a \in Nat, b \in Nat : FromRounds(sent, left, a, b)
  BY DEF Whole
<1>2. /\ Len(more) = Len(sent) + 1 /\ Len(rest) = Len(left) - 1 /\ Len(left) \in Nat \ {0}
      /\ Len(sent) \in Nat
      /\ \A i \in 1..Len(sent) : more[i] = sent[i]
      /\ more[Len(sent) + 1] = left[1]
      /\ \A i \in 1..(Len(left) - 1) : rest[i] = left[i + 1]
  OBVIOUS
<1> HIDE DEF more, rest
<1>3. left[1] = <<Len(sent) + 1, a>> \/ left[1] = <<Len(sent) + 1, b>>
  <2>1. 1 \in 1..Len(left)
    BY <1>2
  <2>2. QED
    BY <1>1, <2>1 DEF FromRounds
<1>4. ASSUME NEW i \in 1..Len(more) PROVE more[i] = <<i, a>> \/ more[i] = <<i, b>>
  <2>1. CASE i = Len(sent) + 1
    BY <1>2, <1>3, <2>1
  <2>2. CASE i # Len(sent) + 1
    <3>1. i \in 1..Len(sent)
      BY <1>2, <2>2
    <3>2. QED
      BY <1>1, <1>2, <3>1 DEF FromRounds
  <2>3. QED
    BY <2>1, <2>2
<1>5. ASSUME NEW i \in 1..Len(rest)
      PROVE  rest[i] = <<Len(more) + i, a>> \/ rest[i] = <<Len(more) + i, b>>
  <2>1. i + 1 \in 1..Len(left) /\ Len(sent) + (i + 1) = Len(more) + i
    BY <1>2
  <2>2. \/ left[i + 1] = <<Len(sent) + (i + 1), a>>
        \/ left[i + 1] = <<Len(sent) + (i + 1), b>>
    BY <1>1, <2>1 DEF FromRounds
  <2>3. rest[i] = left[i + 1]
    BY <1>2
  <2>4. QED
    BY <2>1, <2>2, <2>3
<1>6. Len(more) + Len(rest) = n
  BY <1>2 DEF Whole
<1>7. FromRounds(more, rest, a, b)
  BY <1>4, <1>5 DEF FromRounds
<1>8. QED
  BY <1>6, <1>7 DEF Whole, more, rest

\* A page is of the state there is, also in the middle of the copy.
LEMMA NewPageWhole ==
  ASSUME ReportsTypeOK, StateInv, NEW r \in Requests, NEW n \in Fitting
  PROVE  Whole(n, <<>>, NewPage(r, n).left)
<1> DEFINE left == NewPage(r, n).left
<1>1. PICK old \in Nat : \A f \in Fields : system[f] = IF f <= copying THEN transfer ELSE old
  BY DEF StateInv
<1>2. Len(left) = n /\ \A f \in 1..n : left[f] = <<f, system[f]>>
  BY NewPageType
<1>3. FieldCount \in Nat /\ n \in 1..FieldCount
  BY ReportAssumption
<1> HIDE DEF left
<1>4. ASSUME NEW i \in 1..Len(left)
      PROVE  left[i] = <<0 + i, transfer>> \/ left[i] = <<0 + i, old>>
  <2>1. i \in 1..n /\ i \in Fields /\ 0 + i = i
    BY <1>2, <1>3 DEF Fields
  <2>2. left[i] = <<i, system[i]>> /\ (system[i] = transfer \/ system[i] = old)
    BY <1>1, <1>2, <2>1
  <2>3. QED
    BY <2>1, <2>2
<1>5. FromRounds(<<>>, left, transfer, old)
  BY <1>4 DEF FromRounds
<1>6. transfer \in Nat
  BY DEF ReportsTypeOK
<1>7. Len(<<>>) + Len(left) = n
  BY <1>2, <1>3
<1>8. QED
  BY <1>1, <1>5, <1>6, <1>7 DEF Whole, left

\* The copy.
LEMMA NextState ==
  ReportsTypeOK /\ StateInv /\ [ReportsNext]_reportVars => StateInv'
<1> SUFFICES ASSUME ReportsTypeOK, StateInv, [ReportsNext]_reportVars PROVE StateInv'
  OBVIOUS
<1>1. PICK old \in Nat : \A f \in Fields : system[f] = IF f <= copying THEN transfer ELSE old
  BY DEF StateInv
<1>2. FieldCount \in Nat \ {0} /\ copying \in 0..(FieldCount - 1) /\ transfer \in Nat
  BY ReportAssumption DEF ReportsTypeOK
<1>3. CASE Send
  BY <1>1, <1>2, <1>3 DEF Send, StateInv, Fields
<1>4. CASE CopyPart
  <2>1. \A f \in Fields : system'[f] = IF f <= copying + 1 THEN transfer ELSE old
    BY <1>1, <1>2, <1>4 DEF CopyPart, Fields, ReportsTypeOK
  <2>2. CASE copying + 1 < FieldCount
    <3>1. copying' = copying + 1
      BY <1>2, <1>4, <2>2 DEF CopyPart
    <3>2. QED
      BY <1>1, <1>4, <2>1, <3>1 DEF CopyPart, StateInv
  <2>3. CASE copying + 1 = FieldCount
    <3>1. \A f \in Fields : system'[f] = transfer
      BY <1>2, <2>1, <2>3 DEF Fields
    <3>2. QED
      BY <1>2, <1>4, <3>1 DEF CopyPart, StateInv
  <2>4. QED
    BY <1>2, <2>2, <2>3
<1>5. CASE UNCHANGED stateVars
  BY <1>5 DEF StateInv, stateVars
<1>6. QED
  BY <1>3, <1>4, <1>5 DEF ReportsNext, Start, Continue, Abort, SetMask, Publish, reportVars

\* A part is handed out to a request that nothing has disturbed.
LEMMA HandOutWhole ==
  ASSUME ReportsTypeOK, NEW r \in Requests, NEW pg \in Pages, NEW allocated,
         HandOut(r, pg, allocated), pg.left # <<>>,
         NEW n, Whole(n, response[r], pg.left)
  PROVE  /\ request'[r] = "open" => page'.left # <<>> /\ Whole(n, response'[r], page'.left)
         /\ request'[r] = "done" => Whole(n, response'[r], <<>>)
         /\ request'[r] \in {"open", "done"}
<1>1. response[r] \in Seq(Part) /\ pg.left \in Seq(Part)
  BY DEF ReportsTypeOK, Pages
<1>2. Whole(n, Append(response[r], Head(pg.left)), Tail(pg.left))
  BY <1>1, HandOver
<1>3. response'[r] = Append(response[r], Head(pg.left))
  BY DEF HandOut, ReportsTypeOK
<1>4. CASE Tail(pg.left) # <<>>
  <2>1. request'[r] = "open" /\ page' = [pg EXCEPT !.left = Tail(pg.left)]
    BY <1>4 DEF HandOut, ReportsTypeOK
  <2>2. page'.left = Tail(pg.left)
    BY <2>1 DEF Pages
  <2>3. QED
    BY <1>2, <1>3, <1>4, <2>1, <2>2
<1>5. CASE Tail(pg.left) = <<>>
  <2>1. request'[r] = "done"
    BY <1>5 DEF HandOut, ReportsTypeOK
  <2>2. QED
    BY <1>2, <1>3, <1>5, <2>1
<1>6. QED
  BY <1>4, <1>5

\* A step that leaves every request but one as it was keeps what is said of the others,
\* unless it begins a page: then none of them is open any more.
LEMMA OtherRequests ==
  ASSUME ResponseInv, NEW r \in Requests, NEW q \in Requests \ disturbed, q # r,
         request'[q] = request[q], response'[q] = response[q], fitted'[q] = fitted[q],
         request[q] # "open"
  PROVE  /\ request'[q] = "new" => response'[q] = <<>>
         /\ request'[q] = "open" => /\ Open' = {q} /\ page'.left # <<>>
                                    /\ Whole(fitted'[q], response'[q], page'.left)
         /\ request'[q] = "done" => \/ response'[q] = <<>>
                                \/ Whole(fitted'[q], response'[q], <<>>)
BY DEF ResponseInv

\* Every call of csv_stats() preserves the invariant.
LEMMA StartResponse ==
  ASSUME ReportsTypeOK, StateInv, ResponseInv, NEW r \in Requests, Start(r)
  PROVE  ResponseInv'
<1> DEFINE Kept(q) ==
      /\ request'[q] = "new" => response'[q] = <<>>
      /\ request'[q] = "open" => /\ Open' = {q} /\ page'.left # <<>>
                                 /\ Whole(fitted'[q], response'[q], page'.left)
      /\ request'[q] = "done" => \/ response'[q] = <<>>
                                \/ Whole(fitted'[q], response'[q], <<>>)
<1>1. request[r] = "new" /\ (r \notin disturbed => response[r] = <<>>)
  BY DEF Start, ResponseInv
<1>2. ASSUME NEW n \in Fitting, HandOut(r, NewPage(r, n), heap \cup {r}),
             fitted' = [fitted EXCEPT ![r] = n],
             disturbed' = disturbed \cup Open \cup (IF Open # {} THEN {r} ELSE {}),
             NEW q \in Requests \ disturbed'
      PROVE  Kept(q)
  <2>1. /\ request' = [request EXCEPT ![r] = request'[r]]
        /\ response' = [response EXCEPT ![r] = response'[r]]
    BY <1>2 DEF HandOut, ReportsTypeOK
  <2>2. CASE q = r
    <3>1. Open = {} /\ response[r] = <<>>
      BY <1>1, <1>2, <2>2
    <3>2. NewPage(r, n) \in Pages /\ Len(NewPage(r, n).left) = n
      BY NewPageType
    <3>3. NewPage(r, n).left # <<>>
      BY <3>2, ReportAssumption
    <3>4. Whole(n, response[r], NewPage(r, n).left)
      BY <3>1, NewPageWhole
    <3>5. /\ request'[r] = "open" => page'.left # <<>> /\ Whole(n, response'[r], page'.left)
          /\ request'[r] = "done" => Whole(n, response'[r], <<>>)
          /\ request'[r] \in {"open", "done"}
      BY <1>2, <3>2, <3>3, <3>4, HandOutWhole
    <3>6. request'[r] = "open" => Open' = {r}
      BY <2>1, <3>1 DEF Open, ReportsTypeOK
    <3>7. fitted'[r] = n
      BY <1>2 DEF ReportsTypeOK
    <3>8. QED
      BY <2>2, <3>5, <3>6, <3>7
  <2>3. CASE q # r
    <3>1. q \in Requests \ disturbed /\ request[q] # "open"
      BY <1>2 DEF Open
    <3>2. request'[q] = request[q] /\ response'[q] = response[q] /\ fitted'[q] = fitted[q]
      BY <1>2, <2>1, <2>3 DEF ReportsTypeOK
    <3>3. QED
      BY <2>3, <3>1, <3>2, OtherRequests
  <2>4. QED
    BY <2>2, <2>3
<1>3. ASSUME page' = [page EXCEPT !.buf = Null], request' = [request EXCEPT ![r] = "done"],
             UNCHANGED <<response, disturbed, fitted>>, NEW q \in Requests \ disturbed'
      PROVE  Kept(q)
  <2>1. page'.left = page.left
    BY <1>3 DEF ReportsTypeOK, Pages
  <2>2. CASE q = r
    BY <1>1, <1>3, <2>2 DEF ReportsTypeOK
  <2>3. CASE q # r
    <3>1. request'[q] = request[q] /\ Open' = Open
      BY <1>1, <1>3, <2>3 DEF Open, ReportsTypeOK
    <3>2. QED
      BY <1>3, <2>1, <3>1 DEF ResponseInv
  <2>4. QED
    BY <2>2, <2>3
<1>4. \A q \in Requests \ disturbed' : Kept(q)
  BY <1>2, <1>3 DEF Start
<1>5. QED
  BY <1>4 DEF ResponseInv

LEMMA ContinueResponse ==
  ASSUME ReportsTypeOK, ResponseInv, NEW r \in Requests, Continue(r)
  PROVE  ResponseInv'
<1> DEFINE Kept(q) ==
      /\ request'[q] = "new" => response'[q] = <<>>
      /\ request'[q] = "open" => /\ Open' = {q} /\ page'.left # <<>>
                                 /\ Whole(fitted'[q], response'[q], page'.left)
      /\ request'[q] = "done" => \/ response'[q] = <<>>
                                \/ Whole(fitted'[q], response'[q], <<>>)
<1>1. /\ request[r] = "open" /\ HandOut(r, page, heap) /\ UNCHANGED <<disturbed, fitted>>
      /\ request' = [request EXCEPT ![r] = request'[r]]
      /\ response' = [response EXCEPT ![r] = response'[r]]
  BY DEF Continue, HandOut, ReportsTypeOK
<1>2. ASSUME NEW q \in Requests \ disturbed PROVE Kept(q)
  <2>1. CASE q = r
    <3>1. Open = {r} /\ page.left # <<>> /\ Whole(fitted[r], response[r], page.left)
      BY <1>1, <1>2, <2>1 DEF ResponseInv
    <3>2. page \in Pages
      BY DEF ReportsTypeOK
    <3>3. /\ request'[r] = "open" => /\ page'.left # <<>>
                                      /\ Whole(fitted[r], response'[r], page'.left)
          /\ request'[r] = "done" => Whole(fitted[r], response'[r], <<>>)
          /\ request'[r] \in {"open", "done"}
      BY <1>1, <3>1, <3>2, HandOutWhole
    <3>4. request'[r] = "open" => Open' = {r}
      BY <1>1, <3>1 DEF Open, ReportsTypeOK
    <3>5. QED
      BY <1>1, <2>1, <3>3, <3>4
  <2>2. CASE q # r
    <3>1. request[q] # "open"
      BY <1>1, <1>2, <2>2 DEF ResponseInv, Open
    <3>2. request'[q] = request[q] /\ response'[q] = response[q] /\ fitted'[q] = fitted[q]
      BY <1>1, <2>2 DEF ReportsTypeOK
    <3>3. QED
      BY <1>2, <2>2, <3>1, <3>2, OtherRequests
  <2>3. QED
    BY <2>1, <2>2
<1>3. QED
  BY <1>1, <1>2 DEF ResponseInv

LEMMA AbortResponse ==
  ASSUME ReportsTypeOK, ResponseInv, NEW r \in Requests, Abort(r)
  PROVE  ResponseInv'
<1>1. /\ request[r] = "open" /\ request' = [request EXCEPT ![r] = "aborted"]
      /\ UNCHANGED <<page, response, disturbed, fitted>>
  BY DEF Abort
<1>2. ASSUME NEW q \in Requests \ disturbed, request'[q] = "open" PROVE q = r
  BY <1>1, <1>2 DEF ResponseInv, Open, ReportsTypeOK
<1>3. request'[r] = "aborted" /\ \A q \in Requests \ {r} : request'[q] = request[q]
  BY <1>1 DEF ReportsTypeOK
<1>4. QED
  BY <1>1, <1>2, <1>3 DEF ResponseInv

\* And so does every other step.
LEMMA NextResponse ==
  ReportsTypeOK /\ StateInv /\ ResponseInv /\ [ReportsNext]_reportVars => ResponseInv'
<1> SUFFICES ASSUME ReportsTypeOK, StateInv, ResponseInv, [ReportsNext]_reportVars
             PROVE  ResponseInv'
  OBVIOUS
<1>1. CASE UNCHANGED pageVars
  BY <1>1 DEF ResponseInv, Open, pageVars
<1>2. QED
  BY <1>1, StartResponse, ContinueResponse, AbortResponse
     DEF ReportsNext, Send, CopyPart, SetMask, Publish, reportVars

LEMMA TwoValues ==
  ASSUME NEW a, NEW b
  PROVE  IsFiniteSet({a, b}) /\ Cardinality({a, b}) <= 2
<1>1. IsFiniteSet({a}) /\ Cardinality({a}) = 1 /\ {a, b} = {a} \cup {b}
  BY FS_Singleton
<1>2. /\ IsFiniteSet({a} \cup {b})
      /\ \/ Cardinality({a} \cup {b}) = Cardinality({a})
         \/ Cardinality({a} \cup {b}) = Cardinality({a}) + 1
  BY <1>1, FS_AddElement, Zenon
<1>3. QED
  BY <1>1, <1>2

\* A page that was handed out is what it is meant to be: the parts that fitted, in order,
\* from at most two rounds.
LEMMA WholeShown ==
  ASSUME NEW sent \in Seq(Part), NEW n \in Nat, Whole(n, sent, <<>>)
  PROVE  /\ [i \in DOMAIN sent |-> sent[i][1]] = [f \in 1..n |-> f]
         /\ Cardinality({part[2] : part \in ToSet(sent)}) <= 2
<1>1. PICK a \in Nat, b \in Nat : FromRounds(sent, <<>>, a, b)
  BY DEF Whole
<1>2. Len(sent) = n /\ DOMAIN sent = 1..n
  BY DEF Whole
<1>3. \A i \in 1..n : sent[i] = <<i, a>> \/ sent[i] = <<i, b>>
  BY <1>1, <1>2 DEF FromRounds
<1>4. {part[2] : part \in ToSet(sent)} \subseteq {a, b}
  BY <1>2, <1>3 DEF ToSet
<1>5. IsFiniteSet({a, b}) /\ Cardinality({a, b}) <= 2
  BY TwoValues
<1>6. /\ Cardinality({part[2] : part \in ToSet(sent)}) <= Cardinality({a, b})
      /\ IsFiniteSet({part[2] : part \in ToSet(sent)})
  BY <1>4, <1>5, FS_Subset
<1>7. Cardinality({part[2] : part \in ToSet(sent)}) <= 2
  BY <1>5, <1>6, FS_CardinalityType
<1>8. [i \in DOMAIN sent |-> sent[i][1]] = [f \in 1..n |-> f]
  BY <1>2, <1>3
<1>9. QED
  BY <1>7, <1>8

\* The response to a request no other came in between is all of the page that fitted in its
\* buffer, in its order, from at most two states, however the calls for several requests, aborted ones and ones without
\* memory overlap, with each other and with the copy.
THEOREM PagesAreWhole == ReportsSpec => []WholePage
<1>1. ReportsInit => StateInv /\ ResponseInv
  <2>1. ReportsInit => StateInv
    BY DEF ReportsInit, StateInv
  <2>2. QED
    BY <2>1 DEF ReportsInit, ResponseInv
<1>2. ReportsTypeOK /\ ResponseInv => WholePage
  <2> SUFFICES ASSUME ReportsTypeOK, ResponseInv, NEW r \in Requests \ disturbed,
                      request[r] = "done", response[r] # <<>>
               PROVE  /\ [i \in DOMAIN response[r] |-> response[r][i][1]]
                           = [f \in 1..fitted[r] |-> f]
                      /\ Cardinality({part[2] : part \in ToSet(response[r])}) <= 2
    BY DEF WholePage
  <2>1. response[r] \in Seq(Part) /\ fitted[r] \in Nat
    BY ReportAssumption DEF ReportsTypeOK
  <2>2. Whole(fitted[r], response[r], <<>>)
    BY DEF ResponseInv
  <2>3. QED
    BY <2>1, <2>2, WholeShown
<1>3. QED
  BY <1>1, <1>2, InitReportsType, NextReportsType, NextState, NextResponse, PTL
     DEF ReportsSpec

-------------------------------------------------------------------------------
(***************************************************************************)
(* Reports: the names in messages.                                        *)
(***************************************************************************)

\* Every mask that is set has been announced, or is excused; and so has what was sent.
MaskInv ==
  /\ masks \subseteq Kinds /\ excused \subseteq Kinds
  /\ \A k \in masks : StateName[k] \in announced \/ k \in excused
  /\ StateAnnounced

\* A kind is announced under the name messages give it.
LEMMA SameName == ASSUME NEW k \in Kinds PROVE DiscoveryName[k] = StateName[k]
BY ReportAssumption DEF DiscoveryName, StateName

\* Discovery excuses nothing that it does not have to.
LEMMA DiscoveryAnnounces ==
  ASSUME MaskInv, Discovery, UNCHANGED masks
  PROVE  /\ excused' \subseteq Kinds /\ announced \subseteq announced'
         /\ \A k \in masks : StateName[k] \in announced' \/ k \in excused'
         /\ \A k \in excused : StateName[k] \in announced' \/ k \in excused'
<1>1. PICK sent \in SUBSET masks :
        /\ announced' = announced \cup {DiscoveryName[k] : k \in sent}
        /\ excused' = (excused \ sent) \cup (masks \ sent)
  BY DEF Discovery
<1>2. \A k \in sent : StateName[k] \in announced'
  BY <1>1, SameName DEF MaskInv
<1>3. QED
  BY <1>1, <1>2 DEF MaskInv

\* Every step preserves the invariant.
LEMMA NextMask == MaskInv /\ [ReportsNext]_reportVars => MaskInv'
<1> SUFFICES ASSUME MaskInv, [ReportsNext]_reportVars PROVE MaskInv'
  OBVIOUS
<1>1. ASSUME NEW k \in Kinds, SetMask(k) PROVE MaskInv'
  BY <1>1 DEF SetMask, MaskInv, StateAnnounced
<1>2. ASSUME Publish PROVE MaskInv'
  <2>1. /\ excused' \subseteq Kinds /\ announced \subseteq announced' /\ masks' = masks
        /\ \A k \in masks : StateName[k] \in announced' \/ k \in excused'
        /\ \A k \in excused : StateName[k] \in announced' \/ k \in excused'
    BY <1>2, DiscoveryAnnounces DEF Publish, MaskInv
  <2>2. message' = message \/ message' = {StateName[k] : k \in masks}
    BY <1>2 DEF Publish, StateKeys
  <2>3. StateAnnounced'
    BY <2>1, <2>2 DEF MaskInv, StateAnnounced
  <2>4. QED
    BY <2>1, <2>3 DEF MaskInv
<1>3. ASSUME UNCHANGED messageVars PROVE MaskInv'
  BY <1>3 DEF MaskInv, StateAnnounced, messageVars
<1>4. QED
  BY <1>1, <1>2, <1>3 DEF ReportsNext, Send, CopyPart, Start, Continue, Abort, reportVars

\* Every value that Home Assistant is sent was announced to it under the same name, or its
\* mask was set since, or its discovery message was not sent.
THEOREM MessagesAnnounced == ReportsSpec => []StateAnnounced
<1>1. ReportsInit => MaskInv
  BY DEF ReportsInit, MaskInv, StateAnnounced
<1>2. MaskInv => StateAnnounced
  BY DEF MaskInv
<1>3. QED
  BY <1>1, <1>2, NextMask, PTL DEF ReportsSpec

===============================================================================
