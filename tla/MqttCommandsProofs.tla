-------------------------- MODULE MqttCommandsProofs --------------------------
(***************************************************************************)
(* Proofs about MqttCommands, for any number of messages, pieces of them  *)
(* and lines, and whatever the commands do; and about the way a line of   *)
(* any length finds its functions.                                        *)
(***************************************************************************)
EXTENDS MqttCommands, DataProofs, TLAPS

\* Where the main program is, and whether the buffer is taken.
BufferInv ==
  /\ pc # "idle" => queued
  /\ pc \in {"run", "answer", "empty"} => running = buffer

\* What has run is what was accepted, but for the command that is in the buffer.
Pending == queued /\ pc \in {"idle", "run"}
OrderInv ==
  /\ IF Pending
     THEN Len(accepted) = Len(ran) + 1 /\ buffer = accepted[Len(accepted)]
     ELSE Len(accepted) = Len(ran)
  /\ \A k \in 1..Len(ran) : ran[k][1] = accepted[k]

\* What has been answered is what has run, but for the command that is to be answered.
AnswerInv ==
  ToSet(ran) = IF pc = "answer" THEN ToSet(answers) \cup {<<buffer, system.error>>}
               ELSE ToSet(answers)

\* A piece is of a message that came before, or of this one and came before the pieces
\* still to come.
Past(p) == p[1] < sent \/ (p[1] = sent /\ p[3] > parts)
PieceInv ==
  /\ msg[1] = sent /\ (parts > 0 => sent > 0)
  /\ \A p \in refused \cup ToSet(accepted) : Past(p)
  /\ refused \cap ToSet(accepted) = {}

IInv == TypeOK /\ (\E S : ran \in Seq(S)) /\ (\E S : answers \in Seq(S))
        /\ BufferInv /\ OrderInv /\ AnswerInv /\ PieceInv

-------------------------------------------------------------------------------
\* What appending an element does to a sequence.
LEMMA Appended ==
  ASSUME NEW S, NEW s \in Seq(S), NEW e
  PROVE  /\ \E T : Append(s, e) \in Seq(T)
         /\ Len(Append(s, e)) = Len(s) + 1 /\ Append(s, e)[Len(s) + 1] = e
         /\ \A k \in 1..Len(s) : Append(s, e)[k] = s[k]
         /\ ToSet(Append(s, e)) = ToSet(s) \cup {e}
<1> DEFINE T == S \cup {e}
<1>1. s \in Seq(T) /\ e \in T
  <2>1. s \in [1..Len(s) -> S] /\ Len(s) \in Nat
    OBVIOUS
  <2>2. s \in [1..Len(s) -> T]
    BY <2>1
  <2>3. QED
    BY <2>1, <2>2
<1>2. /\ Append(s, e) \in Seq(T) /\ Len(Append(s, e)) = Len(s) + 1
      /\ Append(s, e)[Len(s) + 1] = e /\ \A k \in 1..Len(s) : Append(s, e)[k] = s[k]
  BY <1>1
<1>3. ToSet(Append(s, e)) = ToSet(s) \cup {e}
  <2>1. DOMAIN Append(s, e) = 1..Len(s)+1 /\ DOMAIN s = 1..Len(s) /\ Len(s) \in Nat
    BY <1>1, <1>2
  <2>2. 1..Len(s)+1 = (1..Len(s)) \cup {Len(s) + 1}
    BY <2>1
  <2>3. QED
    BY <1>2, <2>1, <2>2 DEF ToSet
<1>4. QED
  BY <1>2, <1>3

\* What was accepted or refused are pieces.
LEMMA KnownPieces ==
  ASSUME IInv
  PROVE  refused \cup ToSet(accepted) \subseteq Pieces
<1>1. refused \subseteq Pieces /\ accepted \in Seq(Pieces)
  BY DEF IInv, TypeOK
<1>2. ToSet(accepted) \subseteq Pieces
  BY <1>1 DEF ToSet
<1>3. QED
  BY <1>1, <1>2

\* The initial states satisfy the inductive invariant.
LEMMA InitInv == Init => IInv
<1> SUFFICES ASSUME Init PROVE IInv
  OBVIOUS
<1>1. /\ incoming = 0 /\ msg = <<0, "">> /\ parts = 0 /\ sent = 0 /\ buffer = None /\ running = None
      /\ queued = FALSE /\ pc = "idle" /\ accepted = <<>> /\ refused = {} /\ ran = <<>>
      /\ answers = <<>>
  BY DEF Init
<1>2. TypeOK
  <2>1. 0 \in 0..MaxParts /\ 0 \in 0..MaxMsgs
    BY BoundsAssumption
  <2>2. accepted \in Seq(Pieces)
    <3>1. accepted = <<>>
      BY <1>1
    <3>2. QED
      BY <3>1
  <2>3. refused \subseteq Pieces /\ queued \in BOOLEAN
    BY <1>1
  <2>4. msg \in {<<0, "">>} /\ buffer \in {None} /\ running \in {None}
    BY <1>1
  <2>5. incoming \in 0..2 /\ parts \in 0..MaxParts /\ sent \in 0..MaxMsgs
    <3>1. incoming = 0 /\ parts = 0 /\ sent = 0
      BY <1>1
    <3>2. QED
      BY <2>1, <3>1
  <2>6. pc \in {"idle", "run", "answer", "empty", "release"}
    BY <1>1
  <2>7. QED
    BY <2>2, <2>3, <2>4, <2>5, <2>6 DEF TypeOK
<1>3. (\E S : ran \in Seq(S)) /\ (\E S : answers \in Seq(S))
  <2>1. <<>> \in Seq(Nat)
    OBVIOUS
  <2>2. QED
    BY <1>1, <2>1
<1>4. BufferInv /\ OrderInv
  <2>1. pc = "idle" /\ ~queued /\ accepted = <<>> /\ ran = <<>>
    BY <1>1
  <2>2. QED
    BY <2>1 DEF BufferInv, OrderInv, Pending
<1>5. AnswerInv
  BY <1>1 DEF AnswerInv
<1>6. PieceInv
  <2>1. accepted = <<>> /\ refused = {} /\ parts = 0 /\ sent = 0
    BY <1>1
  <2>2. ToSet(accepted) = {}
    BY <2>1 DEF ToSet
  <2>3. msg[1] = 0
    BY <1>1
  <2>4. QED
    BY <2>1, <2>2, <2>3 DEF PieceInv
<1>7. QED
  BY <1>2, <1>3, <1>4, <1>5, <1>6 DEF IInv

\* A line from the console leaves the queue and what has been answered alone.
LEMMA ConsoleInv == ASSUME IInv, NEW line \in Lines, Console(line) PROVE IInv'
<1>1. pc = "idle"
  BY DEF Console
<1>2. UNCHANGED <<incoming, msg, parts, sent, buffer, queued, pc, running, accepted, ran, answers,
                  refused>>
  BY DEF Console, receive, main, history
<1>3. TypeOK' /\ BufferInv' /\ PieceInv' /\ OrderInv'
  BY <1>2 DEF IInv, TypeOK, BufferInv, PieceInv, Past, OrderInv, Pending
<1>4. AnswerInv'
  BY <1>1, <1>2 DEF IInv, AnswerInv
<1>5. QED
  BY <1>2, <1>3, <1>4 DEF IInv

\* A message begins, after all pieces of the one before.
LEMMA PublishInv ==
  ASSUME IInv, NEW t \in AllTopics, NEW n \in 1..MaxParts, Publish(t, n)
  PROVE  IInv'
<1>1. UNCHANGED <<system, buffer, queued, pc, running, accepted, ran, answers, refused>>
  BY DEF Publish, engine, main, history
<1>2. parts = 0 /\ sent < MaxMsgs /\ sent' = sent + 1 /\ msg' = <<sent', t>> /\ parts' = n
  BY DEF Publish
<1>3. sent \in Nat /\ sent' \in 1..MaxMsgs /\ sent' \in 0..MaxMsgs /\ n \in 0..MaxParts
      /\ n \in Nat /\ n > 0
  <2>1. sent \in 0..MaxMsgs
    BY DEF IInv, TypeOK
  <2>2. QED
    BY <1>2, <2>1, BoundsAssumption
<1>4. incoming' \in 0..2
  <2>1. incoming' \in {0, 1, 2, incoming}
    BY Zenon DEF Publish
  <2>2. incoming \in 0..2
    BY DEF IInv, TypeOK
  <2>3. QED
    BY <2>1, <2>2
<1>5. TypeOK'
  BY <1>1, <1>2, <1>3, <1>4 DEF IInv, TypeOK
<1>6. BufferInv' /\ OrderInv' /\ AnswerInv'
  BY <1>1 DEF IInv, BufferInv, OrderInv, Pending, AnswerInv
<1>7. PieceInv'
  <2>1. ASSUME NEW p \in refused \cup ToSet(accepted) PROVE Past(p)'
    <3>1. Past(p)
      BY DEF IInv, PieceInv
    <3>2. p[1] \in Nat
      <4>1. p \in Pieces
        BY KnownPieces
      <4>2. QED
        BY <4>1 DEF Pieces
    <3>3. QED
      BY <1>2, <1>3, <3>1, <3>2 DEF Past
  <2>2. msg'[1] = sent'
    BY <1>2
  <2>3. QED
    BY <1>1, <1>2, <1>3, <2>1, <2>2 DEF IInv, PieceInv
<1>8. QED
  BY <1>1, <1>5, <1>6, <1>7 DEF IInv

\* The next piece, and what becomes of the earlier ones when it has come.
LEMMA NextPiece ==
  ASSUME IInv, NEW c \in Commands, parts > 0
  PROVE  /\ Piece(c) \in Pieces /\ Piece(c)[1] = sent /\ Piece(c)[3] = parts
         /\ ~Past(Piece(c)) /\ parts \in Nat /\ parts - 1 \in 0..MaxParts /\ sent \in Nat
<1>1. msg[1] = sent /\ sent > 0
  BY DEF IInv, PieceInv
<1>2. parts \in Nat /\ parts \in 1..MaxParts /\ parts - 1 \in 0..MaxParts /\ sent \in Nat
  <2>1. parts \in 0..MaxParts /\ sent \in 0..MaxMsgs
    BY DEF IInv, TypeOK
  <2>2. QED
    BY <2>1, BoundsAssumption
<1>3. msg \in (1..MaxMsgs) \X AllTopics
  <2>1. <<0, "">>[1] = 0
    OBVIOUS
  <2>2. msg[1] # 0
    BY <1>1, <1>2
  <2>3. msg # <<0, "">>
    BY <2>1, <2>2
  <2>4. msg \in ((1..MaxMsgs) \X AllTopics) \cup {<<0, "">>}
    BY DEF IInv, TypeOK
  <2>5. QED
    BY <2>3, <2>4
<1>4. Piece(c) \in Pieces /\ Piece(c)[1] = sent /\ Piece(c)[3] = parts
  BY <1>1, <1>2, <1>3 DEF Piece, Pieces
<1>5. ~Past(Piece(c))
  BY <1>2, <1>4 DEF Past
<1>6. QED
  BY <1>2, <1>4, <1>5

\* A piece that has come before has still come before when another one has come.
LEMMA LaterPast ==
  ASSUME IInv, sent \in Nat, parts \in Nat, sent' = sent, parts' = parts - 1,
         NEW p \in refused \cup ToSet(accepted)
  PROVE  Past(p)'
<1>1. p \in Pieces /\ Past(p)
  BY KnownPieces DEF IInv, PieceInv
<1>2. p[3] \in Nat
  BY <1>1 DEF Pieces
<1>3. QED
  BY <1>1, <1>2 DEF Past

\* A piece that is dropped.
LEMMA OtherInv == ASSUME IInv, Other PROVE IInv'
<1>1. UNCHANGED <<system, incoming, msg, sent, buffer, queued, pc, running, accepted, ran, answers,
                  refused>>
  BY DEF Other, engine, main, history
<1>2. parts > 0 /\ parts' = parts - 1
  BY DEF Other
<1>3. parts \in Nat /\ sent \in Nat /\ parts' \in 0..MaxParts
  <2>1. parts \in 0..MaxParts /\ sent \in 0..MaxMsgs
    BY DEF IInv, TypeOK
  <2>2. QED
    BY <1>2, <2>1, BoundsAssumption
<1>4. TypeOK'
  BY <1>1, <1>3 DEF IInv, TypeOK
<1>5. BufferInv' /\ OrderInv' /\ AnswerInv'
  BY <1>1 DEF IInv, BufferInv, OrderInv, Pending, AnswerInv
<1>6. PieceInv'
  <2>1. ASSUME NEW p \in refused \cup ToSet(accepted) PROVE Past(p)'
    BY <1>1, <1>2, <1>3, <2>1, LaterPast
  <2>2. QED
    BY <1>1, <1>2, <1>3, <2>1 DEF IInv, PieceInv
<1>7. QED
  BY <1>1, <1>4, <1>5, <1>6 DEF IInv

\* A command that is refused: its piece has not come before.
LEMMA RefuseInv == ASSUME IInv, NEW c \in Commands, Refuse(c) PROVE IInv'
<1>1. UNCHANGED <<system, incoming, msg, sent, buffer, queued, pc, running, accepted, ran, answers>>
  BY DEF Refuse, engine, main
<1>2. parts > 0 /\ parts' = parts - 1 /\ refused' = refused \cup {Piece(c)}
  BY DEF Refuse
<1>3. /\ Piece(c) \in Pieces /\ ~Past(Piece(c)) /\ Piece(c)[1] = sent /\ Piece(c)[3] = parts
      /\ parts \in Nat /\ sent \in Nat /\ parts' \in 0..MaxParts
  BY <1>2, NextPiece
<1>4. TypeOK'
  BY <1>1, <1>2, <1>3 DEF IInv, TypeOK
<1>5. BufferInv' /\ OrderInv' /\ AnswerInv'
  BY <1>1 DEF IInv, BufferInv, OrderInv, Pending, AnswerInv
<1>6. PieceInv'
  <2>1. ASSUME NEW p \in refused \cup ToSet(accepted) PROVE Past(p)'
    BY <1>1, <1>2, <1>3, <2>1, LaterPast
  <2>2. ASSUME NEW p, p = Piece(c) PROVE Past(p)'
    BY <1>1, <1>2, <1>3, <2>2 DEF Past
  <2>3. \A p \in refused' \cup ToSet(accepted') : Past(p)'
    BY <1>1, <1>2, <2>1, <2>2
  <2>4. Piece(c) \notin ToSet(accepted)
    BY <1>3 DEF IInv, PieceInv
  <2>5. refused' \cap ToSet(accepted') = {}
    BY <1>1, <1>2, <2>4 DEF IInv, PieceInv
  <2>6. msg'[1] = sent' /\ sent' > 0
    BY <1>1, <1>2 DEF IInv, PieceInv
  <2>7. QED
    BY <2>3, <2>5, <2>6 DEF PieceInv
<1>7. QED
  BY <1>1, <1>4, <1>5, <1>6 DEF IInv

\* A command that is accepted: the buffer was empty, and nothing was waiting to run.
LEMMA AcceptInv == ASSUME IInv, NEW c \in Commands, Accept(c) PROVE IInv'
<1>1. UNCHANGED <<system, incoming, msg, sent, pc, running, ran, answers, refused>>
  BY DEF Accept, engine, main
<1>2. parts > 0 /\ parts' = parts - 1
  BY DEF Accept
<1>3. ~queued /\ queued' = TRUE /\ buffer' = Piece(c) /\ accepted' = Append(accepted, Piece(c))
  BY DEF Accept
<1>4. /\ Piece(c) \in Pieces /\ ~Past(Piece(c)) /\ Piece(c)[1] = sent /\ Piece(c)[3] = parts
      /\ parts \in Nat /\ sent \in Nat /\ parts' \in 0..MaxParts
  BY <1>2, NextPiece
<1>5. accepted \in Seq(Pieces)
  BY DEF IInv, TypeOK
<1>6. /\ Len(accepted') = Len(accepted) + 1 /\ accepted'[Len(accepted) + 1] = Piece(c)
      /\ \A k \in 1..Len(accepted) : accepted'[k] = accepted[k]
      /\ ToSet(accepted') = ToSet(accepted) \cup {Piece(c)}
  BY <1>3, <1>5, Appended
<1>7. pc = "idle" /\ ~Pending
  BY <1>3 DEF IInv, TypeOK, BufferInv, Pending
<1>8. TypeOK'
  <2>1. accepted' \in Seq(Pieces)
    BY <1>3, <1>4, <1>5
  <2>2. queued' \in BOOLEAN /\ buffer' \in Pieces \cup {None}
    BY <1>3, <1>4
  <2>3. QED
    BY <1>1, <1>4, <2>1, <2>2 DEF IInv, TypeOK
<1>9. BufferInv' /\ AnswerInv'
  BY <1>1, <1>3, <1>7 DEF IInv, BufferInv, AnswerInv
<1>10. OrderInv'
  <2>1. Len(accepted) = Len(ran) /\ \A k \in 1..Len(ran) : ran[k][1] = accepted[k]
    BY <1>7 DEF IInv, OrderInv
  <2>2. \A k \in 1..Len(ran) : ran'[k][1] = accepted'[k]
    BY <1>1, <1>6, <2>1
  <2>3. Len(accepted') = Len(ran') + 1 /\ buffer' = accepted'[Len(accepted')]
    BY <1>1, <1>3, <1>6, <2>1
  <2>4. QED
    BY <1>1, <2>2, <2>3, <1>3, <1>7 DEF OrderInv, Pending
<1>11. PieceInv'
  <2>1. ASSUME NEW p \in refused \cup ToSet(accepted) PROVE Past(p)'
    BY <1>1, <1>2, <1>4, <2>1, LaterPast
  <2>2. ASSUME NEW p, p = Piece(c) PROVE Past(p)'
    BY <1>1, <1>2, <1>4, <2>2 DEF Past
  <2>3. \A p \in refused' \cup ToSet(accepted') : Past(p)'
    BY <1>1, <1>6, <2>1, <2>2
  <2>4. Piece(c) \notin refused
    BY <1>4 DEF IInv, PieceInv
  <2>5. refused' \cap ToSet(accepted') = {}
    BY <1>1, <1>6, <2>4 DEF IInv, PieceInv
  <2>6. msg'[1] = sent' /\ sent' > 0
    BY <1>1, <1>2 DEF IInv, PieceInv
  <2>7. QED
    BY <2>3, <2>5, <2>6 DEF PieceInv
<1>12. QED
  BY <1>1, <1>8, <1>9, <1>10, <1>11 DEF IInv

\* The main program leaves alone what has been received.
LEMMA Received ==
  ASSUME IInv, UNCHANGED <<receive, accepted, refused>>
  PROVE  PieceInv' /\ incoming' = incoming /\ msg' = msg /\ parts' = parts /\ sent' = sent
BY DEF IInv, PieceInv, Past, receive

\* The command in the buffer is copied.
LEMMA StartInv == ASSUME IInv, Start PROVE IInv'
<1>1. /\ pc = "idle" /\ queued /\ pc' = "run" /\ running' = buffer
      /\ UNCHANGED <<system, receive, buffer, queued, accepted, ran, answers, refused>>
  BY DEF Start, engine, history
<1>2. TypeOK' /\ PieceInv'
  BY <1>1, Received DEF IInv, TypeOK
<1>3. BufferInv' /\ AnswerInv'
  BY <1>1 DEF IInv, BufferInv, AnswerInv
<1>4. OrderInv'
  BY <1>1 DEF IInv, OrderInv, Pending
<1>5. QED
  BY <1>1, <1>2, <1>3, <1>4 DEF IInv

\* The command runs: it is the one that was accepted last.
LEMMA RunInv == ASSUME IInv, Run PROVE IInv'
<1>1. /\ pc = "run" /\ pc' = "answer"
      /\ UNCHANGED <<receive, buffer, queued, running, accepted, answers, refused>>
  BY DEF Run
<1>2. ran' = Append(ran, <<running, system'.error>>)
  BY DEF Run
<1>3. running = buffer /\ queued /\ Pending
  BY <1>1 DEF IInv, BufferInv, Pending
<1>4. PICK S : ran \in Seq(S)
  BY DEF IInv
<1>5. /\ \E T : ran' \in Seq(T)
      /\ Len(ran') = Len(ran) + 1 /\ ran'[Len(ran) + 1] = <<running, system'.error>>
      /\ \A k \in 1..Len(ran) : ran'[k] = ran[k]
      /\ ToSet(ran') = ToSet(ran) \cup {<<running, system'.error>>} /\ Len(ran) \in Nat
  <2> DEFINE e == <<running, system'.error>>
  <2>1. ran' = Append(ran, e)
    BY <1>2
  <2> HIDE DEF e
  <2>2. /\ \E T : ran' \in Seq(T)
        /\ Len(ran') = Len(ran) + 1 /\ ran'[Len(ran) + 1] = e
        /\ ToSet(ran') = ToSet(ran) \cup {e}
        /\ \A k \in 1..Len(ran) : ran'[k] = ran[k]
    BY <1>4, <2>1, Appended
  <2>3. Len(ran) \in Nat
    BY <1>4
  <2>4. QED
    BY <2>2, <2>3 DEF e
<1>6. TypeOK' /\ PieceInv'
  BY <1>1, Received DEF IInv, TypeOK
<1>7. BufferInv'
  BY <1>1 DEF IInv, BufferInv
<1>8. AnswerInv'
  <2>1. ToSet(ran) = ToSet(answers)
    BY <1>1 DEF IInv, AnswerInv
  <2>2. QED
    BY <1>1, <1>3, <1>5, <2>1 DEF AnswerInv
<1>9. OrderInv'
  <2>1. /\ Len(accepted) = Len(ran) + 1 /\ buffer = accepted[Len(accepted)]
        /\ \A k \in 1..Len(ran) : ran[k][1] = accepted[k]
    BY <1>3 DEF IInv, OrderInv
  <2>2. ran'[Len(ran) + 1][1] = accepted[Len(ran) + 1]
    BY <1>3, <1>5, <2>1
  <2>3. \A k \in 1..Len(ran) + 1 : ran'[k][1] = accepted[k]
    <3>1. 1..Len(ran) + 1 = (1..Len(ran)) \cup {Len(ran) + 1}
      BY <1>5
    <3>2. QED
      BY <1>5, <2>1, <2>2, <3>1
  <2>4. ~Pending'
    BY <1>1 DEF Pending
  <2>5. QED
    BY <1>1, <1>5, <2>1, <2>3, <2>4 DEF OrderInv
<1>10. QED
  BY <1>1, <1>5, <1>6, <1>7, <1>8, <1>9 DEF IInv

\* The result goes out: of the command that ran last, with its own text.
LEMMA AnswerStepInv == ASSUME IInv, Answer PROVE IInv'
<1>1. /\ pc = "answer" /\ pc' = "empty"
      /\ UNCHANGED <<system, receive, buffer, queued, running, accepted, ran, refused>>
  BY DEF Answer, engine
<1>2. answers' = Append(answers, <<buffer, system.error>>)
  BY DEF Answer
<1>3. PICK S : answers \in Seq(S)
  BY DEF IInv
<1>4. /\ \E T : answers' \in Seq(T)
      /\ ToSet(answers') = ToSet(answers) \cup {<<buffer, system.error>>}
  <2> DEFINE e == <<buffer, system.error>>
  <2>1. answers' = Append(answers, e)
    BY <1>2
  <2> HIDE DEF e
  <2>2. (\E T : answers' \in Seq(T)) /\ ToSet(answers') = ToSet(answers) \cup {e}
    BY <1>3, <2>1, Appended
  <2>3. QED
    BY <2>2 DEF e
<1>5. TypeOK' /\ PieceInv'
  BY <1>1, Received DEF IInv, TypeOK
<1>6. BufferInv' /\ OrderInv'
  BY <1>1 DEF IInv, BufferInv, OrderInv, Pending
<1>7. AnswerInv'
  BY <1>1, <1>4 DEF IInv, AnswerInv
<1>8. QED
  BY <1>1, <1>4, <1>5, <1>6, <1>7 DEF IInv

\* The buffer is emptied, and then released.
LEMMA ReleaseInv == ASSUME IInv, Empty \/ Release PROVE IInv'
<1>1. UNCHANGED <<system, receive, running, accepted, ran, answers, refused>>
  BY DEF Empty, Release, engine, history
<1>2. \/ pc = "empty" /\ pc' = "release" /\ queued' = queued /\ buffer' = None
      \/ pc = "release" /\ pc' = "idle" /\ queued' = FALSE /\ buffer' = buffer
  BY DEF Empty, Release
<1>3. buffer' \in Pieces \cup {None} /\ queued' \in BOOLEAN
      /\ pc' \in {"idle", "run", "answer", "empty", "release"}
  BY <1>2 DEF IInv, TypeOK
<1>4. TypeOK' /\ PieceInv'
  BY <1>1, <1>3, Received DEF IInv, TypeOK
<1>5. BufferInv' /\ AnswerInv'
  BY <1>1, <1>2 DEF IInv, BufferInv, AnswerInv
<1>6. OrderInv'
  <2>1. ~Pending /\ ~Pending'
    BY <1>2 DEF Pending
  <2>2. QED
    BY <1>1, <2>1 DEF IInv, OrderInv
<1>7. QED
  BY <1>1, <1>4, <1>5, <1>6 DEF IInv

\* Every step preserves the inductive invariant.
LEMMA NextInv == IInv /\ [Next]_vars => IInv'
<1>1. ASSUME IInv, UNCHANGED vars PROVE IInv'
  <2>1. UNCHANGED <<system, incoming, msg, parts, sent, buffer, queued, pc, running, accepted, ran,
                    answers, refused>>
    BY <1>1 DEF vars
  <2>2. TypeOK' /\ PieceInv'
    BY <1>1, <2>1 DEF IInv, TypeOK, PieceInv, Past
  <2>3. BufferInv' /\ OrderInv' /\ AnswerInv'
    BY <1>1, <2>1 DEF IInv, BufferInv, OrderInv, Pending, AnswerInv
  <2>4. QED
    BY <1>1, <2>1, <2>2, <2>3 DEF IInv
<1>2. QED
  BY <1>1, ConsoleInv, PublishInv, OtherInv, RefuseInv, AcceptInv, StartInv, RunInv, AnswerStepInv,
     ReleaseInv DEF Next, Receive, Main

\* The inductive invariant: what was accepted is what has run, but for the command in the
\* buffer, which neither the interrupt nor the console changes before it has been answered.
THEOREM Invariance == Spec => []IInv
<1>1. QED
  BY InitInv, NextInv, PTL DEF Spec

\* Type correctness of MqttCommands.
THEOREM TypeCorrect == Spec => []TypeOK
<1>1. IInv => TypeOK
  BY DEF IInv
<1>2. QED
  BY <1>1, Invariance, PTL

\* Commands run in the order they were accepted, each once, none that was refused.
THEOREM RunInOrder == Spec => []RunsAsAccepted
<1>1. IInv => RunsAsAccepted
  <2> SUFFICES ASSUME IInv PROVE RunsAsAccepted
    OBVIOUS
  <2>2. PICK S : ran \in Seq(S)
    BY DEF IInv
  <2>3. Len(ran) \in Nat
    BY <2>2
  <2>4. Len(accepted) = Len(ran) + 1 \/ Len(accepted) = Len(ran)
    BY DEF IInv, OrderInv
  <2>5. Len(ran) <= Len(accepted) /\ Len(accepted) <= Len(ran) + 1
    BY <2>3, <2>4
  <2>6. QED
    BY <2>5 DEF IInv, OrderInv, PieceInv, RunsAsAccepted
<1>2. QED
  BY <1>1, Invariance, PTL

\* A command is answered once, with its own text and the status it ended with itself.
THEOREM AnsweredAsRun == Spec => []AnswersMatch
<1>1. IInv => AnswersMatch
  BY DEF IInv, AnswerInv, AnswersMatch
<1>2. QED
  BY <1>1, Invariance, PTL

-------------------------------------------------------------------------------
(***************************************************************************)
(* How a line finds its functions: induction over the words of a command, *)
(* and over the commands of a line.                                       *)
(***************************************************************************)

\* A call acts on an item its own words name.
Owns(c) == c.item # 0 => \E w \in ToSet(c.path) : w[2] = c.item

OwnCalls(calls) == (\E S : calls \in Seq(S)) /\ \A c \in ToSet(calls) : Owns(c)

\* A place on the way through the words of a path.
At(at, level, stack, calls, going, done) ==
  at = [level |-> level, stack |-> stack, calls |-> calls, going |-> going, done |-> done]

\* The stack holds words of this path only.
IsPlace(at, path, done) ==
  \E level, stack, calls, going :
    /\ At(at, level, stack, calls, going, done)
    /\ stack \in Seq(ToSet(path)) /\ OwnCalls(calls)

\* Changes of a place, one field each; the values that are entered are arbitrary.
LEMMA PlaceFields ==
  ASSUME NEW at, NEW level, NEW stack, NEW calls, NEW going, NEW done,
         At(at, level, stack, calls, going, done)
  PROVE  /\ at.level = level /\ at.stack = stack /\ at.calls = calls /\ at.going = going
         /\ at.done = done
         /\ \A x : At([at EXCEPT !.level = x], x, stack, calls, going, done)
         /\ \A x : At([at EXCEPT !.stack = x], level, x, calls, going, done)
         /\ \A x : At([at EXCEPT !.calls = x], level, stack, x, going, done)
         /\ \A x : At([at EXCEPT !.going = x], level, stack, calls, x, done)
         /\ \A x : At([at EXCEPT !.done = x], level, stack, calls, going, x)
<1>1. at = [level |-> level, stack |-> stack, calls |-> calls, going |-> going, done |-> done]
  BY DEF At
<1>2. /\ at.level = level /\ at.stack = stack /\ at.calls = calls /\ at.going = going
      /\ at.done = done
  BY <1>1
<1>3. \A x : At([at EXCEPT !.level = x], x, stack, calls, going, done)
  BY <1>1 DEF At
<1>4. \A x : At([at EXCEPT !.stack = x], level, x, calls, going, done)
  BY <1>1 DEF At
<1>5. \A x : At([at EXCEPT !.calls = x], level, stack, x, going, done)
  BY <1>1 DEF At
<1>6. \A x : At([at EXCEPT !.going = x], level, stack, calls, x, done)
  BY <1>1 DEF At
<1>7. \A x : At([at EXCEPT !.done = x], level, stack, calls, going, x)
  BY <1>1 DEF At
<1>8. QED
  BY <1>2, <1>3, <1>4, <1>5, <1>6, <1>7

\* The changes that the words of a path make.
LEMMA PlaceChanges ==
  ASSUME NEW at, NEW level, NEW stack, NEW calls, NEW going, NEW done, NEW e, NEW f,
         At(at, level, stack, calls, going, done)
  PROVE  /\ At([at EXCEPT !.going = FALSE], level, stack, calls, FALSE, done)
         /\ At([at EXCEPT !.level = e, !.stack = Append(@, f)],
               e, Append(stack, f), calls, going, done)
         /\ At([at EXCEPT !.calls = Append(@, e)],
               level, stack, Append(calls, e), going, done)
<1>1. at.stack = stack /\ at.calls = calls
  BY PlaceFields, Zenon
<1>2. At([at EXCEPT !.going = FALSE], level, stack, calls, FALSE, done)
  BY PlaceFields, Zenon
<1>3. At([at EXCEPT !.calls = Append(@, e)], level, stack, Append(calls, e), going, done)
  <2>1. \A x : At([at EXCEPT !.calls = x], level, stack, x, going, done)
    BY PlaceFields, Zenon
  <2>2. QED
    BY <1>1, <2>1, Zenon
<1>4. At([at EXCEPT !.level = e], e, stack, calls, going, done)
  BY PlaceFields, Zenon
<1>5. \A x : At([at EXCEPT !.level = e, !.stack = x], e, x, calls, going, done)
  BY <1>4, PlaceFields, Zenon
<1>6. At([at EXCEPT !.level = e, !.stack = Append(@, f)], e, Append(stack, f), calls, going, done)
  BY <1>1, <1>5, Zenon
<1>7. QED
  BY <1>2, <1>3, <1>6

\* The item of a call is none, or the number of a word.
LEMMA ItemOfPath ==
  ASSUME NEW path, NEW stack \in Seq(ToSet(path)), NEW word \in ToSet(path),
         NEW table, NEW entry
  PROVE  \/ Item(table, entry, stack, word) = 0
         \/ \E w \in ToSet(path) : w[2] = Item(table, entry, stack, word)
<1>1. stack # <<>> => Last(stack) \in ToSet(path)
  <2>1. SUFFICES ASSUME stack # <<>> PROVE stack[Len(stack)] \in ToSet(path)
    BY DEF Last
  <2>2. Len(stack) \in 1..Len(stack)
    BY <2>1
  <2>3. QED
    BY <2>2
<1>2. OuterNumber(stack) = 0 \/ \E w \in ToSet(path) : w[2] = OuterNumber(stack)
  BY <1>1 DEF OuterNumber
<1>3. ASSUME NEW name PROVE \E w \in ToSet(path) : w[2] = OwnOrOuter(stack, word, name)
  BY <1>1 DEF OwnOrOuter
<1>4. Item(table, entry, stack, word) \in
        {0, OuterNumber(stack), OwnOrOuter(stack, word, "FAN"),
         OwnOrOuter(stack, word, "VSENSOR")}
  BY DEF Item
<1>5. QED
  BY <1>2, <1>3, <1>4

\* One word leads from a place to a place.
LEMMA StepPlace ==
  ASSUME NEW cmd, NEW done, NEW at, IsPlace(at, cmd.path, done),
         NEW k, cmd.path[k] \in ToSet(cmd.path)
  PROVE  IsPlace(Step(at, cmd, k), cmd.path, done)
<1> DEFINE table == Tables[at.level]
           hits  == {i \in DOMAIN table : Matches(cmd.path[k][1], table[i])}
           entry == table[Min(hits)]
           more  == k < Len(cmd.path)
           call  == [path |-> cmd.path, table |-> at.level, entry |-> entry.name,
                     word |-> cmd.path[k][1], query |-> cmd.query /\ ~more, arg |-> cmd.arg,
                     item |-> Item(at.level, entry.name, at.stack, cmd.path[k])]
<1>1. Step(at, cmd, k) =
        IF ~at.going THEN at
        ELSE IF hits = {} THEN [at EXCEPT !.going = FALSE]
        ELSE IF entry.sub # "" /\ more
        THEN [at EXCEPT !.level = entry.sub, !.stack = Append(@, cmd.path[k])]
        ELSE IF ~entry.func THEN at
        ELSE [at EXCEPT !.calls = Append(@, call)]
  BY DEF Step
<1>2. Owns(call)
  <2>1. call.path = cmd.path /\ call.item = Item(at.level, entry.name, at.stack, cmd.path[k])
    OBVIOUS
  <2>2. at.stack \in Seq(ToSet(cmd.path))
    <3>1. PICK level, stack, calls, going :
            At(at, level, stack, calls, going, done) /\ stack \in Seq(ToSet(cmd.path))
      BY DEF IsPlace
    <3>2. at.stack = stack
      BY <3>1, PlaceFields, Zenon
    <3>3. QED
      BY <3>1, <3>2
  <2> HIDE DEF call, entry
  <2>3. QED
    BY <2>1, <2>2, ItemOfPath DEF Owns
<1> HIDE DEF table, hits, entry, more, call
<1>3. PICK level, stack, calls, going :
        /\ At(at, level, stack, calls, going, done)
        /\ stack \in Seq(ToSet(cmd.path)) /\ OwnCalls(calls)
  BY DEF IsPlace
<1>4. At([at EXCEPT !.going = FALSE], level, stack, calls, FALSE, done)
  BY <1>3, PlaceChanges, Zenon
<1>5. At([at EXCEPT !.level = entry.sub, !.stack = Append(@, cmd.path[k])],
         entry.sub, Append(stack, cmd.path[k]), calls, going, done)
  BY <1>3, PlaceChanges, Zenon
<1>6. At([at EXCEPT !.calls = Append(@, call)], level, stack, Append(calls, call), going, done)
  BY <1>3, PlaceChanges, Zenon
<1>7. Append(stack, cmd.path[k]) \in Seq(ToSet(cmd.path))
  BY <1>3
<1>8. OwnCalls(Append(calls, call))
  <2>1. PICK S : calls \in Seq(S)
    BY <1>3 DEF OwnCalls
  <2>2. /\ \E T : Append(calls, call) \in Seq(T)
        /\ ToSet(Append(calls, call)) = ToSet(calls) \cup {call}
    BY <2>1, Appended
  <2>3. QED
    BY <1>2, <1>3, <2>2 DEF OwnCalls
<1>9. IsPlace([at EXCEPT !.going = FALSE], cmd.path, done)
  BY <1>3, <1>4, Zenon DEF IsPlace
<1>10. IsPlace([at EXCEPT !.level = entry.sub, !.stack = Append(@, cmd.path[k])], cmd.path, done)
  BY <1>3, <1>5, <1>7, Zenon DEF IsPlace
<1>11. IsPlace([at EXCEPT !.calls = Append(@, call)], cmd.path, done)
  BY <1>3, <1>6, <1>8, Zenon DEF IsPlace
<1>12. QED
  BY <1>1, <1>9, <1>10, <1>11, Zenon

\* run_cmd(): the function that Walk() defines by recursion.
IsWalk(f, n, begun, cmd) ==
  f = [k \in 0..n |-> IF k = 0 THEN begun ELSE Step(f[k - 1], cmd, k)]

\* It exists, for any number of words.
LEMMA WalkExists ==
  ASSUME NEW N \in Nat, NEW begun, NEW cmd
  PROVE  \E f : IsWalk(f, N, begun, cmd)
<1> DEFINE T == {n \in 0..N : \E f : IsWalk(f, n, begun, cmd)}
<1>1. 0 \in T
  <2> DEFINE f == [k \in 0..0 |-> begun]
  <2>1. f = [k \in 0..0 |-> IF k = 0 THEN begun ELSE Step(f[k - 1], cmd, k)]
    OBVIOUS
  <2> HIDE DEF f
  <2>2. QED
    BY <2>1 DEF IsWalk
<1>2. ASSUME NEW n \in 0..N-1, n \in T PROVE n + 1 \in T
  <2>1. PICK f : f = [k \in 0..n |-> IF k = 0 THEN begun ELSE Step(f[k - 1], cmd, k)]
    BY <1>2 DEF IsWalk
  <2> DEFINE y == Step(f[n], cmd, n + 1)
             g == [k \in 0..n+1 |-> IF k = n + 1 THEN y ELSE f[k]]
             h == [k \in 0..n+1 |-> IF k = 0 THEN begun ELSE Step(g[k - 1], cmd, k)]
  <2>2. ASSUME NEW k \in 0..n+1 PROVE g[k] = h[k]
    <3>1. CASE k = n + 1
      <4>1. g[k - 1] = f[n] /\ k # 0
        BY <3>1
      <4>2. h[k] = Step(g[k - 1], cmd, k)
        BY <4>1
      <4>3. g[k] = y
        BY <3>1
      <4>4. QED
        BY <3>1, <4>1, <4>2, <4>3
    <3>2. CASE k = 0
      <4>1. g[0] = f[0] /\ f[0] = begun /\ h[0] = begun
        BY <2>1
      <4>2. QED
        BY <3>2, <4>1
    <3>3. CASE k \in 1..n
      <4>1. k - 1 \in 0..n /\ k - 1 # n + 1 /\ k # n + 1 /\ k # 0 /\ k \in 0..n
        BY <3>3
      <4>2. g[k - 1] = f[k - 1] /\ g[k] = f[k]
        BY <4>1
      <4>3. f[k] = Step(f[k - 1], cmd, k)
        BY <2>1, <4>1
      <4>4. h[k] = Step(g[k - 1], cmd, k)
        BY <4>1
      <4>5. QED
        BY <4>2, <4>3, <4>4
    <3>4. QED
      BY <3>1, <3>2, <3>3
  <2>3. g = h
    BY <2>2
  <2>4. IsWalk(g, n + 1, begun, cmd)
    <3>1. g = [k \in 0..n+1 |-> IF k = 0 THEN begun ELSE Step(g[k - 1], cmd, k)]
      BY <2>3
    <3> HIDE DEF g
    <3>2. QED
      BY <3>1 DEF IsWalk
  <2>5. QED
    BY <2>4
<1>3. 0..N \subseteq T
  <2> HIDE DEF T
  <2>1. QED
    BY <1>1, <1>2, BoundedInduction
<1>4. QED
  BY <1>3

\* Walk() steps from word to word, from where the command before it ended or the root.
LEMMA WalkUnfolds ==
  ASSUME NEW cmd, Len(cmd.path) \in Nat, NEW start, NEW level, NEW calls, NEW going, NEW done,
         At(start, level, <<>>, calls, going, done)
  PROVE  \E after :
           /\ At(after[0], IF cmd.root THEN "root" ELSE level, <<>>, <<>>, TRUE, done)
           /\ \A k \in 0..Len(cmd.path)-1 : after[k + 1] = Step(after[k], cmd, k + 1)
           /\ Walk(start, cmd) = after[Len(cmd.path)]
<1> DEFINE begun == [start EXCEPT !.level = IF cmd.root THEN "root" ELSE @,
                                  !.stack = IF cmd.root THEN <<>> ELSE @,
                                  !.calls = <<>>, !.going = TRUE]
           first == IF cmd.root THEN "root" ELSE start.level
           empty == IF cmd.root THEN <<>> ELSE start.stack
           n == Len(cmd.path)
<1>1. begun = [start EXCEPT !.level = first, !.stack = empty, !.calls = <<>>, !.going = TRUE]
  OBVIOUS
<1> HIDE DEF begun
<1>2. At(begun, first, <<>>, <<>>, TRUE, done)
  <2>1. At([start EXCEPT !.level = first], first, <<>>, calls, going, done)
    BY PlaceFields, Zenon
  <2>2. empty = <<>>
    <3>1. start.stack = <<>>
      BY PlaceFields, Zenon
    <3>2. QED
      BY <3>1
  <2> HIDE DEF first, empty
  <2>3. At([start EXCEPT !.level = first, !.stack = empty], first, empty, calls, going, done)
    BY <2>1, PlaceFields, Zenon
  <2>4. At([start EXCEPT !.level = first, !.stack = empty, !.calls = <<>>],
           first, empty, <<>>, going, done)
    BY <2>3, PlaceFields, Zenon
  <2>5. At([start EXCEPT !.level = first, !.stack = empty, !.calls = <<>>, !.going = TRUE],
           first, empty, <<>>, TRUE, done)
    BY <2>4, PlaceFields, Zenon
  <2>6. QED
    BY <1>1, <2>2, <2>5, Zenon
<1>3. first = IF cmd.root THEN "root" ELSE level
  <2>1. start.level = level
    BY PlaceFields, Zenon
  <2>2. QED
    BY <2>1
<1>4. PICK f : IsWalk(f, n, begun, cmd)
  <2> HIDE DEF n
  <2>1. n \in Nat
    BY DEF n
  <2>2. QED
    BY <2>1, WalkExists
<1> DEFINE after[k \in 0..Len(cmd.path)] ==
             IF k = 0 THEN begun ELSE Step(after[k - 1], cmd, k)
<1>5. after = [k \in 0..n |-> IF k = 0 THEN begun ELSE Step(after[k - 1], cmd, k)]
  BY <1>4 DEF IsWalk
<1>6. Walk(start, cmd) = after[n]
  BY DEF Walk, begun
<1> HIDE DEF after, first
<1>7. after[0] = begun
  BY <1>5
<1>8. ASSUME NEW k \in 0..n-1 PROVE after[k + 1] = Step(after[k], cmd, k + 1)
  <2>1. k + 1 \in 0..n /\ k + 1 # 0 /\ (k + 1) - 1 = k
    OBVIOUS
  <2>2. QED
    BY <1>5, <2>1
<1>9. QED
  BY <1>2, <1>3, <1>6, <1>7, <1>8

\* A command that starts with an empty stack ends in a place on its own path.
LEMMA WalkPlace ==
  ASSUME NEW cmd, cmd.path \in Seq(STRING \X Nat), NEW start, NEW done,
         NEW level, NEW calls, NEW going, At(start, level, <<>>, calls, going, done)
  PROVE  IsPlace(Walk(start, cmd), cmd.path, done)
<1> DEFINE n == Len(cmd.path)
<1>1. n \in Nat /\ \A k \in 1..n : cmd.path[k] \in ToSet(cmd.path)
  BY DEF ToSet
<1>2. PICK after :
        /\ At(after[0], IF cmd.root THEN "root" ELSE level, <<>>, <<>>, TRUE, done)
        /\ \A k \in 0..n-1 : after[k + 1] = Step(after[k], cmd, k + 1)
        /\ Walk(start, cmd) = after[n]
  BY <1>1, WalkUnfolds
<1> DEFINE T == {k \in 0..n : IsPlace(after[k], cmd.path, done)}
<1>3. 0 \in T
  <2>1. <<>> \in Seq(Nat) /\ <<>> \in Seq(ToSet(cmd.path)) /\ ToSet(<<>>) = {}
    BY DEF ToSet
  <2>2. OwnCalls(<<>>)
    BY <2>1 DEF OwnCalls
  <2>3. IsPlace(after[0], cmd.path, done)
    BY <1>2, <2>1, <2>2, Zenon DEF IsPlace
  <2>4. QED
    BY <1>1, <2>3
<1>4. ASSUME NEW k \in 0..n-1, k \in T PROVE k + 1 \in T
  <2>1. k + 1 \in 1..n /\ k + 1 \in 0..n
    BY <1>1
  <2>2. IsPlace(Step(after[k], cmd, k + 1), cmd.path, done)
    BY <1>1, <1>4, <2>1, StepPlace
  <2>3. QED
    BY <1>2, <2>1, <2>2
<1>5. n \in T
  <2> HIDE DEF T
  <2>1. 0..n \subseteq T
    <3> HIDE DEF n
    <3>1. QED
      BY <1>1, <1>3, <1>4, BoundedInduction
  <2>2. QED
    BY <1>1, <2>1
<1>6. QED
  BY <1>2, <1>5

\* What was done before is calls that own their items.
OwnDone(done) ==
  (\E S : done \in Seq(S)) /\ \A calls \in ToSet(done) : \A c \in ToSet(calls) : Owns(c)

\* process_command(): between two commands.
IsResolved(at) ==
  \E level, stack, calls, going, done :
    At(at, level, stack, calls, going, done) /\ OwnDone(done)

\* One command of a line.
NextCommand(before, cmd) ==
  LET at == Walk(NewStack(before), cmd) IN [at EXCEPT !.done = Append(@, at.calls)]

LEMMA CommandResolved ==
  ASSUME NEW before, IsResolved(before), NEW cmd, cmd.path \in Seq(STRING \X Nat)
  PROVE  IsResolved(NextCommand(before, cmd))
<1>1. PICK level, stack, calls, going, done :
        At(before, level, stack, calls, going, done) /\ OwnDone(done)
  BY DEF IsResolved
<1>2. At(NewStack(before), level, <<>>, calls, going, done)
  <2>1. At([before EXCEPT !.stack = <<>>], level, <<>>, calls, going, done)
    BY <1>1, PlaceFields, Zenon
  <2>2. QED
    BY <2>1 DEF NewStack
<1> DEFINE at == Walk(NewStack(before), cmd)
<1>3. IsPlace(at, cmd.path, done)
  BY <1>2, WalkPlace
<1>4. NextCommand(before, cmd) = [at EXCEPT !.done = Append(@, at.calls)]
  BY DEF NextCommand
<1> HIDE DEF at
<1>5. PICK level1, stack1, calls1, going1 :
        /\ At(at, level1, stack1, calls1, going1, done)
        /\ OwnCalls(calls1)
  BY <1>3 DEF IsPlace
<1>6. at.done = done /\ at.calls = calls1
  BY <1>5, PlaceFields, Zenon
<1>7. At([at EXCEPT !.done = Append(@, at.calls)], level1, stack1, calls1, going1,
         Append(done, calls1))
  <2>1. \A x : At([at EXCEPT !.done = x], level1, stack1, calls1, going1, x)
    BY <1>5, PlaceFields, Zenon
  <2>2. QED
    BY <1>6, <2>1, Zenon
<1>8. OwnDone(Append(done, calls1))
  <2>1. PICK S : done \in Seq(S)
    BY <1>1 DEF OwnDone
  <2>2. /\ \E T : Append(done, calls1) \in Seq(T)
        /\ ToSet(Append(done, calls1)) = ToSet(done) \cup {calls1}
    BY <2>1, Appended
  <2>3. QED
    BY <1>1, <1>5, <2>2 DEF OwnDone, OwnCalls
<1>9. QED
  BY <1>4, <1>7, <1>8, Zenon DEF IsResolved

\* The function that Resolve() defines by recursion, which exists as well.
Beginning == [level |-> "root", stack |-> <<>>, calls |-> <<>>, going |-> TRUE, done |-> <<>>]

IsResolution(f, n, line) ==
  f = [k \in 0..n |-> IF k = 0 THEN Beginning ELSE NextCommand(f[k - 1], line[k])]

LEMMA ResolutionExists ==
  ASSUME NEW N \in Nat, NEW line
  PROVE  \E f : IsResolution(f, N, line)
<1> DEFINE T == {n \in 0..N : \E f : IsResolution(f, n, line)}
<1>1. 0 \in T
  <2> DEFINE f == [k \in 0..0 |-> Beginning]
  <2>1. f = [k \in 0..0 |-> IF k = 0 THEN Beginning ELSE NextCommand(f[k - 1], line[k])]
    OBVIOUS
  <2> HIDE DEF f
  <2>2. QED
    BY <2>1 DEF IsResolution
<1>2. ASSUME NEW n \in 0..N-1, n \in T PROVE n + 1 \in T
  <2>1. PICK f : f = [k \in 0..n |-> IF k = 0 THEN Beginning
                                     ELSE NextCommand(f[k - 1], line[k])]
    BY <1>2 DEF IsResolution
  <2> DEFINE y == NextCommand(f[n], line[n + 1])
             g == [k \in 0..n+1 |-> IF k = n + 1 THEN y ELSE f[k]]
             h == [k \in 0..n+1 |-> IF k = 0 THEN Beginning ELSE NextCommand(g[k - 1], line[k])]
  <2>2. ASSUME NEW k \in 0..n+1 PROVE g[k] = h[k]
    <3>1. CASE k = n + 1
      <4>1. g[k - 1] = f[n] /\ k # 0
        BY <3>1
      <4>2. h[k] = NextCommand(g[k - 1], line[k])
        BY <4>1
      <4>3. g[k] = y
        BY <3>1
      <4>4. QED
        BY <3>1, <4>1, <4>2, <4>3
    <3>2. CASE k = 0
      <4>1. g[0] = f[0] /\ f[0] = Beginning /\ h[0] = Beginning
        BY <2>1
      <4>2. QED
        BY <3>2, <4>1
    <3>3. CASE k \in 1..n
      <4>1. k - 1 \in 0..n /\ k - 1 # n + 1 /\ k # n + 1 /\ k # 0 /\ k \in 0..n
        BY <3>3
      <4>2. g[k - 1] = f[k - 1] /\ g[k] = f[k]
        BY <4>1
      <4>3. f[k] = NextCommand(f[k - 1], line[k])
        BY <2>1, <4>1
      <4>4. h[k] = NextCommand(g[k - 1], line[k])
        BY <4>1
      <4>5. QED
        BY <4>2, <4>3, <4>4
    <3>4. QED
      BY <3>1, <3>2, <3>3
  <2>3. g = h
    BY <2>2
  <2>4. IsResolution(g, n + 1, line)
    <3>1. g = [k \in 0..n+1 |-> IF k = 0 THEN Beginning ELSE NextCommand(g[k - 1], line[k])]
      BY <2>3
    <3> HIDE DEF g
    <3>2. QED
      BY <3>1 DEF IsResolution
  <2>5. QED
    BY <2>4
<1>3. 0..N \subseteq T
  <2> HIDE DEF T
  <2>1. QED
    BY <1>1, <1>2, BoundedInduction
<1>4. QED
  BY <1>3

\* Resolve() goes from command to command.
LEMMA ResolveUnfolds ==
  ASSUME NEW line, Len(line) \in Nat
  PROVE  \E after :
           /\ after[0] = Beginning
           /\ \A k \in 0..Len(line)-1 : after[k + 1] = NextCommand(after[k], line[k + 1])
           /\ Resolve(line) = after[Len(line)].done
<1> DEFINE n == Len(line)
<1>1. PICK f : IsResolution(f, n, line)
  <2> HIDE DEF n
  <2>1. n \in Nat
    BY DEF n
  <2>2. QED
    BY <2>1, ResolutionExists
<1> DEFINE after[k \in 0..Len(line)] ==
             IF k = 0
             THEN [level |-> "root", stack |-> <<>>, calls |-> <<>>, going |-> TRUE, done |-> <<>>]
             ELSE LET at == Walk(NewStack(after[k - 1]), line[k])
                  IN [at EXCEPT !.done = Append(@, at.calls)]
<1>2. after = [k \in 0..n |-> IF k = 0 THEN Beginning ELSE NextCommand(after[k - 1], line[k])]
  BY <1>1 DEF IsResolution, Beginning, NextCommand
<1>3. Resolve(line) = after[n].done
  BY DEF Resolve
<1> HIDE DEF after
<1>4. after[0] = Beginning
  BY <1>2
<1>5. ASSUME NEW k \in 0..n-1 PROVE after[k + 1] = NextCommand(after[k], line[k + 1])
  <2>1. k + 1 \in 0..n /\ k + 1 # 0 /\ (k + 1) - 1 = k
    OBVIOUS
  <2>2. QED
    BY <1>2, <2>1
<1>6. QED
  BY <1>3, <1>4, <1>5

LEMMA BeginningPlace == At(Beginning, "root", <<>>, <<>>, TRUE, <<>>)
  BY DEF At, Beginning

\* In every line, of any number of commands of any words, every call acts on an item that
\* its own words name: no number is left over from a command before, or lost on the way.
THEOREM LinesOwnItems ==
  ASSUME NEW line, line \in Seq(ToSet(line)),
         \A cmd \in ToSet(line) : cmd.path \in Seq(STRING \X Nat)
  PROVE  \A calls \in ToSet(Resolve(line)) : \A c \in ToSet(calls) : Owns(c)
<1> DEFINE n == Len(line)
<1>1. n \in Nat /\ \A k \in 1..n : line[k] \in ToSet(line)
  BY DEF ToSet
<1>2. PICK after :
        /\ after[0] = Beginning
        /\ \A k \in 0..n-1 : after[k + 1] = NextCommand(after[k], line[k + 1])
        /\ Resolve(line) = after[n].done
  BY <1>1, ResolveUnfolds
<1> DEFINE T == {k \in 0..n : IsResolved(after[k])}
<1>3. 0 \in T
  <2>1. OwnDone(<<>>)
    <3>1. <<>> \in Seq(Nat) /\ ToSet(<<>>) = {}
      BY DEF ToSet
    <3>2. QED
      BY <3>1 DEF OwnDone
  <2>2. IsResolved(Beginning)
    BY <2>1, BeginningPlace, Zenon DEF IsResolved
  <2>3. QED
    BY <1>1, <1>2, <2>2
<1>4. ASSUME NEW k \in 0..n-1, k \in T PROVE k + 1 \in T
  <2>1. k + 1 \in 1..n /\ k + 1 \in 0..n
    BY <1>1
  <2>2. IsResolved(NextCommand(after[k], line[k + 1]))
    BY <1>1, <1>4, <2>1, CommandResolved
  <2>3. QED
    BY <1>2, <2>1, <2>2
<1>5. n \in T
  <2> HIDE DEF T
  <2>1. 0..n \subseteq T
    <3> HIDE DEF n
    <3>1. QED
      BY <1>1, <1>3, <1>4, BoundedInduction
  <2>2. QED
    BY <1>1, <2>1
<1>6. PICK level, stack, calls, going, done :
        At(after[n], level, stack, calls, going, done) /\ OwnDone(done)
  BY <1>5 DEF IsResolved
<1>7. after[n].done = done
  BY <1>6, PlaceFields, Zenon
<1>8. QED
  BY <1>2, <1>6, <1>7 DEF OwnDone

\* The command that runs was accepted.
LEMMA RunsAccepted ==
  ASSUME IInv, Run
  PROVE  running \in ToSet(accepted) /\ running[4] \in Commands
<1>1. buffer = accepted[Len(accepted)] /\ Len(accepted) = Len(ran) + 1 /\ running = buffer
  BY DEF Run, IInv, BufferInv, OrderInv, Pending
<1>2. PICK S : ran \in Seq(S)
  BY DEF IInv
<1>3. Len(accepted) \in 1..Len(accepted) /\ accepted \in Seq(Pieces)
  <2>1. Len(ran) \in Nat
    BY <1>2
  <2>2. accepted \in Seq(Pieces)
    BY DEF IInv, TypeOK
  <2>3. QED
    BY <1>1, <2>1, <2>2
<1>4. running \in ToSet(accepted) /\ running \in Pieces
  BY <1>1, <1>3 DEF ToSet
<1>5. QED
  BY <1>4 DEF Pieces

\* The line that ran last is one that was entered or a command that was accepted.
LastInv == last \in Lines \cup Commands \cup {""}

LEMMA NextLast == IInv /\ LastInv /\ [Next]_vars => LastInv'
<1> SUFFICES ASSUME IInv, LastInv, [Next]_vars PROVE LastInv'
  OBVIOUS
<1>1. CASE \E line \in Lines : Console(line)
  BY <1>1 DEF Console, LastInv
<1>2. CASE Run
  BY <1>2, RunsAccepted DEF Run, LastInv
<1>3. CASE UNCHANGED last
  BY <1>3 DEF LastInv
<1>4. QED
  BY <1>1, <1>2, <1>3
     DEF Next, Publish, Receive, Other, Accept, Refuse, Main, Start, Answer, Empty, Release,
         engine, vars

\* What CallsOf() chooses are the calls of what runs under the name.
LEMMA CallsResolved ==
  ASSUME NEW name \in Lines \cup Commands PROVE CallsOf(name) = Resolve(Requested(name))
<1>1. <<name, Resolve(Requested(name))>> \in Resolved
  BY DEF Resolved
<1>2. \A r \in Resolved : r[1] = name => r[2] = Resolve(Requested(name))
  BY DEF Resolved
<1>3. (CHOOSE r \in Resolved : r[1] = name) \in Resolved
      /\ (CHOOSE r \in Resolved : r[1] = name)[1] = name
  BY <1>1
<1>4. QED
  BY <1>2, <1>3 DEF CallsOf

\* A line whose commands all start in the table where the one before ended.
StaysInTable(line) == \A k \in 2..Len(line) : ~line[k].root

\* What is cut is one command of the payload, or none.
LEMMA CutLine ==
  ASSUME NEW line, line \in Seq(ToSet(line))
  PROVE  /\ Cut(line) \in Seq(ToSet(Cut(line))) /\ ToSet(Cut(line)) \subseteq ToSet(line)
         /\ StaysInTable(Cut(line))
<1>1. CASE line = <<>>
  <2>1. Cut(line) = <<>>
    BY <1>1 DEF Cut
  <2>2. <<>> \in Seq(ToSet(<<>>)) /\ ToSet(<<>>) = {} /\ StaysInTable(<<>>)
    BY DEF ToSet, StaysInTable
  <2>3. QED
    BY <2>1, <2>2
<1>2. CASE line # <<>>
  <2> DEFINE c == Head(line)
  <2>1. c \in ToSet(line)
    BY <1>2 DEF ToSet
  <2>2. Cut(line) = <<c>>
    BY <1>2 DEF Cut
  <2> HIDE DEF c
  <2>3. <<c>> \in Seq({c}) /\ Len(<<c>>) = 1 /\ ToSet(<<c>>) = {c}
    BY DEF ToSet
  <2>4. StaysInTable(<<c>>)
    BY <2>3 DEF StaysInTable
  <2>5. QED
    BY <2>1, <2>2, <2>3, <2>4
<1>3. QED
  BY <1>1, <1>2

\* What runs is a line, too.
LEMMA RequestedLine ==
  ASSUME NEW name \in Lines \cup Commands
  PROVE  /\ Requested(name) \in Seq(ToSet(Requested(name)))
         /\ \A cmd \in ToSet(Requested(name)) : cmd.path \in Seq(STRING \X Nat)
<1>1. Text[name] \in Seq(ToSet(Text[name]))
      /\ \A cmd \in ToSet(Text[name]) : cmd.path \in Seq(STRING \X Nat)
  BY TextAssumption
<1>2. CASE name \in Commands
  BY <1>1, <1>2, CutLine DEF Requested
<1>3. CASE name \notin Commands
  BY <1>1, <1>3 DEF Requested
<1>4. QED
  BY <1>2, <1>3

\* Whatever lines are entered and commands accepted, in any order: a command acts on the
\* item that its own words name.
THEOREM ItemsAreOwn == Spec => []OwnItem
<1>1. Init => LastInv
  BY DEF Init, LastInv
<1>2. LastInv => OwnItem
  <2> SUFFICES ASSUME LastInv, last # "" PROVE OwnItem
    BY DEF OwnItem, Called
  <2>1. last \in Lines \cup Commands
    BY DEF LastInv
  <2>2. CallsOf(last) = Resolve(Requested(last))
    BY <2>1, CallsResolved
  <2>3. \A calls \in ToSet(Resolve(Requested(last))) : \A c \in ToSet(calls) : Owns(c)
    BY <2>1, RequestedLine, LinesOwnItems
  <2>4. QED
    BY <2>2, <2>3 DEF OwnItem, Called, Owns
<1>3. QED
  BY <1>1, <1>2, InitInv, NextInv, NextLast, PTL DEF Spec

-------------------------------------------------------------------------------
(***************************************************************************)
(* What a message can change while not all commands are allowed.          *)
(***************************************************************************)

\* Calls of the writes.
WriteCalls(calls) == (\E S : calls \in Seq(S)) /\ \A c \in ToSet(calls) : c.table = "write"

LEMMA NoCalls == WriteCalls(<<>>)
<1>1. <<>> \in Seq(Nat) /\ ToSet(<<>>) = {}
  BY DEF ToSet
<1>2. QED
  BY <1>1 DEF WriteCalls

\* A place in the table of the writes, with calls of its entry only.
InWrite(at, done) ==
  \E stack, calls, going : At(at, "write", stack, calls, going, done) /\ WriteCalls(calls)

\* Its only entry leads nowhere.
LEMMA WriteEntry ==
  ASSUME NEW hits, hits \subseteq DOMAIN WriteTable, hits # {}
  PROVE  WriteTable[Min(hits)].sub = ""
<1>1. DOMAIN WriteTable = {1} /\ WriteTable[1].sub = ""
  <2>1. PICK e : e = Call("VSENSOR", 7)
    OBVIOUS
  <2>2. WriteTable = <<e>> /\ e.sub = ""
    BY <2>1 DEF WriteTable, Call
  <2>3. DOMAIN <<e>> = {1} /\ <<e>>[1] = e
    OBVIOUS
  <2>4. QED
    BY <2>2, <2>3
<1>2. hits = {1}
  BY <1>1
<1>3. Min({1}) = 1
  BY DEF Min
<1>4. QED
  BY <1>1, <1>2, <1>3

\* From there a word leads nowhere else.
LEMMA StepInWrite ==
  ASSUME NEW cmd, NEW done, NEW at, InWrite(at, done), NEW k
  PROVE  InWrite(Step(at, cmd, k), done)
<1> DEFINE table == Tables[at.level]
           hits  == {i \in DOMAIN table : Matches(cmd.path[k][1], table[i])}
           entry == table[Min(hits)]
           more  == k < Len(cmd.path)
           call  == [path |-> cmd.path, table |-> at.level, entry |-> entry.name,
                     word |-> cmd.path[k][1], query |-> cmd.query /\ ~more, arg |-> cmd.arg,
                     item |-> Item(at.level, entry.name, at.stack, cmd.path[k])]
<1>1. Step(at, cmd, k) =
        IF ~at.going THEN at
        ELSE IF hits = {} THEN [at EXCEPT !.going = FALSE]
        ELSE IF entry.sub # "" /\ more
        THEN [at EXCEPT !.level = entry.sub, !.stack = Append(@, cmd.path[k])]
        ELSE IF ~entry.func THEN at
        ELSE [at EXCEPT !.calls = Append(@, call)]
  BY DEF Step
<1>2. PICK stack, calls, going :
        At(at, "write", stack, calls, going, done) /\ WriteCalls(calls)
  BY DEF InWrite
<1>3. at.level = "write"
  BY <1>2, PlaceFields, Zenon
<1>4. hits # {} => entry.sub = ""
  <2>1. table = WriteTable
    BY <1>3, WordAssumption, Zenon
  <2>2. hits \subseteq DOMAIN table
    OBVIOUS
  <2> HIDE DEF table, hits
  <2>3. QED
    BY <2>1, <2>2, WriteEntry
<1>5. call.table = "write"
  BY <1>3
<1> HIDE DEF table, hits, entry, more, call
<1>6. At([at EXCEPT !.going = FALSE], "write", stack, calls, FALSE, done)
  BY <1>2, PlaceChanges, Zenon
<1>7. At([at EXCEPT !.calls = Append(@, call)], "write", stack, Append(calls, call), going, done)
  BY <1>2, PlaceChanges, Zenon
<1>8. WriteCalls(Append(calls, call))
  <2>1. PICK S : calls \in Seq(S)
    BY <1>2 DEF WriteCalls
  <2>2. /\ \E T : Append(calls, call) \in Seq(T)
        /\ ToSet(Append(calls, call)) = ToSet(calls) \cup {call}
    BY <2>1, Appended
  <2>3. QED
    BY <1>2, <1>5, <2>2 DEF WriteCalls
<1>9. InWrite([at EXCEPT !.going = FALSE], done)
  BY <1>2, <1>6, Zenon DEF InWrite
<1>10. InWrite([at EXCEPT !.calls = Append(@, call)], done)
  BY <1>7, <1>8, Zenon DEF InWrite
<1>11. QED
  BY <1>1, <1>4, <1>9, <1>10, Zenon

\* The first word of a message leads there from the root.
LEMMA FirstStep ==
  ASSUME NEW cmd, 1 < Len(cmd.path), cmd.path[1] = <<"WRITE", 0>>,
         NEW at, NEW stack, NEW done, At(at, "root", stack, <<>>, TRUE, done)
  PROVE  InWrite(Step(at, cmd, 1), done)
<1> DEFINE table == Tables[at.level]
           hits  == {i \in DOMAIN table : Matches(cmd.path[1][1], table[i])}
           entry == table[Min(hits)]
           more  == 1 < Len(cmd.path)
           next  == [at EXCEPT !.level = entry.sub, !.stack = Append(@, cmd.path[1])]
<1>1. at.level = "root" /\ at.going = TRUE
  BY PlaceFields, Zenon
<1>2. at.going /\ hits # {} /\ entry.sub # "" /\ more => Step(at, cmd, 1) = next
  BY DEF Step
<1>3. cmd.path[1][1] = "WRITE"
  OBVIOUS
<1>4. hits # {} /\ entry.sub = "write"
  BY <1>1, <1>3, WordAssumption, Zenon
<1> HIDE DEF table, hits, entry
<1>5. At(next, entry.sub, Append(stack, cmd.path[1]), <<>>, TRUE, done)
  BY PlaceChanges, Zenon
<1> HIDE DEF next
<1>7. InWrite(next, done)
  BY <1>4, <1>5, NoCalls, Zenon DEF InWrite
<1>8. entry.sub # ""
  BY <1>4
<1>9. QED
  BY <1>1, <1>2, <1>4, <1>7, <1>8
\* run_cmd() in the table of the writes, or at the root with a first word WRITE.
LEMMA WalkWrites ==
  ASSUME NEW cmd, cmd.path \in Seq(STRING \X Nat), ~cmd.root, NEW start, NEW done,
         NEW level, NEW calls, NEW going, At(start, level, <<>>, calls, going, done),
         \/ level = "write"
         \/ level = "root" /\ 1 < Len(cmd.path) /\ cmd.path[1] = <<"WRITE", 0>>
  PROVE  InWrite(Walk(start, cmd), done)
<1> DEFINE n == Len(cmd.path)
<1>1. n \in Nat
  OBVIOUS
<1>2. PICK after :
        /\ At(after[0], IF cmd.root THEN "root" ELSE level, <<>>, <<>>, TRUE, done)
        /\ \A k \in 0..n-1 : after[k + 1] = Step(after[k], cmd, k + 1)
        /\ Walk(start, cmd) = after[n]
  BY <1>1, WalkUnfolds
<1> DEFINE T == {k \in 0..n : IF k = 0 THEN level = "root" \/ InWrite(after[k], done)
                              ELSE InWrite(after[k], done)}
<1>3. At(after[0], level, <<>>, <<>>, TRUE, done)
  BY <1>2
<1>4. 0 \in T
  <2>1. CASE level = "root"
    BY <1>1, <2>1
  <2>2. CASE level = "write"
    <3>1. WriteCalls(<<>>)
      BY NoCalls
    <3>2. InWrite(after[0], done)
      BY <1>3, <2>2, <3>1, Zenon DEF InWrite
    <3>3. QED
      BY <1>1, <3>2
  <2>3. QED
    BY <2>1, <2>2
<1>5. ASSUME NEW k \in 0..n-1, k \in T PROVE k + 1 \in T
  <2>1. k + 1 \in 0..n /\ k + 1 # 0
    BY <1>1
  <2>2. CASE InWrite(after[k], done)
    <3>1. InWrite(Step(after[k], cmd, k + 1), done)
      BY <2>2, StepInWrite
    <3>2. QED
      BY <1>2, <2>1, <3>1
  <2>3. CASE ~InWrite(after[k], done)
    <3>1. k = 0 /\ level = "root"
      BY <1>5, <2>3
    <3>2. 1 < Len(cmd.path) /\ cmd.path[1] = <<"WRITE", 0>>
      BY <3>1
    <3>3. InWrite(Step(after[0], cmd, 1), done)
      BY <1>3, <3>1, <3>2, FirstStep
    <3>4. QED
      BY <1>2, <2>1, <3>1, <3>3
  <2>4. QED
    BY <2>2, <2>3
<1>6. n \in T
  <2> HIDE DEF T
  <2>1. 0..n \subseteq T
    <3> HIDE DEF n
    <3>1. QED
      BY <1>1, <1>4, <1>5, BoundedInduction
  <2>2. QED
    BY <1>1, <2>1
<1>7. level = "root" => n # 0
  OBVIOUS
<1>8. CASE n # 0
  BY <1>2, <1>6, <1>8
<1>9. CASE n = 0
  <2>1. level = "write"
    BY <1>7, <1>9
  <2>2. InWrite(after[0], done)
    BY <1>6, <1>9, <2>1
  <2>3. QED
    BY <1>2, <1>9, <2>2
<1>10. QED
  BY <1>8, <1>9

\* The commands that were resolved so far are writes.
WriteDone(done) ==
  (\E S : done \in Seq(S)) /\ \A calls \in ToSet(done) : WriteCalls(calls)

OnlyWritesSoFar(at) ==
  \E stack, calls, going, done :
    At(at, "write", stack, calls, going, done) /\ WriteDone(done) /\ done # <<>>

\* A command after these that is a write, too.
BeforeWrite(before, cmd) ==
  \E level, stack, calls, going, done :
    /\ At(before, level, stack, calls, going, done) /\ WriteDone(done)
    /\ \/ level = "write"
       \/ level = "root" /\ 1 < Len(cmd.path) /\ cmd.path[1] = <<"WRITE", 0>>

LEMMA NextWrite ==
  ASSUME NEW before, NEW cmd, cmd.path \in Seq(STRING \X Nat), ~cmd.root,
         BeforeWrite(before, cmd)
  PROVE  OnlyWritesSoFar(NextCommand(before, cmd))
<1>1. PICK level, stack, calls, going, done :
        /\ At(before, level, stack, calls, going, done) /\ WriteDone(done)
        /\ \/ level = "write"
           \/ level = "root" /\ 1 < Len(cmd.path) /\ cmd.path[1] = <<"WRITE", 0>>
  BY Zenon DEF BeforeWrite
<1>2. At(NewStack(before), level, <<>>, calls, going, done)
  <2>1. At([before EXCEPT !.stack = <<>>], level, <<>>, calls, going, done)
    BY <1>1, PlaceFields, Zenon
  <2>2. QED
    BY <2>1 DEF NewStack
<1> DEFINE at == Walk(NewStack(before), cmd)
<1>3. InWrite(at, done)
  BY <1>1, <1>2, WalkWrites
<1>4. NextCommand(before, cmd) = [at EXCEPT !.done = Append(@, at.calls)]
  BY DEF NextCommand
<1> HIDE DEF at
<1>5. PICK stack1, calls1, going1 :
        At(at, "write", stack1, calls1, going1, done) /\ WriteCalls(calls1)
  BY <1>3 DEF InWrite
<1>6. at.done = done /\ at.calls = calls1
  BY <1>5, PlaceFields, Zenon
<1>7. At([at EXCEPT !.done = Append(@, at.calls)], "write", stack1, calls1, going1,
         Append(done, calls1))
  <2>1. \A x : At([at EXCEPT !.done = x], "write", stack1, calls1, going1, x)
    BY <1>5, PlaceFields, Zenon
  <2>2. QED
    BY <1>6, <2>1, Zenon
<1>8. WriteDone(Append(done, calls1)) /\ Append(done, calls1) # <<>>
  <2>1. PICK S : done \in Seq(S)
    BY <1>1 DEF WriteDone
  <2>2. /\ \E T : Append(done, calls1) \in Seq(T)
        /\ ToSet(Append(done, calls1)) = ToSet(done) \cup {calls1}
    BY <2>1, Appended
  <2>3. ToSet(<<>>) = {}
    BY DEF ToSet
  <2>4. QED
    BY <1>1, <1>5, <2>2, <2>3 DEF WriteDone
<1>9. QED
  BY <1>4, <1>7, <1>8, Zenon DEF OnlyWritesSoFar

\* A line that begins with "WRITE:" and does not go back to the root calls writes only.
THEOREM LinesOnlyWrite ==
  ASSUME NEW line, line \in Seq(ToSet(line)),
         \A cmd \in ToSet(line) : cmd.path \in Seq(STRING \X Nat),
         BeginsWithWrite(line), StaysInTable(line)
  PROVE  Resolve(line) # <<>> /\ WriteDone(Resolve(line))
<1> DEFINE n == Len(line)
<1>1. n \in Nat /\ \A k \in 1..n : line[k] \in ToSet(line)
  BY DEF ToSet
<1>2. n # 0 /\ 1 < Len(line[1].path) /\ line[1].path[1] = <<"WRITE", 0>>
  <2>1. line # <<>> => Len(line) # 0
    OBVIOUS
  <2>2. QED
    BY <1>1, <2>1 DEF BeginsWithWrite
<1>3. ASSUME NEW k \in 1..n PROVE ~line[k].root /\ line[k].path \in Seq(STRING \X Nat)
  <2>1. ~line[k].root
    BY <1>1 DEF BeginsWithWrite, StaysInTable
  <2>2. QED
    BY <1>1, <2>1
<1>4. PICK after :
        /\ after[0] = Beginning
        /\ \A k \in 0..n-1 : after[k + 1] = NextCommand(after[k], line[k + 1])
        /\ Resolve(line) = after[n].done
  BY <1>1, ResolveUnfolds
<1> DEFINE T == {k \in 0..n : k = 0 \/ OnlyWritesSoFar(after[k])}
<1>5. 0 \in T
  BY <1>1
<1>6. ASSUME NEW k \in 0..n-1, k \in T PROVE k + 1 \in T
  <2>1. k + 1 \in 1..n /\ k + 1 \in 0..n /\ n \in Nat
    BY <1>1
  <2>2. CASE k = 0
    <3>1. WriteDone(<<>>)
      <4>1. <<>> \in Seq(Nat) /\ ToSet(<<>>) = {}
        BY DEF ToSet
      <4>2. QED
        BY <4>1 DEF WriteDone
    <3>2. 1 \in 1..n
      BY <2>1, <2>2
    <3>3. OnlyWritesSoFar(NextCommand(Beginning, line[1]))
      <4>1. BeforeWrite(Beginning, line[1])
        BY <1>2, <3>1, BeginningPlace, Zenon DEF BeforeWrite
      <4>2. QED
        BY <1>3, <3>2, <4>1, NextWrite
    <3>4. QED
      BY <1>4, <2>1, <2>2, <3>3
  <2>3. CASE OnlyWritesSoFar(after[k])
    <3>1. OnlyWritesSoFar(NextCommand(after[k], line[k + 1]))
      <4>1. BeforeWrite(after[k], line[k + 1])
        BY <2>3, Zenon DEF OnlyWritesSoFar, BeforeWrite
      <4>2. QED
        BY <1>3, <2>1, <4>1, NextWrite
    <3>2. QED
      BY <1>4, <2>1, <3>1
  <2>4. QED
    BY <1>6, <2>2, <2>3
<1>7. n \in T
  <2> HIDE DEF T
  <2>1. 0..n \subseteq T
    <3> HIDE DEF n
    <3>1. QED
      BY <1>1, <1>5, <1>6, BoundedInduction
  <2>2. QED
    BY <1>1, <2>1
<1>8. PICK stack, calls, going, done :
        At(after[n], "write", stack, calls, going, done) /\ WriteDone(done) /\ done # <<>>
  BY <1>2, <1>7 DEF OnlyWritesSoFar
<1>9. after[n].done = done
  BY <1>8, PlaceFields, Zenon
<1>10. QED
  BY <1>4, <1>8, <1>9

-------------------------------------------------------------------------------
\* sys with other values of the virtual sensors, and another status.
Given(sys, t) == \E v : t = [sys EXCEPT !.vtemp = v]
Differs(sys, t) == \E v, e : t = [sys EXCEPT !.vtemp = v, !.error = e]

\* One such change after another is such a change.
LEMMA GivenTwice ==
  ASSUME NEW sys, NEW t, NEW u, Given(sys, t), Given(t, u)
  PROVE  Given(sys, u)
<1>1. PICK v : t = [sys EXCEPT !.vtemp = v]
  BY DEF Given
<1>2. PICK w : u = [t EXCEPT !.vtemp = w]
  BY DEF Given
<1>3. u = [sys EXCEPT !.vtemp = w]
  BY <1>1, <1>2
<1>4. QED
  BY <1>3 DEF Given

LEMMA GivenDiffers ==
  ASSUME NEW sys, NEW t, t = sys \/ Given(sys, t), NEW e
  PROVE  Differs(sys, [t EXCEPT !.error = e])
<1>1. CASE t = sys
  <2>1. [sys EXCEPT !.error = e] = [sys EXCEPT !.vtemp = sys.vtemp, !.error = e]
    OBVIOUS
  <2>2. QED
    BY <1>1, <2>1 DEF Differs
<1>2. CASE Given(sys, t)
  BY <1>2 DEF Given, Differs
<1>3. QED
  BY <1>1, <1>2

LEMMA DiffersTwice ==
  ASSUME NEW sys, NEW t, NEW u, Differs(sys, t), Differs(t, u)
  PROVE  Differs(sys, u)
<1>1. PICK v, e : t = [sys EXCEPT !.vtemp = v, !.error = e]
  BY DEF Differs
<1>2. PICK w, d : u = [t EXCEPT !.vtemp = w, !.error = d]
  BY DEF Differs
<1>3. u = [sys EXCEPT !.vtemp = w, !.error = d]
  BY <1>1, <1>2
<1>4. QED
  BY <1>3 DEF Differs

LEMMA DiffersIn ==
  ASSUME NEW sys, NEW t, Differs(sys, t)
  PROVE  t = [sys EXCEPT !.vtemp = t.vtemp, !.error = t.error]
<1>1. PICK v, e : t = [sys EXCEPT !.vtemp = v, !.error = e]
  BY DEF Differs
<1>2. QED
  BY <1>1

\* cmd_vsensor_write() gives a sensor a value, or does nothing.
LEMMA WriteGives ==
  ASSUME NEW c, c.table = "write", NEW sys
  PROVE  /\ Function(c, sys).sys = sys \/ Given(sys, Function(c, sys).sys)
<1>1. Function(c, sys) = WriteVsensor(sys, c.item, c.query, c.arg)
  BY DEF Function
<1>2. CASE c.query \/ c.item \notin DOMAIN sys.vtemp \/ "num" \notin DOMAIN c.arg
  <2>1. Function(c, sys) = Result(1, sys)
    BY <1>1, <1>2 DEF WriteVsensor
  <2>2. QED
    BY <2>1 DEF Result
<1>3. CASE ~(c.query \/ c.item \notin DOMAIN sys.vtemp \/ "num" \notin DOMAIN c.arg)
  <2>1. Function(c, sys) = Result(0, [sys EXCEPT !.vtemp[c.item] = c.arg.num])
    BY <1>1, <1>3 DEF WriteVsensor
  <2>2. Function(c, sys).sys = [sys EXCEPT !.vtemp[c.item] = c.arg.num]
    BY <2>1 DEF Result
  <2>3. PICK v : v = [sys.vtemp EXCEPT ![c.item] = c.arg.num]
    OBVIOUS
  <2>4. [sys EXCEPT !.vtemp[c.item] = c.arg.num] = [sys EXCEPT !.vtemp = v]
    BY <2>3
  <2>5. QED
    BY <2>2, <2>4 DEF Given
<1>4. QED
  BY <1>2, <1>3

\* What RunCmd() and ProcessCommand() define by recursion.
IsRun(f, n, sys, calls) ==
  f = [k \in 0..n |-> IF k = 0 THEN Result(-1, sys) ELSE Function(calls[k], f[k - 1].sys)]

IsProcess(f, n, sys, resolved) ==
  f = [k \in 0..n |-> IF k = 0 THEN sys ELSE RunCmd(f[k - 1], resolved[k])]

\* Both exist, for any number of calls and of commands.
LEMMA RunExists ==
  ASSUME NEW N \in Nat, NEW sys, NEW calls
  PROVE  \E f : IsRun(f, N, sys, calls)
<1> DEFINE T == {n \in 0..N : \E f : IsRun(f, n, sys, calls)}
<1>1. 0 \in T
  <2> DEFINE f == [k \in 0..0 |-> Result(-1, sys)]
  <2>1. f = [k \in 0..0 |-> IF k = 0 THEN Result(-1, sys)
                            ELSE Function(calls[k], f[k - 1].sys)]
    OBVIOUS
  <2> HIDE DEF f
  <2>2. QED
    BY <2>1 DEF IsRun
<1>2. ASSUME NEW n \in 0..N-1, n \in T PROVE n + 1 \in T
  <2>1. PICK f : f = [k \in 0..n |-> IF k = 0 THEN Result(-1, sys)
                                     ELSE Function(calls[k], f[k - 1].sys)]
    BY <1>2 DEF IsRun
  <2> DEFINE y == Function(calls[n + 1], f[n].sys)
             g == [k \in 0..n+1 |-> IF k = n + 1 THEN y ELSE f[k]]
             h == [k \in 0..n+1 |-> IF k = 0 THEN Result(-1, sys)
                                    ELSE Function(calls[k], g[k - 1].sys)]
  <2>2. ASSUME NEW k \in 0..n+1 PROVE g[k] = h[k]
    <3>1. CASE k = n + 1
      <4>1. g[k - 1] = f[n] /\ k # 0
        BY <3>1
      <4>2. h[k] = Function(calls[k], g[k - 1].sys)
        BY <4>1
      <4>3. g[k] = y
        BY <3>1
      <4>4. QED
        BY <3>1, <4>1, <4>2, <4>3
    <3>2. CASE k = 0
      <4>1. g[0] = f[0] /\ f[0] = Result(-1, sys) /\ h[0] = Result(-1, sys)
        BY <2>1
      <4>2. QED
        BY <3>2, <4>1
    <3>3. CASE k \in 1..n
      <4>1. k - 1 \in 0..n /\ k - 1 # n + 1 /\ k # n + 1 /\ k # 0 /\ k \in 0..n
        BY <3>3
      <4>2. g[k - 1] = f[k - 1] /\ g[k] = f[k]
        BY <4>1
      <4>3. f[k] = Function(calls[k], f[k - 1].sys)
        BY <2>1, <4>1
      <4>4. h[k] = Function(calls[k], g[k - 1].sys)
        BY <4>1
      <4>5. QED
        BY <4>2, <4>3, <4>4
    <3>4. QED
      BY <3>1, <3>2, <3>3
  <2>3. g = h
    BY <2>2
  <2>4. IsRun(g, n + 1, sys, calls)
    <3>1. g = [k \in 0..n+1 |-> IF k = 0 THEN Result(-1, sys)
                                ELSE Function(calls[k], g[k - 1].sys)]
      BY <2>3
    <3> HIDE DEF g
    <3>2. QED
      BY <3>1 DEF IsRun
  <2>5. QED
    BY <2>4
<1>3. 0..N \subseteq T
  <2> HIDE DEF T
  <2>1. QED
    BY <1>1, <1>2, BoundedInduction
<1>4. QED
  BY <1>3

LEMMA ProcessExists ==
  ASSUME NEW N \in Nat, NEW sys, NEW resolved
  PROVE  \E f : IsProcess(f, N, sys, resolved)
<1> DEFINE T == {n \in 0..N : \E f : IsProcess(f, n, sys, resolved)}
<1>1. 0 \in T
  <2> DEFINE f == [k \in 0..0 |-> sys]
  <2>1. f = [k \in 0..0 |-> IF k = 0 THEN sys ELSE RunCmd(f[k - 1], resolved[k])]
    OBVIOUS
  <2> HIDE DEF f
  <2>2. QED
    BY <2>1 DEF IsProcess
<1>2. ASSUME NEW n \in 0..N-1, n \in T PROVE n + 1 \in T
  <2>1. PICK f : f = [k \in 0..n |-> IF k = 0 THEN sys ELSE RunCmd(f[k - 1], resolved[k])]
    BY <1>2 DEF IsProcess
  <2> DEFINE y == RunCmd(f[n], resolved[n + 1])
             g == [k \in 0..n+1 |-> IF k = n + 1 THEN y ELSE f[k]]
             h == [k \in 0..n+1 |-> IF k = 0 THEN sys ELSE RunCmd(g[k - 1], resolved[k])]
  <2>2. ASSUME NEW k \in 0..n+1 PROVE g[k] = h[k]
    <3>1. CASE k = n + 1
      <4>1. g[k - 1] = f[n] /\ k # 0
        BY <3>1
      <4>2. h[k] = RunCmd(g[k - 1], resolved[k])
        BY <4>1
      <4>3. g[k] = y
        BY <3>1
      <4>4. QED
        BY <3>1, <4>1, <4>2, <4>3
    <3>2. CASE k = 0
      <4>1. g[0] = f[0] /\ f[0] = sys /\ h[0] = sys
        BY <2>1
      <4>2. QED
        BY <3>2, <4>1
    <3>3. CASE k \in 1..n
      <4>1. k - 1 \in 0..n /\ k - 1 # n + 1 /\ k # n + 1 /\ k # 0 /\ k \in 0..n
        BY <3>3
      <4>2. g[k - 1] = f[k - 1] /\ g[k] = f[k]
        BY <4>1
      <4>3. f[k] = RunCmd(f[k - 1], resolved[k])
        BY <2>1, <4>1
      <4>4. h[k] = RunCmd(g[k - 1], resolved[k])
        BY <4>1
      <4>5. QED
        BY <4>2, <4>3, <4>4
    <3>4. QED
      BY <3>1, <3>2, <3>3
  <2>3. g = h
    BY <2>2
  <2>4. IsProcess(g, n + 1, sys, resolved)
    <3>1. g = [k \in 0..n+1 |-> IF k = 0 THEN sys ELSE RunCmd(g[k - 1], resolved[k])]
      BY <2>3
    <3> HIDE DEF g
    <3>2. QED
      BY <3>1 DEF IsProcess
  <2>5. QED
    BY <2>4
<1>3. 0..N \subseteq T
  <2> HIDE DEF T
  <2>1. QED
    BY <1>1, <1>2, BoundedInduction
<1>4. QED
  BY <1>3

\* A command that calls writes only gives values, and leaves a status.
LEMMA RunDiffers ==
  ASSUME NEW sys, NEW calls, WriteCalls(calls)
  PROVE  Differs(sys, RunCmd(sys, calls))
<1> DEFINE n == Len(calls)
           after[k \in 0..Len(calls)] ==
             IF k = 0 THEN Result(-1, sys) ELSE Function(calls[k], after[k - 1].sys)
<1>1. n \in Nat /\ \A k \in 1..n : calls[k].table = "write"
  <2>1. PICK S : calls \in Seq(S)
    BY DEF WriteCalls
  <2>2. QED
    BY <2>1 DEF WriteCalls, ToSet
<1>2. PICK f : IsRun(f, n, sys, calls)
  <2> HIDE DEF n
  <2>1. QED
    BY <1>1, RunExists
<1>3. after = [k \in 0..n |-> IF k = 0 THEN Result(-1, sys)
                              ELSE Function(calls[k], after[k - 1].sys)]
  BY <1>2 DEF IsRun
<1>4. RunCmd(sys, calls) = [after[n].sys EXCEPT !.error = Status(after[n].res)]
  BY DEF RunCmd
<1> HIDE DEF after
<1> DEFINE T == {k \in 0..n : after[k].sys = sys \/ Given(sys, after[k].sys)}
<1>5. 0 \in T
  BY <1>1, <1>3 DEF Result
<1>6. ASSUME NEW k \in 0..n-1, k \in T PROVE k + 1 \in T
  <2>1. k + 1 \in 0..n /\ k + 1 \in 1..n /\ k + 1 # 0 /\ (k + 1) - 1 = k
    BY <1>1
  <2>2. after[k + 1] = Function(calls[k + 1], after[k].sys)
    BY <1>3, <2>1
  <2> DEFINE t == after[k].sys
             u == after[k + 1].sys
  <2>3. u = t \/ Given(t, u)
    BY <1>1, <2>1, <2>2, WriteGives
  <2>4. t = sys \/ Given(sys, t)
    BY <1>6
  <2> HIDE DEF t, u
  <2>5. u = sys \/ Given(sys, u)
    BY <2>3, <2>4, GivenTwice
  <2>6. QED
    BY <2>1, <2>5 DEF u
<1>7. after[n].sys = sys \/ Given(sys, after[n].sys)
  <2>1. 0..n \subseteq T
    <3> HIDE DEF n, T
    <3>1. QED
      BY <1>1, <1>5, <1>6, BoundedInduction
  <2>2. QED
    BY <1>1, <2>1
<1>8. QED
  <2> DEFINE t == after[n].sys
             e == Status(after[n].res)
  <2>1. (t = sys \/ Given(sys, t)) /\ RunCmd(sys, calls) = [t EXCEPT !.error = e]
    BY <1>4, <1>7
  <2> HIDE DEF t, e
  <2>2. Differs(sys, [t EXCEPT !.error = e])
    BY <2>1, GivenDiffers, Zenon
  <2>3. QED
    BY <2>1, <2>2, Zenon

\* A line that calls writes only gives values, and leaves a status.
LEMMA ProcessDiffers ==
  ASSUME NEW sys, NEW resolved, WriteDone(resolved), resolved # <<>>
  PROVE  Differs(sys, ProcessCommand(sys, resolved))
<1> DEFINE n == Len(resolved)
           after[k \in 0..Len(resolved)] ==
             IF k = 0 THEN sys ELSE RunCmd(after[k - 1], resolved[k])
<1>1. n \in Nat /\ n # 0 /\ \A k \in 1..n : WriteCalls(resolved[k])
  <2>1. PICK S : resolved \in Seq(S)
    BY DEF WriteDone
  <2>2. QED
    BY <2>1 DEF WriteDone, ToSet
<1>2. PICK f : IsProcess(f, n, sys, resolved)
  <2> HIDE DEF n
  <2>1. QED
    BY <1>1, ProcessExists
<1>3. after = [k \in 0..n |-> IF k = 0 THEN sys ELSE RunCmd(after[k - 1], resolved[k])]
  BY <1>2 DEF IsProcess
<1>4. ProcessCommand(sys, resolved) = after[n]
  BY DEF ProcessCommand
<1> HIDE DEF after
<1> DEFINE T == {k \in 0..n : k = 0 \/ Differs(sys, after[k])}
<1>5. 0 \in T
  BY <1>1
<1>6. ASSUME NEW k \in 0..n-1, k \in T PROVE k + 1 \in T
  <2>1. k + 1 \in 0..n /\ k + 1 \in 1..n /\ k + 1 # 0 /\ (k + 1) - 1 = k
    BY <1>1
  <2>2. after[k + 1] = RunCmd(after[k], resolved[k + 1])
    BY <1>3, <2>1
  <2>3. k = 0 => after[k] = sys
    BY <1>1, <1>3
  <2>4. k = 0 \/ Differs(sys, after[k])
    BY <1>6
  <2>5. Differs(sys, after[k + 1])
    BY <1>1, <2>1, <2>2, <2>3, <2>4, RunDiffers, DiffersTwice
  <2>6. QED
    BY <2>1, <2>5
<1>7. n \in T
  <2> HIDE DEF T
  <2>1. 0..n \subseteq T
    <3> HIDE DEF n
    <3>1. QED
      BY <1>1, <1>5, <1>6, BoundedInduction
  <2>2. QED
    BY <1>1, <2>1
<1>8. QED
  BY <1>1, <1>4, <1>7

\* What was accepted while not all commands were allowed begins with "WRITE:".
AllowedInv == \A p \in ToSet(accepted) : p \in allowed \/ BeginsWithWrite(Requested(p[4]))

LEMMA NextAllowed == TypeOK /\ AllowedInv /\ [Next]_vars => AllowedInv'
<1> SUFFICES ASSUME TypeOK, AllowedInv, [Next]_vars PROVE AllowedInv'
  OBVIOUS
<1>1. CASE \E c \in Commands : Accept(c)
  <2>1. PICK c \in Commands : Accept(c)
    BY <1>1
  <2>2. ToSet(accepted') = ToSet(accepted) \cup {Piece(c)}
    <3>1. accepted \in Seq(Pieces) /\ accepted' = Append(accepted, Piece(c))
      BY <2>1 DEF TypeOK, Accept
    <3>2. QED
      BY <3>1, Appended
  <2>3. allowed \subseteq allowed' /\ (system.scpi => Piece(c) \in allowed')
    BY <2>1 DEF Accept
  <2>4. ~system.scpi => BeginsWithWrite(Requested(c))
    BY <2>1 DEF Accept, Permitted
  <2>5. Piece(c)[4] = c
    BY DEF Piece
  <2>6. QED
    BY <2>2, <2>3, <2>4, <2>5 DEF AllowedInv
<1>2. CASE UNCHANGED <<accepted, allowed>>
  BY <1>2 DEF AllowedInv
<1>3. QED
  BY <1>1, <1>2
     DEF Next, Console, Publish, Receive, Other, Refuse, Main, Start, Run, Answer, Empty,
         Release, history, vars

\* While not all commands are allowed, a message changes nothing but the values of virtual
\* sensors: for any payloads, of any number of commands and words, however long they wait
\* and whatever runs meanwhile.
THEOREM WritesOnly == Spec => OnlyWrites
<1>1. Init => AllowedInv
  <2>1. ToSet(<<>>) = {}
    BY DEF ToSet
  <2>2. QED
    BY <2>1 DEF Init, AllowedInv
<1>2. ASSUME IInv, AllowedInv, Run, running \notin allowed
      PROVE  system' = [system EXCEPT !.vtemp = system'.vtemp, !.error = system'.error]
  <2> DEFINE c == running[4]
  <2>1. c \in Commands /\ BeginsWithWrite(Requested(c))
    BY <1>2, RunsAccepted DEF AllowedInv
  <2>2. CallsOf(c) = Resolve(Requested(c))
    BY <2>1, CallsResolved
  <2>3. Resolve(Requested(c)) # <<>> /\ WriteDone(Resolve(Requested(c)))
    <3>1. StaysInTable(Requested(c))
      BY <2>1, TextAssumption, CutLine DEF Requested
    <3>2. QED
      BY <2>1, <3>1, RequestedLine, LinesOnlyWrite
  <2>4. system' = ProcessCommand(system, CallsOf(c))
    BY <1>2 DEF Run
  <2>5. Differs(system, system')
    BY <2>2, <2>3, <2>4, ProcessDiffers
  <2>6. QED
    BY <2>5, DiffersIn
<1>3. IInv /\ AllowedInv => [Run /\ running \notin allowed =>
          system' = [system EXCEPT !.vtemp = system'.vtemp, !.error = system'.error]]_vars
  BY <1>2
<1>4. IInv => TypeOK
  BY DEF IInv
<1>5. QED
  BY <1>1, <1>3, <1>4, InitInv, NextInv, NextAllowed, PTL DEF Spec, OnlyWrites

===============================================================================
