----------------------------- MODULE ClientsProofs ----------------------------
(***************************************************************************)
(* Proofs about the server and the programs that use it: connections, the  *)
(* links that the calls of several clients write between entries, and the  *)
(* shell of a client.  They hold of every number of connections, clients,  *)
(* rows and items.  The names without a prefix (Spec, Next, IInv, TypeOK)  *)
(* are those of Server; each of the other models prefixes its own.         *)
(***************************************************************************)
EXTENDS Server, References, Shell, FiniteSetTheorems, SequenceTheorems, SumProofs, TLAPS

----------------------------------------
(* Server: the one request of a connection is in one place.                *)

(* The inductive invariant: where the one request of a connection is.      *)

Hellos == [type : {"auth", "other"}, tag : {0}]
Welcome == Msg("welcome", 0)
Refused == Msg("refused", 0)
Bye == Msg("bye", 0)

\* The reply to the client's last request.
Fitting(k) == Msg("reply", request[k].tag)

AtMostOne(S) == {<<>>} \cup {<<x>> : x \in S}
AtMostTwo(S) == AtMostOne(S) \cup {<<x, y>> : x \in S, y \in S}

\* The goroutines of a connection have nothing of it.
Unread(k) == held[k] = Eof /\ reads[k] = <<>> /\ current[k] = Eof

\* Nobody has dialled.
Fresh(k) ==
    /\ phase[k] = "none" /\ reader[k] = "off" /\ Unread(k)
    /\ inbox[k] = <<>> /\ outbox[k] = <<>> /\ ~up[k] /\ ~executed[k]

\* The first message has not been read.
Arriving(k) ==
    /\ phase[k] \in {"backlog", "first"} /\ reader[k] = "off" /\ Unread(k)
    /\ outbox[k] = <<>> /\ ~executed[k]
    /\ \/ client[k] = "dialled" /\ inbox[k] = <<>>
       \/ client[k] = "greeting" /\ \E f \in Hellos : inbox[k] = <<f>>

\* The server waits for a request.
Resting(k) ==
    /\ phase[k] = "serving" /\ reader[k] = "reading" /\ Unread(k) /\ inbox[k] = <<>>
    /\ \/ client[k] = "greeting" /\ outbox[k] = <<Welcome>> /\ ~executed[k]
       \/ client[k] = "ready" /\ outbox[k] = <<>> /\ ~executed[k]
       \/ client[k] = "waiting" /\ outbox[k] = <<Fitting(k)>>

\* The request the client waits for is in one place on its way through the server, and
\* has taken no effect before it is handled.
Travelling(k) ==
    /\ client[k] = "waiting" /\ outbox[k] = <<>>
    /\ \/ /\ phase[k] = "serving" /\ reader[k] = "reading" /\ Unread(k)
          /\ inbox[k] = <<request[k]>> /\ ~executed[k]
       \/ /\ phase[k] = "serving" /\ reader[k] = "sending" /\ inbox[k] = <<>>
          /\ held[k] = request[k] /\ reads[k] = <<>> /\ current[k] = Eof /\ ~executed[k]
       \/ /\ phase[k] = "serving" /\ reader[k] = "reading" /\ inbox[k] = <<>>
          /\ held[k] = Eof /\ reads[k] = <<request[k]>> /\ current[k] = Eof /\ ~executed[k]
       \/ /\ phase[k] \in {"handling", "replying"} /\ reader[k] = "reading" /\ inbox[k] = <<>>
          /\ held[k] = Eof /\ reads[k] = <<>> /\ current[k] = request[k]
          /\ phase[k] = "handling" => ~executed[k]

\* The connection is broken or closed: what had arrived at the client is still there, and
\* a shutdown notice among it means that handleConnection has returned.
Broken(k) ==
    /\ ~up[k] /\ phase[k] # "none"
    /\ phase[k] = "closed" => inbox[k] = <<>>
    /\ phase[k] \in {"backlog", "first"} => reader[k] = "off" /\ Unread(k)
    /\ phase[k] \in {"serving", "handling", "replying"} => reader[k] # "off"
    /\ phase[k] \in {"handling", "replying"} <=> current[k] # Eof
    /\ reader[k] # "off" => inbox[k] \in AtMostOne(Requests)
    /\ client[k] = "dialled" => outbox[k] = <<>>
    /\ client[k] = "greeting" =>
        outbox[k] \in {<<>>, <<Welcome>>, <<Refused>>, <<Welcome, Bye>>}
    /\ client[k] = "ready" => outbox[k] \in {<<>>, <<Bye>>}
    /\ client[k] = "waiting" =>
        /\ outbox[k] \in {<<>>, <<Fitting(k)>>, <<Bye>>, <<Fitting(k), Bye>>}
        /\ outbox[k] = <<Bye>> => ~executed[k]
    /\ client[k] \in {"dialled", "greeting", "ready"} => ~executed[k]
    /\ client[k] \in {"greeting", "ready", "waiting"} /\ phase[k] # "closed" =>
        outbox[k] \in {<<>>, <<Welcome>>, <<Fitting(k)>>}

\* What a connection can be.
Sound(k) ==
    /\ client[k] = "away" => Fresh(k)
    /\ client[k] # "away" =>
        \/ up[k] /\ (Arriving(k) \/ Resting(k) \/ Travelling(k))
        \/ Broken(k)

IInv ==
    /\ TypeOK
    /\ \A k \in Connections : Sound(k)

----------------------------------------
(* Short sequences.                                                        *)

\* A channel or a socket holds one or two frames at most: these are all the sequences.
LEMMA ShortSequences ==
  ASSUME NEW S
  PROVE  BoundedSeq(S, 1) = AtMostOne(S) /\ BoundedSeq(S, 2) = AtMostTwo(S)
<1>1. 0..1 = {0, 1} /\ 0..2 = {0, 1, 2}
  OBVIOUS
<1>2. [1..0 -> S] = {<<>>}
  <2>1. 1..0 = {}
    OBVIOUS
  <2>2. <<>> \in [1..0 -> S]
    BY <2>1
  <2>3. \A f \in [1..0 -> S] : f = <<>>
    BY <2>1
  <2> QED
    BY <2>2, <2>3
<1>3. [1..1 -> S] = {<<x>> : x \in S}
  <2>1. \A x \in S : <<x>> \in [1..1 -> S]
    OBVIOUS
  <2>2. ASSUME NEW f \in [1..1 -> S] PROVE f = <<f[1]>> /\ f[1] \in S
    OBVIOUS
  <2> QED
    BY <2>1, <2>2
<1>4. [1..2 -> S] = {<<x, y>> : x \in S, y \in S}
  <2>1. \A x, y \in S : <<x, y>> \in [1..2 -> S]
    OBVIOUS
  <2>2. ASSUME NEW f \in [1..2 -> S] PROVE f = <<f[1], f[2]>> /\ f[1] \in S /\ f[2] \in S
    OBVIOUS
  <2> QED
    BY <2>1, <2>2
<1> QED
  BY <1>1, <1>2, <1>3, <1>4 DEF BoundedSeq, SeqOf, AtMostOne, AtMostTwo

\* One or two frames of a type are a short sequence of it.
LEMMA ShortTypes ==
  ASSUME NEW S
  PROVE  /\ <<>> \in AtMostOne(S) /\ <<>> \in AtMostTwo(S)
         /\ \A x \in S : <<x>> \in AtMostOne(S) /\ <<x>> \in AtMostTwo(S)
         /\ \A x, y \in S : <<x, y>> \in AtMostTwo(S)
<1>1. <<>> \in AtMostOne(S) /\ <<>> \in AtMostTwo(S)
  BY DEF AtMostOne, AtMostTwo
<1>2. \A x \in S : <<x>> \in AtMostOne(S)
  BY Zenon DEF AtMostOne
<1>3. \A x \in S : <<x>> \in AtMostTwo(S)
  <2>1. \A t \in AtMostOne(S) : t \in AtMostTwo(S)
    BY DEF AtMostTwo
  <2> QED
    BY <1>2, <2>1, Zenon
<1>4. \A x, y \in S : <<x, y>> \in AtMostTwo(S)
  BY DEF AtMostTwo
<1> QED
  BY <1>1, <1>2, <1>3, <1>4

\* A second frame is appended to the first.
LEMMA Appended ==
  ASSUME NEW a, NEW b
  PROVE  <<a>> \o <<b>> = <<a, b>>
<1>1. <<a>> \in Seq({a, b}) /\ <<b>> \in Seq({a, b}) /\ <<a, b>> \in Seq({a, b})
  OBVIOUS
<1>2. Len(<<a>>) = 1 /\ Len(<<b>>) = 1 /\ Len(<<a, b>>) = 2
      /\ <<a>>[1] = a /\ <<b>>[1] = b /\ <<a, b>>[1] = a /\ <<a, b>>[2] = b
  OBVIOUS
<1>3. /\ <<a>> \o <<b>> \in Seq({a, b}) /\ Len(<<a>> \o <<b>>) = 2
      /\ (<<a>> \o <<b>>)[1] = a /\ (<<a>> \o <<b>>)[2] = b
  BY <1>1, <1>2, ConcatProperties
<1>4. \A i \in 1..2 : (<<a>> \o <<b>>)[i] = <<a, b>>[i]
  <2>1. \A i \in 1..2 : i = 1 \/ i = 2
    OBVIOUS
  <2> QED
    BY <1>2, <1>3, <2>1
<1> QED
  BY <1>1, <1>2, <1>3, <1>4, SeqEqual

\* What reading and writing one frame does to a short sequence.
LEMMA ShortSteps ==
  /\ \A a : /\ <<>> \o <<a>> = <<a>> /\ <<a>> # <<>> /\ Head(<<a>>) = a /\ Tail(<<a>>) = <<>>
            /\ <<a>> \o <<>> = <<a>>
  /\ \A a, b : /\ <<a>> \o <<b>> = <<a, b>> /\ <<a, b>> # <<>>
               /\ Head(<<a, b>>) = a /\ Tail(<<a, b>>) = <<b>>
               /\ <<a, b>> \o <<>> = <<a, b>>
               /\ <<a>> = <<b>> => a = b
  /\ \A a, b, c : <<a, b>> # <<c>>
  /\ \A a, b, c, d : <<a, b>> = <<c, d>> => a = c /\ b = d
  /\ <<>> \o <<>> = <<>>
<1>1. \A a : <<a>> # <<>> /\ Head(<<a>>) = a /\ Tail(<<a>>) = <<>>
  OBVIOUS
<1>2. \A a : <<>> \o <<a>> = <<a>> /\ <<a>> \o <<>> = <<a>>
  OBVIOUS
<1>3. \A a, b : <<a, b>> # <<>> /\ Head(<<a, b>>) = a /\ Tail(<<a, b>>) = <<b>>
  OBVIOUS
<1>4. \A a, b : <<a>> \o <<b>> = <<a, b>>
  BY Appended
<1>5. \A a, b : <<a, b>> \o <<>> = <<a, b>>
  OBVIOUS
<1>6. \A a, b : <<a>> = <<b>> => a = b
  OBVIOUS
<1>7. \A a, b, c : <<a, b>> # <<c>>
  OBVIOUS
<1>8. \A a, b, c, d : <<a, b>> = <<c, d>> => a = c /\ b = d
  OBVIOUS
<1>9. <<>> \o <<>> = <<>>
  OBVIOUS
<1> QED
  BY <1>1, <1>2, <1>3, <1>4, <1>5, <1>6, <1>7, <1>8, <1>9

\* What is left of a short sequence when the connection breaks.
LEMMA ShortPrefixes ==
  /\ Prefixes(<<>>) = {<<>>}
  /\ \A a : Prefixes(<<a>>) = {<<>>, <<a>>}
  /\ \A a, b : Prefixes(<<a, b>>) = {<<>>, <<a>>, <<a, b>>}
<1>1. Prefixes(<<>>) = {<<>>}
  <2>1. 0..Len(<<>>) = {0}
    OBVIOUS
  <2>2. SubSeq(<<>>, 1, 0) = <<>>
    OBVIOUS
  <2>3. Prefixes(<<>>) = {SubSeq(<<>>, 1, l) : l \in {0}}
    BY <2>1 DEF Prefixes
  <2> QED
    BY <2>2, <2>3
<1>2. ASSUME NEW a PROVE Prefixes(<<a>>) = {<<>>, <<a>>}
  <2>1. 0..Len(<<a>>) = {0, 1}
    OBVIOUS
  <2>2. SubSeq(<<a>>, 1, 0) = <<>>
    OBVIOUS
  <2>3. SubSeq(<<a>>, 1, 1) = <<a>>
    <3>1. <<a>> \in Seq({a}) /\ Len(<<a>>) = 1
      OBVIOUS
    <3> QED
      BY <3>1, SubSeqFull
  <2> QED
    BY <2>1, <2>2, <2>3 DEF Prefixes
<1>3. ASSUME NEW a, NEW b PROVE Prefixes(<<a, b>>) = {<<>>, <<a>>, <<a, b>>}
  <2>1. 0..Len(<<a, b>>) = {0, 1, 2}
    OBVIOUS
  <2>2. SubSeq(<<a, b>>, 1, 0) = <<>>
    OBVIOUS
  <2>3. SubSeq(<<a, b>>, 1, 1) = <<a>>
    <3>1. <<a>> \in Seq({a}) /\ Len(<<a>>) = 1 /\ <<a>>[1] = a /\ <<a, b>>[1] = a
      OBVIOUS
    <3>2. /\ SubSeq(<<a, b>>, 1, 1) \in Seq({a}) /\ Len(SubSeq(<<a, b>>, 1, 1)) = 1
          /\ SubSeq(<<a, b>>, 1, 1)[1] = a
      BY <3>1, SubSeqProperties
    <3>3. \A i \in 1..1 : SubSeq(<<a, b>>, 1, 1)[i] = <<a>>[i]
      BY <3>1, <3>2
    <3> QED
      BY <3>1, <3>2, <3>3, SeqEqual
  <2>4. SubSeq(<<a, b>>, 1, 2) = <<a, b>>
    <3>1. <<a, b>> \in Seq({a, b}) /\ Len(<<a, b>>) = 2
      OBVIOUS
    <3> QED
      BY <3>1, SubSeqFull
  <2> QED
    BY <2>1, <2>2, <2>3, <2>4 DEF Prefixes
<1> QED
  BY <1>1, <1>2, <1>3

\* The frames are told apart by their types.
LEMMA FrameTypes ==
  /\ Welcome \in Answers /\ Refused \in Answers /\ Bye \in Answers
  /\ Welcome.type = "welcome" /\ Refused.type = "refused" /\ Bye.type = "bye"
  /\ Eof.type = "eof" /\ Eof \notin Requests /\ Eof \notin Hellos
  /\ \A r \in Requests : /\ r.type \in {"command", "ping"} /\ r \in Frames
                         /\ Msg("reply", r.tag) \in Answers
                         /\ Msg("reply", r.tag).type = "reply"
                         /\ Msg("reply", r.tag).tag = r.tag
                         /\ \A type \in {"command", "ping"} : Msg(type, 1 - r.tag) \in Requests
  /\ \A f \in Hellos : f.type \in {"auth", "other"} /\ f \in Frames
  /\ \A type \in {"auth", "other"} : Msg(type, 0) \in Hellos
<1>1. \A r \in Requests : 1 - r.tag \in {0, 1}
  BY DEF Requests
<1> QED
  BY <1>1 DEF Welcome, Refused, Bye, Eof, Msg, Answers, Requests, Hellos, Frames

----------------------------------------
(* One connection at a time.                                               *)

\* The type invariant, with the short sequences spelled out.
Typed ==
    /\ main \in {"accepting", "draining", "stopped"}
    /\ cancelled \in BOOLEAN /\ listening \in BOOLEAN
    /\ phase \in [Connections ->
          {"none", "backlog", "first", "serving", "handling", "replying", "closed"}]
    /\ reader \in [Connections -> {"off", "reading", "sending", "ended"}]
    /\ held \in [Connections -> Requests \cup {Eof}]
    /\ current \in [Connections -> Requests \cup {Eof}]
    /\ reads \in [Connections -> AtMostOne(Requests \cup {Eof})]
    /\ inbox \in [Connections -> AtMostOne(Frames)]
    /\ outbox \in [Connections -> AtMostTwo(Answers)]
    /\ executed \in [Connections -> BOOLEAN]
    /\ up \in [Connections -> BOOLEAN]
    /\ client \in [Connections ->
          {"away", "dialled", "greeting", "ready", "waiting", "disconnected", "gone"}]
    /\ request \in [Connections -> Requests]

\* Both say the same, before and after a step.
Pinging == pinging \in [Connections -> BOOLEAN]

LEMMA TypedIsTypeOK == (TypeOK <=> Typed /\ Pinging) /\ (TypeOK' <=> Typed' /\ Pinging')
BY ShortSequences DEF TypeOK, Typed, Pinging

\* The invariant without the ping goroutines, which are no part of a request's way.
Orderly == Typed /\ \A k \in Connections : Sound(k)

LEMMA IInvIsOrderly == (IInv <=> Orderly /\ Pinging) /\ (IInv' <=> Orderly' /\ Pinging')
BY TypedIsTypeOK DEF IInv, Orderly

\* A step of one connection leaves the others as they are.
OthersStay(k) ==
    \A j \in Connections \ {k} :
        /\ phase'[j] = phase[j] /\ reader'[j] = reader[j] /\ held'[j] = held[j]
        /\ reads'[j] = reads[j] /\ current'[j] = current[j] /\ executed'[j] = executed[j]
        /\ up'[j] = up[j] /\ inbox'[j] = inbox[j] /\ outbox'[j] = outbox[j]
        /\ client'[j] = client[j] /\ request'[j] = request[j]

\* A connection that is left as it is stays sound.
LEMMA SoundStays ==
  ASSUME NEW j, Sound(j),
         phase'[j] = phase[j], reader'[j] = reader[j], held'[j] = held[j],
         reads'[j] = reads[j], current'[j] = current[j], executed'[j] = executed[j],
         up'[j] = up[j], inbox'[j] = inbox[j], outbox'[j] = outbox[j],
         client'[j] = client[j], request'[j] = request[j]
  PROVE  Sound(j)'
BY DEF Sound, Fresh, Arriving, Resting, Travelling, Broken, Unread, Fitting

\* A step of one connection leaves the others as they are.
LEMMA OneConnection ==
  ASSUME Orderly, NEW k \in Connections, Typed', Sound(k)', OthersStay(k)
  PROVE  Orderly'
<1>1. \A j \in Connections : Sound(j)'
  BY SoundStays DEF Orderly, OthersStay
<1> QED
  BY <1>1 DEF Orderly

\* What the invariant says of one connection.
LEMMA At ==
  ASSUME Orderly, NEW k \in Connections
  PROVE  Typed /\ Sound(k) /\ request[k] \in Requests /\ Fitting(k) \in Answers
         /\ (up[k] => Arriving(k) \/ Resting(k) \/ Travelling(k))
         /\ (~up[k] => Fresh(k) \/ Broken(k))
         /\ (up[k] => client[k] \in {"dialled", "greeting", "ready", "waiting"}
                      /\ phase[k] \notin {"none", "closed"})
<1>1. Typed /\ Sound(k) /\ request[k] \in Requests
  BY DEF Orderly, Typed
<1>2. Fitting(k) \in Answers
  BY <1>1, FrameTypes DEF Fitting
<1>3. up[k] => Arriving(k) \/ Resting(k) \/ Travelling(k)
  BY <1>1 DEF Sound, Fresh, Broken
<1>4. ~up[k] => Fresh(k) \/ Broken(k)
  BY <1>1 DEF Sound
<1>5. up[k] => client[k] \in {"dialled", "greeting", "ready", "waiting"}
               /\ phase[k] \notin {"none", "closed"}
  BY <1>3 DEF Arriving, Resting, Travelling
<1> QED
  BY <1>1, <1>2, <1>3, <1>4, <1>5

\* handleConnection closes the connection, perhaps after a refusal or a notice: what is
\* left for the client to read is the beginning of what was sent.
LEMMA CloseKeepsOrder ==
  ASSUME Orderly, NEW k \in Connections, NEW answers \in {<<>>, <<Refused>>, <<Bye>>},
         CloseAfter(k, answers),
         phase[k] \in {"first", "serving", "handling", "replying"},
         answers = <<Refused>> => phase[k] = "first" /\ (up[k] => client[k] = "greeting"),
         answers = <<Bye>> => phase[k] = "serving",
         UNCHANGED <<main, cancelled, listening, reader, held, executed, client, request>>,
         reads' = [reads EXCEPT ![k] = <<>>] \/ reads' = reads,
         current' = [current EXCEPT ![k] = Eof] \/ (current' = current /\ current[k] = Eof)
  PROVE  Orderly'
<1> DEFINE sent == Delivered(k, outbox, answers)
<1>0. Typed /\ Sound(k) /\ client[k] # "away"
  BY At DEF Sound, Fresh
<1>1. /\ phase' = [phase EXCEPT ![k] = "closed"]
      /\ up' = [up EXCEPT ![k] = FALSE]
      /\ inbox' = [inbox EXCEPT ![k] = <<>>]
  BY DEF CloseAfter
<1>2. sent = IF up[k] THEN outbox[k] \o answers ELSE outbox[k]
  BY DEF Delivered
<1>3. /\ up[k] /\ phase[k] = "first" => outbox[k] = <<>>
      /\ up[k] /\ phase[k] = "serving" => outbox[k] \in {<<>>, <<Welcome>>, <<Fitting(k)>>}
      /\ up[k] /\ phase[k] \in {"handling", "replying"} => outbox[k] = <<>>
  BY At DEF Arriving, Resting, Travelling
<1>4. sent \in AtMostTwo(Answers)
  <2>1. CASE up[k]
    <3>1. outbox[k] \in AtMostOne(Answers) /\ (outbox[k] # <<>> => answers # <<Refused>>)
      BY <1>3, <2>1, At, FrameTypes, ShortSteps DEF AtMostOne
    <3>2. answers \in AtMostOne(Answers)
      BY FrameTypes DEF AtMostOne
    <3>3. outbox[k] \o answers \in AtMostTwo(Answers)
      <4>1. CASE outbox[k] = <<>>
        BY <3>2, <4>1, ShortSteps DEF AtMostOne, AtMostTwo
      <4>2. CASE answers = <<>>
        BY <3>1, <4>2, ShortSteps DEF AtMostOne, AtMostTwo
      <4>3. ASSUME NEW a \in Answers, NEW b \in Answers, outbox[k] = <<a>>, answers = <<b>>
            PROVE  outbox[k] \o answers \in AtMostTwo(Answers)
        BY <4>3, ShortSteps DEF AtMostTwo
      <4> QED
        BY <3>1, <3>2, <4>1, <4>2, <4>3 DEF AtMostOne
    <3> QED
      BY <1>2, <2>1, <3>3
  <2>2. CASE ~up[k]
    BY <1>0, <1>2, <2>2 DEF Typed
  <2> QED
    BY <2>1, <2>2
<1>5. PICK left \in Prefixes(sent) : outbox' = [outbox EXCEPT ![k] = left]
  <2>1. sent \in Prefixes(sent)
    BY <1>4, ShortPrefixes DEF AtMostOne, AtMostTwo
  <2> HIDE DEF sent
  <2>2. \E left \in IF inbox[k] = <<>> THEN {sent} ELSE Prefixes(sent) :
          outbox' = [outbox EXCEPT ![k] = left]
    BY DEF sent, CloseAfter
  <2> QED
    BY <2>1, <2>2
<1>6. left \in AtMostTwo(Answers)
  BY <1>4, ShortPrefixes DEF AtMostOne, AtMostTwo
<1>7. Typed'
  BY <1>0, <1>1, <1>5, <1>6 DEF Typed, AtMostOne
<1>8. OthersStay(k)
  BY <1>0, <1>1, <1>5 DEF OthersStay, Typed
<1>9. /\ phase'[k] = "closed" /\ up'[k] = FALSE /\ inbox'[k] = <<>> /\ outbox'[k] = left
      /\ reader'[k] = reader[k] /\ current'[k] = Eof /\ executed'[k] = executed[k]
      /\ client'[k] = client[k] /\ request'[k] = request[k]
  BY <1>0, <1>1, <1>5 DEF Typed
<1>10. Fitting(k) # Bye /\ Welcome # Bye
  BY At, FrameTypes DEF Fitting
<1>11. /\ client[k] = "dialled" => sent = <<>>
       /\ client[k] = "greeting" => sent \in {<<>>, <<Welcome>>, <<Refused>>, <<Welcome, Bye>>}
       /\ client[k] = "ready" => sent \in {<<>>, <<Bye>>}
       /\ client[k] = "waiting" =>
            /\ sent \in {<<>>, <<Fitting(k)>>, <<Bye>>, <<Fitting(k), Bye>>}
            /\ sent = <<Bye>> => ~executed[k]
       /\ client[k] \in {"dialled", "greeting", "ready"} => ~executed[k]
  <2>1. CASE ~up[k]
    BY <1>0, <1>2, <2>1, At DEF Broken, Fresh
  <2>2. CASE up[k] /\ Arriving(k)
    BY <1>2, <1>3, <2>2, ShortSteps DEF Arriving
  <2>3. CASE up[k] /\ Resting(k)
    <3>1. answers \in {<<>>, <<Bye>>}
      BY <2>3 DEF Resting
    <3>2. /\ client[k] = "greeting" => outbox[k] = <<Welcome>> /\ ~executed[k]
          /\ client[k] = "ready" => outbox[k] = <<>> /\ ~executed[k]
          /\ client[k] = "waiting" => outbox[k] = <<Fitting(k)>>
          /\ client[k] # "dialled"
      BY <2>3 DEF Resting
    <3>3. sent = outbox[k] \o answers
      BY <1>2, <2>3
    <3> HIDE DEF sent
    <3>8. /\ <<Welcome>> \o <<Bye>> = <<Welcome, Bye>> /\ <<Welcome>> \o <<>> = <<Welcome>>
          /\ <<Fitting(k)>> \o <<Bye>> = <<Fitting(k), Bye>>
          /\ <<Fitting(k)>> \o <<>> = <<Fitting(k)>>
      <4>1. <<Welcome>> \o <<Bye>> = <<Welcome, Bye>>
            /\ <<Fitting(k)>> \o <<Bye>> = <<Fitting(k), Bye>>
        BY Appended, Zenon
      <4>2. <<Welcome>> \o <<>> = <<Welcome>> /\ <<Fitting(k)>> \o <<>> = <<Fitting(k)>>
        OBVIOUS
      <4> QED
        BY <4>1, <4>2
    <3>4. CASE client[k] = "greeting"
      BY <3>1, <3>2, <3>3, <3>4, <3>8
    <3>5. CASE client[k] = "ready"
      BY <3>1, <3>2, <3>3, <3>5, ShortSteps
    <3>6. CASE client[k] = "waiting"
      <4>1. sent \in {<<Fitting(k)>>, <<Fitting(k), Bye>>}
        BY <3>1, <3>2, <3>3, <3>6, <3>8
      <4>2. sent # <<Bye>>
        BY <4>1, <1>10, ShortSteps
      <4> QED
        BY <3>6, <4>1, <4>2
    <3>7. client[k] \in {"greeting", "ready", "waiting"}
      BY <2>3 DEF Resting
    <3> QED
      BY <3>4, <3>5, <3>6, <3>7
  <2>4. CASE up[k] /\ Travelling(k)
    BY <1>2, <2>4, ShortSteps, FrameTypes DEF Travelling
  <2> QED
    BY <2>1, <2>2, <2>3, <2>4, At
<1>12. /\ client[k] = "dialled" => left = <<>>
       /\ client[k] = "greeting" => left \in {<<>>, <<Welcome>>, <<Refused>>, <<Welcome, Bye>>}
       /\ client[k] = "ready" => left \in {<<>>, <<Bye>>}
       /\ client[k] = "waiting" =>
            /\ left \in {<<>>, <<Fitting(k)>>, <<Bye>>, <<Fitting(k), Bye>>}
            /\ left = <<Bye>> => ~executed[k]
  BY <1>5, <1>11, <1>10, ShortPrefixes, ShortSteps
<1>13. Broken(k)'
  BY <1>9, <1>11, <1>12 DEF Broken, Fitting, AtMostOne
<1>14. Sound(k)'
  BY <1>0, <1>9, <1>13 DEF Sound
<1> QED
  BY <1>7, <1>8, <1>14, OneConnection

\* The first message: a client is welcomed or refused, or is gone already.
LEMMA ReadFirstKeepsOrder ==
  ASSUME Orderly, NEW k \in Connections, ReadFirst(k)
  PROVE  Orderly'
<1>0. Typed /\ phase[k] = "first" /\ Unread(k) /\ client[k] # "away"
      /\ (up[k] => Arriving(k)) /\ (~up[k] => Broken(k))
  BY At DEF ReadFirst, Fresh, Arriving, Resting, Travelling, Broken, Sound
<1>1. UNCHANGED <<main, cancelled, listening, held, reads, current, executed, client, request>>
  BY DEF ReadFirst
<1>2. CASE /\ inbox[k] # <<>> /\ Head(inbox[k]).type = "auth"
           /\ inbox' = [inbox EXCEPT ![k] = Tail(@)]
           /\ Send(k, Msg("welcome", 0))
           /\ phase' = [phase EXCEPT ![k] = "serving"]
           /\ reader' = [reader EXCEPT ![k] = "reading"]
           /\ UNCHANGED up
  <2>1. Tail(inbox[k]) = <<>>
    <3>1. PICK f \in Frames : inbox[k] = <<f>>
      BY <1>0, <1>2 DEF Typed, AtMostOne
    <3> QED
      BY <3>1, ShortSteps, Zenon
  <2>2. Delivered(k, outbox, <<Welcome>>) = IF up[k] THEN <<Welcome>> ELSE outbox[k]
    BY <1>0, ShortSteps DEF Delivered, Arriving
  <2>3. /\ inbox' = [inbox EXCEPT ![k] = <<>>]
        /\ outbox' = [outbox EXCEPT ![k] = IF up[k] THEN <<Welcome>> ELSE outbox[k]]
    BY <1>2, <2>1, <2>2 DEF Send, Welcome
  <2>4. Typed'
    <3>1. <<Welcome>> \in AtMostTwo(Answers) /\ <<>> \in AtMostOne(Frames)
      BY FrameTypes, ShortTypes
    <3>2. outbox[k] \in AtMostTwo(Answers)
      BY <1>0 DEF Typed
    <3> QED
      BY <1>0, <1>1, <1>2, <2>3, <3>1, <3>2 DEF Typed
  <2>5. OthersStay(k)
    BY <1>0, <1>1, <1>2, <2>3 DEF OthersStay, Typed
  <2>6. /\ phase'[k] = "serving" /\ reader'[k] = "reading" /\ inbox'[k] = <<>>
        /\ up'[k] = up[k] /\ outbox'[k] = IF up[k] THEN <<Welcome>> ELSE outbox[k]
        /\ held'[k] = Eof /\ reads'[k] = <<>> /\ current'[k] = Eof
        /\ executed'[k] = executed[k] /\ client'[k] = client[k] /\ request'[k] = request[k]
    BY <1>0, <1>1, <1>2, <2>3 DEF Typed, Unread
  <2>7. CASE up[k]
    <3>1. client[k] = "greeting" /\ ~executed[k]
      BY <1>0, <1>2, <2>7 DEF Arriving
    <3>2. Resting(k)'
      BY <2>6, <2>7, <3>1 DEF Resting, Unread
    <3> QED
      BY <1>0, <2>4, <2>5, <2>6, <2>7, <3>2, OneConnection DEF Sound
  <2>8. CASE ~up[k]
    <3>1. Broken(k)'
      BY <1>0, <2>6, <2>8 DEF Broken, AtMostOne, Fitting
    <3> QED
      BY <1>0, <2>4, <2>5, <2>6, <3>1, OneConnection DEF Sound
  <2> QED
    BY <2>7, <2>8
<1>3. CASE /\ inbox[k] # <<>> /\ Head(inbox[k]).type # "auth"
           /\ CloseAfter(k, <<Msg("refused", 0)>>)
           /\ UNCHANGED reader
  <2>1. up[k] => client[k] = "greeting"
    BY <1>0, <1>3 DEF Arriving
  <2>2. CloseAfter(k, <<Refused>>)
    BY <1>3 DEF Refused
  <2>3. <<Refused>> # <<Bye>>
    BY FrameTypes, ShortSteps
  <2> QED
    BY <1>0, <1>1, <1>3, <2>1, <2>2, <2>3, CloseKeepsOrder DEF Unread
<1>4. CASE /\ inbox[k] = <<>> /\ ~up[k]
           /\ CloseAfter(k, <<>>)
           /\ UNCHANGED reader
  <2>1. <<>> # <<Refused>> /\ <<>> # <<Bye>>
    BY ShortSteps
  <2> QED
    BY <1>0, <1>1, <1>4, <2>1, CloseKeepsOrder DEF Unread
<1> QED
  BY <1>2, <1>3, <1>4 DEF ReadFirst

\* The reader goroutine takes the client's request off the connection, or notices that the
\* connection is broken.
LEMMA ReadFrameKeepsOrder ==
  ASSUME Orderly, NEW k \in Connections, ReadFrame(k)
  PROVE  Orderly'
<1>0. Typed /\ reader[k] = "reading" /\ client[k] # "away"
      /\ (up[k] => Resting(k) \/ Travelling(k)) /\ (~up[k] => Broken(k))
  BY At DEF ReadFrame, Fresh, Arriving, Broken, Sound
<1>1. UNCHANGED <<main, cancelled, listening, phase, reads, current, up, outbox, executed,
                  client, request>>
      /\ reader' = [reader EXCEPT ![k] = "sending"]
  BY DEF ReadFrame
<1>2. inbox[k] \in AtMostOne(Requests)
  <2>1. request[k] \in Requests
    BY At
  <2> QED
    BY <1>0, <2>1 DEF Resting, Travelling, Broken, AtMostOne
<1>3. CASE inbox[k] # <<>> /\ held' = [held EXCEPT ![k] = Head(inbox[k])]
           /\ inbox' = [inbox EXCEPT ![k] = Tail(@)]
  <2>1. PICK r \in Requests : inbox[k] = <<r>>
    BY <1>2, <1>3 DEF AtMostOne
  <2>2. held' = [held EXCEPT ![k] = r] /\ inbox' = [inbox EXCEPT ![k] = <<>>]
    BY <1>3, <2>1, ShortSteps
  <2>3. Typed'
    BY <1>0, <1>1, <2>2 DEF Typed, AtMostOne
  <2>4. OthersStay(k)
    BY <1>0, <1>1, <2>2 DEF OthersStay, Typed
  <2>5. /\ reader'[k] = "sending" /\ held'[k] = r /\ inbox'[k] = <<>>
        /\ phase'[k] = phase[k] /\ reads'[k] = reads[k] /\ current'[k] = current[k]
        /\ up'[k] = up[k] /\ outbox'[k] = outbox[k] /\ executed'[k] = executed[k]
        /\ client'[k] = client[k] /\ request'[k] = request[k]
    BY <1>0, <1>1, <2>2 DEF Typed
  <2>6. CASE up[k]
    <3>1. /\ Travelling(k) /\ r = request[k] /\ phase[k] = "serving"
          /\ Unread(k) /\ ~executed[k]
      BY <1>0, <2>1, <2>6, ShortSteps DEF Resting, Travelling
    <3>2. Travelling(k)'
      BY <2>5, <3>1 DEF Travelling, Unread
    <3> QED
      BY <1>0, <2>3, <2>4, <2>5, <2>6, <3>2, OneConnection DEF Sound
  <2>7. CASE ~up[k]
    <3>1. Broken(k)'
      BY <1>0, <2>5, <2>7 DEF Broken, AtMostOne, Fitting
    <3> QED
      BY <1>0, <2>3, <2>4, <2>5, <3>1, OneConnection DEF Sound
  <2> QED
    BY <2>6, <2>7
<1>4. CASE inbox[k] = <<>> /\ ~up[k] /\ held' = [held EXCEPT ![k] = Eof] /\ UNCHANGED inbox
  <2>1. Typed'
    BY <1>0, <1>1, <1>4 DEF Typed
  <2>2. OthersStay(k)
    BY <1>0, <1>1, <1>4 DEF OthersStay, Typed
  <2>3. /\ reader'[k] = "sending" /\ inbox'[k] = <<>>
        /\ phase'[k] = phase[k] /\ current'[k] = current[k]
        /\ up'[k] = up[k] /\ outbox'[k] = outbox[k] /\ executed'[k] = executed[k]
        /\ client'[k] = client[k] /\ request'[k] = request[k]
    BY <1>0, <1>1, <1>4 DEF Typed
  <2>4. Broken(k)'
    BY <1>0, <1>4, <2>3 DEF Broken, AtMostOne, Fitting
  <2> QED
    BY <1>0, <2>1, <2>2, <2>3, <2>4, OneConnection DEF Sound
<1> QED
  BY <1>3, <1>4 DEF ReadFrame

\* The reader goroutine hands the request over.
LEMMA SendReadKeepsOrder ==
  ASSUME Orderly, NEW k \in Connections, SendRead(k)
  PROVE  Orderly'
<1>0. Typed /\ reader[k] = "sending" /\ reads[k] = <<>> /\ client[k] # "away"
      /\ (up[k] => Travelling(k)) /\ (~up[k] => Broken(k))
  BY At DEF SendRead, Fresh, Arriving, Resting, Broken, Sound
<1>1. /\ UNCHANGED <<main, cancelled, listening, phase, current, up, inbox, outbox, executed,
                     client, request>>
      /\ reads' = [reads EXCEPT ![k] = <<held[k]>>]
      /\ held' = [held EXCEPT ![k] = Eof]
      /\ reader' = [reader EXCEPT ![k] = IF held[k] = Eof THEN "ended" ELSE "reading"]
  BY DEF SendRead, network
<1>2. Typed'
  BY <1>0, <1>1 DEF Typed, AtMostOne
<1>3. OthersStay(k)
  BY <1>0, <1>1 DEF OthersStay, Typed
<1>4. /\ reader'[k] = IF held[k] = Eof THEN "ended" ELSE "reading"
      /\ held'[k] = Eof /\ reads'[k] = <<held[k]>> /\ inbox'[k] = inbox[k]
      /\ phase'[k] = phase[k] /\ current'[k] = current[k]
      /\ up'[k] = up[k] /\ outbox'[k] = outbox[k] /\ executed'[k] = executed[k]
      /\ client'[k] = client[k] /\ request'[k] = request[k]
  BY <1>0, <1>1 DEF Typed
<1>5. CASE up[k]
  <2>1. held[k] = request[k] /\ held[k] # Eof
    BY <1>0, <1>5, At, FrameTypes DEF Travelling
  <2>2. Travelling(k)'
    BY <1>0, <1>4, <1>5, <2>1 DEF Travelling
  <2> QED
    BY <1>0, <1>2, <1>3, <1>4, <1>5, <2>2, OneConnection DEF Sound
<1>6. CASE ~up[k]
  <2>1. Broken(k)'
    BY <1>0, <1>4, <1>6 DEF Broken, Fitting
  <2> QED
    BY <1>0, <1>2, <1>3, <1>4, <2>1, OneConnection DEF Sound
<1> QED
  BY <1>5, <1>6

\* The select: a shutdown notice, or the request that was read.
LEMMA SelectKeepsOrder ==
  ASSUME Orderly, NEW k \in Connections, Select(k)
  PROVE  Orderly'
<1>0. Typed /\ phase[k] = "serving" /\ client[k] # "away" /\ current[k] = Eof
      /\ (up[k] => Resting(k) \/ Travelling(k)) /\ (~up[k] => Broken(k))
  BY At DEF Select, SelectDone, SelectRead, Fresh, Arriving, Resting, Travelling, Broken,
            Unread, Sound
<1>1. CASE SelectDone(k)
  <2>1. CloseAfter(k, <<Bye>>)
    BY <1>1 DEF SelectDone, Bye
  <2>2. <<Bye>> # <<Refused>>
    BY FrameTypes, ShortSteps
  <2> QED
    BY <1>0, <1>1, <2>1, <2>2, CloseKeepsOrder DEF SelectDone
<1>2. CASE SelectRead(k) /\ reads[k] = <<Eof>>
  <2>1. <<>> # <<Refused>> /\ <<>> # <<Bye>>
    BY ShortSteps
  <2> QED
    BY <1>0, <1>2, <2>1, CloseKeepsOrder DEF SelectRead
<1>3. CASE SelectRead(k) /\ reads[k] # <<Eof>>
  <2>1. PICK r \in Requests : reads[k] = <<r>>
    BY <1>0, <1>3 DEF SelectRead, Typed, AtMostOne
  <2>2. /\ UNCHANGED <<main, cancelled, listening, reader, held, up, inbox, outbox, executed,
                       client, request>>
        /\ reads' = [reads EXCEPT ![k] = <<>>]
        /\ phase' = [phase EXCEPT ![k] = "handling"]
        /\ current' = [current EXCEPT ![k] = r]
    BY <1>3, <2>1, ShortSteps DEF SelectRead, network
  <2>3. Typed'
    BY <1>0, <2>2 DEF Typed, AtMostOne
  <2>4. OthersStay(k)
    BY <1>0, <2>2 DEF OthersStay, Typed
  <2>5. /\ phase'[k] = "handling" /\ current'[k] = r /\ reads'[k] = <<>>
        /\ reader'[k] = reader[k] /\ held'[k] = held[k] /\ inbox'[k] = inbox[k]
        /\ up'[k] = up[k] /\ outbox'[k] = outbox[k] /\ executed'[k] = executed[k]
        /\ client'[k] = client[k] /\ request'[k] = request[k]
    BY <1>0, <2>2 DEF Typed
  <2>6. CASE up[k]
    <3>1. /\ Travelling(k) /\ r = request[k] /\ reader[k] = "reading" /\ held[k] = Eof
          /\ inbox[k] = <<>> /\ ~executed[k]
      BY <1>0, <2>1, <2>6, ShortSteps DEF Resting, Travelling, Unread
    <3>2. Travelling(k)'
      BY <2>5, <3>1 DEF Travelling
    <3> QED
      BY <1>0, <2>3, <2>4, <2>5, <2>6, <3>2, OneConnection DEF Sound
  <2>7. CASE ~up[k]
    <3>1. r # Eof
      BY FrameTypes
    <3>2. Broken(k)'
      BY <1>0, <2>5, <2>7, <3>1 DEF Broken, Fitting
    <3> QED
      BY <1>0, <2>3, <2>4, <2>5, <3>2, OneConnection DEF Sound
  <2> QED
    BY <2>6, <2>7
<1> QED
  BY <1>1, <1>2, <1>3 DEF Select

\* The handler runs: the client's command takes effect, once.
LEMMA HandleKeepsOrder ==
  ASSUME Orderly, NEW k \in Connections, Handle(k)
  PROVE  Orderly'
<1>0. Typed /\ phase[k] = "handling" /\ client[k] # "away"
      /\ (up[k] => Travelling(k)) /\ (~up[k] => Broken(k))
  BY At DEF Handle, Fresh, Arriving, Resting, Broken, Sound
<1>1. /\ UNCHANGED <<main, cancelled, listening, reader, held, reads, current, up, inbox,
                     outbox, client, request>>
      /\ phase' = [phase EXCEPT ![k] = "replying"]
  BY DEF Handle, network
<1>2. executed' \in [Connections -> BOOLEAN]
      /\ \A j \in Connections \ {k} : executed'[j] = executed[j]
  BY <1>0 DEF Handle, Typed
<1>3. client[k] # "waiting" => executed'[k] = executed[k] \/ executed'[k] = FALSE
  BY <1>0 DEF Handle, Typed
<1>4. Typed'
  BY <1>0, <1>1, <1>2 DEF Typed
<1>5. OthersStay(k)
  BY <1>0, <1>1, <1>2 DEF OthersStay, Typed
<1>6. /\ phase'[k] = "replying" /\ current'[k] = current[k] /\ reads'[k] = reads[k]
      /\ reader'[k] = reader[k] /\ held'[k] = held[k] /\ inbox'[k] = inbox[k]
      /\ up'[k] = up[k] /\ outbox'[k] = outbox[k]
      /\ client'[k] = client[k] /\ request'[k] = request[k]
  BY <1>0, <1>1 DEF Typed
<1>7. CASE up[k]
  <2>1. Travelling(k)'
    BY <1>0, <1>6, <1>7 DEF Travelling
  <2> QED
    BY <1>0, <1>4, <1>5, <1>6, <1>7, <2>1, OneConnection DEF Sound
<1>8. CASE ~up[k]
  <2>1. client[k] = "waiting" => outbox[k] # <<Bye>>
    <3>1. SUFFICES ASSUME client[k] = "waiting" PROVE outbox[k] # <<Bye>>
      OBVIOUS
    <3>2. outbox[k] \in {<<>>, <<Welcome>>, <<Fitting(k)>>}
      BY <1>0, <1>8, <3>1 DEF Broken
    <3>3. Welcome # Bye /\ Fitting(k) # Bye
      BY At, FrameTypes DEF Fitting
    <3> QED
      BY <3>2, <3>3, ShortSteps
  <2>2. Broken(k)'
    BY <1>0, <1>3, <1>6, <1>8, <2>1 DEF Broken, Fitting
  <2> QED
    BY <1>0, <1>4, <1>5, <1>6, <2>2, OneConnection DEF Sound
<1> QED
  BY <1>7, <1>8

\* The response is written, or the connection is closed without it.
LEMMA ReplyKeepsOrder ==
  ASSUME Orderly, NEW k \in Connections, Reply(k)
  PROVE  Orderly'
<1>0. Typed /\ phase[k] = "replying" /\ client[k] # "away"
      /\ (up[k] => Travelling(k)) /\ (~up[k] => Broken(k))
  BY At DEF Reply, Fresh, Arriving, Resting, Broken, Sound
<1>1. UNCHANGED <<main, cancelled, listening, reader, held, reads, executed, client, request>>
      /\ current' = [current EXCEPT ![k] = Eof]
  BY DEF Reply
<1>2. CASE CloseAfter(k, <<>>)
  <2>1. <<>> # <<Refused>> /\ <<>> # <<Bye>>
    BY ShortSteps
  <2> QED
    BY <1>0, <1>1, <1>2, <2>1, CloseKeepsOrder
<1>3. CASE Send(k, Answered(k)) /\ phase' = [phase EXCEPT ![k] = "serving"]
           /\ UNCHANGED <<up, inbox>>
  <2>1. up[k] => Answered(k) = Fitting(k) /\ outbox[k] = <<>>
    BY <1>0 DEF Travelling, Answered, Fitting
  <2>2. Delivered(k, outbox, <<Answered(k)>>) = IF up[k] THEN <<Fitting(k)>> ELSE outbox[k]
    BY <2>1, ShortSteps DEF Delivered
  <2>3. outbox' = [outbox EXCEPT ![k] = IF up[k] THEN <<Fitting(k)>> ELSE outbox[k]]
    BY <1>3, <2>2 DEF Send
  <2>4. <<Fitting(k)>> \in AtMostTwo(Answers)
    BY At, ShortTypes
  <2>5. Typed'
    <3>1. outbox[k] \in AtMostTwo(Answers)
      BY <1>0 DEF Typed
    <3> QED
      BY <1>0, <1>1, <1>3, <2>3, <2>4, <3>1 DEF Typed
  <2>6. OthersStay(k)
    BY <1>0, <1>1, <1>3, <2>3 DEF OthersStay, Typed
  <2>7. /\ phase'[k] = "serving" /\ current'[k] = Eof /\ reads'[k] = reads[k]
        /\ reader'[k] = reader[k] /\ held'[k] = held[k] /\ inbox'[k] = inbox[k]
        /\ up'[k] = up[k] /\ outbox'[k] = IF up[k] THEN <<Fitting(k)>> ELSE outbox[k]
        /\ executed'[k] = executed[k] /\ client'[k] = client[k] /\ request'[k] = request[k]
    BY <1>0, <1>1, <1>3, <2>3 DEF Typed
  <2>8. CASE up[k]
    <3>1. client[k] = "waiting" /\ reader[k] = "reading" /\ inbox[k] = <<>> /\ held[k] = Eof
          /\ reads[k] = <<>>
      BY <1>0, <2>8 DEF Travelling
    <3>2. Resting(k)'
      BY <2>7, <2>8, <3>1 DEF Resting, Unread, Fitting
    <3> QED
      BY <1>0, <2>5, <2>6, <2>7, <2>8, <3>2, OneConnection DEF Sound
  <2>9. CASE ~up[k]
    <3>1. Broken(k)'
      BY <1>0, <2>7, <2>9 DEF Broken, Fitting
    <3> QED
      BY <1>0, <2>5, <2>6, <2>7, <2>9, <3>1, OneConnection DEF Sound
  <2> QED
    BY <2>8, <2>9
<1> QED
  BY <1>2, <1>3 DEF Reply

----------------------------------------
(* The client's steps, and the network's.                                  *)

\* A new connection waits to be accepted, with nothing on its way.
LEMMA DialKeepsOrder ==
  ASSUME Orderly, NEW k \in Connections, Dial(k)
  PROVE  Orderly'
<1>0. Typed /\ Fresh(k)
  BY At DEF Dial, Sound
<1>1. /\ UNCHANGED <<main, cancelled, listening, reader, held, reads, current, inbox, outbox,
                     executed, request>>
      /\ client' = [client EXCEPT ![k] = "dialled"]
      /\ phase' = [phase EXCEPT ![k] = "backlog"]
      /\ up' = [up EXCEPT ![k] = TRUE]
  BY DEF Dial
<1>2. Typed'
  BY <1>0, <1>1 DEF Typed
<1>3. OthersStay(k)
  BY <1>0, <1>1 DEF OthersStay, Typed
<1>4. /\ phase'[k] = "backlog" /\ current'[k] = current[k] /\ reads'[k] = reads[k]
      /\ reader'[k] = reader[k] /\ held'[k] = held[k] /\ inbox'[k] = inbox[k]
      /\ up'[k] = TRUE /\ outbox'[k] = outbox[k]
      /\ executed'[k] = executed[k] /\ client'[k] = "dialled"
  BY <1>0, <1>1 DEF Typed
<1>5. Arriving(k)'
  BY <1>0, <1>4 DEF Fresh, Arriving, Unread
<1> QED
  BY <1>2, <1>3, <1>4, <1>5, OneConnection DEF Sound

\* The first frame is on its way to a handler that has not begun.
LEMMA SendFirstKeepsOrder ==
  ASSUME Orderly, NEW k \in Connections, SendFirst(k)
  PROVE  Orderly'
<1>0. Typed /\ client[k] = "dialled" /\ (up[k] => Arriving(k)) /\ (~up[k] => Broken(k))
  BY At DEF SendFirst, Resting, Travelling, Broken, Sound
<1>1. PICK f \in Hellos : Write(k, f)
  BY FrameTypes DEF SendFirst
<1>2. /\ UNCHANGED <<main, cancelled, listening, phase, reader, held, reads, current, up, outbox,
                     executed, request>>
      /\ client' = [client EXCEPT ![k] = "greeting"]
  BY DEF SendFirst, server
<1>3. inbox' = [inbox EXCEPT ![k] = IF up[k] THEN <<f>> ELSE inbox[k]]
  <2>1. up[k] => inbox[k] = <<>>
    BY <1>0 DEF Arriving
  <2>2. Delivered(k, inbox, <<f>>) = IF up[k] THEN <<f>> ELSE inbox[k]
    BY <2>1, ShortSteps DEF Delivered
  <2> QED
    BY <1>1, <2>2 DEF Write
<1>4. <<f>> \in AtMostOne(Frames)
  BY FrameTypes, Zenon DEF AtMostOne
<1>5. Typed'
  <2>1. inbox[k] \in AtMostOne(Frames)
    BY <1>0 DEF Typed
  <2> QED
    BY <1>0, <1>2, <1>3, <1>4, <2>1 DEF Typed
<1>6. OthersStay(k)
  BY <1>0, <1>2, <1>3 DEF OthersStay, Typed
<1>7. /\ phase'[k] = phase[k] /\ current'[k] = current[k] /\ reads'[k] = reads[k]
      /\ reader'[k] = reader[k] /\ held'[k] = held[k]
      /\ inbox'[k] = IF up[k] THEN <<f>> ELSE inbox[k]
      /\ up'[k] = up[k] /\ outbox'[k] = outbox[k]
      /\ executed'[k] = executed[k] /\ client'[k] = "greeting" /\ request'[k] = request[k]
  BY <1>0, <1>2, <1>3 DEF Typed
<1>8. CASE up[k]
  <2>1. Arriving(k)'
    BY <1>0, <1>7, <1>8 DEF Arriving, Unread
  <2> QED
    BY <1>5, <1>6, <1>7, <1>8, <2>1, OneConnection DEF Sound
<1>9. CASE ~up[k]
  <2>1. Broken(k)'
    BY <1>0, <1>7, <1>9 DEF Broken, Fitting, Unread
  <2> QED
    BY <1>5, <1>6, <1>7, <2>1, OneConnection DEF Sound
<1> QED
  BY <1>8, <1>9

\* The client reads the answer to its first message.
LEMMA ReceiveGreetingKeepsOrder ==
  ASSUME Orderly, NEW k \in Connections, ReceiveGreeting(k)
  PROVE  Orderly'
<1>0. Typed /\ client[k] = "greeting"
      /\ (up[k] => Arriving(k) \/ Resting(k)) /\ (~up[k] => Broken(k))
  BY At DEF ReceiveGreeting, Travelling, Broken, Sound
<1>1. UNCHANGED <<main, cancelled, listening, phase, reader, held, reads, current, up, inbox,
                  executed, request>>
  BY DEF ReceiveGreeting, server
<1>2. /\ outbox[k] \in {<<>>, <<Welcome>>, <<Refused>>, <<Welcome, Bye>>}
      /\ up[k] => outbox[k] \in {<<>>, <<Welcome>>}
      /\ phase[k] # "closed" => outbox[k] \in {<<>>, <<Welcome>>, <<Fitting(k)>>}
      /\ ~executed[k]
  BY <1>0 DEF Arriving, Resting, Broken
<1>3. CASE /\ outbox[k] # <<>> /\ outbox' = [outbox EXCEPT ![k] = Tail(@)]
           /\ client' = [client EXCEPT ![k] =
                IF Head(outbox[k]).type = "welcome" THEN "ready" ELSE "gone"]
  <2>1. Tail(<<Welcome>>) = <<>> /\ Head(<<Welcome>>) = Welcome
        /\ Tail(<<Refused>>) = <<>> /\ Head(<<Refused>>) = Refused
        /\ Tail(<<Welcome, Bye>>) = <<Bye>> /\ Head(<<Welcome, Bye>>) = Welcome
    OBVIOUS
  <2>2. /\ Tail(outbox[k]) \in {<<>>, <<Bye>>}
        /\ Tail(outbox[k]) = <<Bye>> => outbox[k] = <<Welcome, Bye>>
    BY <1>2, <1>3, <2>1, ShortSteps
  <2>3. <<Welcome, Bye>> # <<Welcome>> /\ <<Welcome, Bye>> # <<>>
        /\ <<Welcome, Bye>> # <<Fitting(k)>>
    BY ShortSteps, Zenon
  <2>4. Tail(outbox[k]) = <<Bye>> => phase[k] = "closed" /\ ~up[k]
    BY <1>2, <2>2, <2>3
  <2>5. Tail(outbox[k]) \in AtMostTwo(Answers)
    <3>1. <<>> \in AtMostTwo(Answers) /\ <<Bye>> \in AtMostTwo(Answers)
      BY FrameTypes, ShortTypes
    <3> QED
      BY <2>2, <3>1
  <2>6. Typed'
    BY <1>0, <1>1, <1>3, <2>5 DEF Typed
  <2>7. OthersStay(k)
    BY <1>0, <1>1, <1>3 DEF OthersStay, Typed
  <2>8. /\ phase'[k] = phase[k] /\ current'[k] = current[k] /\ reads'[k] = reads[k]
        /\ reader'[k] = reader[k] /\ held'[k] = held[k] /\ inbox'[k] = inbox[k]
        /\ up'[k] = up[k] /\ outbox'[k] = Tail(outbox[k]) /\ executed'[k] = executed[k]
        /\ client'[k] = IF Head(outbox[k]).type = "welcome" THEN "ready" ELSE "gone"
        /\ request'[k] = request[k]
    BY <1>0, <1>1, <1>3 DEF Typed
  <2>9. CASE up[k]
    <3>1. Resting(k) /\ Head(outbox[k]).type = "welcome" /\ Tail(outbox[k]) = <<>>
      BY <1>0, <1>2, <1>3, <2>1, <2>9, FrameTypes DEF Arriving
    <3>2. Resting(k)'
      BY <1>0, <1>2, <2>8, <3>1 DEF Resting, Unread
    <3> QED
      BY <2>6, <2>7, <2>8, <2>9, <3>1, <3>2, OneConnection DEF Sound
  <2>10. CASE ~up[k]
    <3>1. Broken(k)'
      BY <1>0, <1>2, <2>2, <2>4, <2>8, <2>10 DEF Broken, Fitting, Unread
    <3> QED
      BY <2>6, <2>7, <2>8, <3>1, OneConnection DEF Sound
  <2> QED
    BY <2>9, <2>10
<1>4. CASE /\ outbox[k] = <<>> /\ ~up[k] /\ client' = [client EXCEPT ![k] = "gone"]
           /\ UNCHANGED outbox
  <2>1. Typed'
    BY <1>0, <1>1, <1>4 DEF Typed
  <2>2. OthersStay(k)
    BY <1>0, <1>1, <1>4 DEF OthersStay, Typed
  <2>3. client'[k] = "gone"
    BY <1>0, <1>4 DEF Typed
  <2>4. Broken(k)'
    BY <1>0, <1>1, <1>4, <2>3 DEF Broken, Unread
  <2> QED
    BY <2>1, <2>2, <2>3, <2>4, OneConnection DEF Sound
<1> QED
  BY <1>3, <1>4 DEF ReceiveGreeting

\* A client that waits for nothing sends a request.
LEMMA CallKeepsOrder ==
  ASSUME Orderly, NEW k \in Connections, NEW type \in {"command", "ping"}, Call(k, type)
  PROVE  Orderly'
<1> DEFINE r == Msg(type, 1 - request[k].tag)
<1>0. Typed /\ client[k] = "ready" /\ (up[k] => Resting(k)) /\ (~up[k] => Broken(k))
      /\ r \in Requests /\ r \in Frames
  BY At, FrameTypes DEF Call, Arriving, Travelling, Broken, Sound
<1> HIDE DEF r
<1>1. /\ UNCHANGED <<main, cancelled, listening, phase, reader, held, reads, current, up, outbox,
                     executed>>
      /\ client' = [client EXCEPT ![k] = "waiting"]
      /\ request' = [request EXCEPT ![k] = r]
  BY DEF Call, server, r
<1>2. request'[k] = r
  BY <1>0, <1>1 DEF Typed
<1>3. inbox' = [inbox EXCEPT ![k] = IF up[k] THEN <<r>> ELSE inbox[k]]
  <2>1. up[k] => inbox[k] = <<>>
    BY <1>0 DEF Resting
  <2>2. Delivered(k, inbox, <<r>>) = IF up[k] THEN <<r>> ELSE inbox[k]
    BY <2>1, ShortSteps DEF Delivered
  <2> QED
    BY <1>2, <2>2 DEF Call, Write
<1>4. <<r>> \in AtMostOne(Frames)
  BY <1>0, Zenon DEF AtMostOne
<1>5. Typed'
  <2>1. inbox[k] \in AtMostOne(Frames)
    BY <1>0 DEF Typed
  <2> QED
    BY <1>0, <1>1, <1>3, <1>4, <2>1 DEF Typed
<1>6. OthersStay(k)
  BY <1>0, <1>1, <1>3 DEF OthersStay, Typed
<1>7. /\ phase'[k] = phase[k] /\ current'[k] = current[k] /\ reads'[k] = reads[k]
      /\ reader'[k] = reader[k] /\ held'[k] = held[k]
      /\ inbox'[k] = IF up[k] THEN <<r>> ELSE inbox[k]
      /\ up'[k] = up[k] /\ outbox'[k] = outbox[k]
      /\ executed'[k] = executed[k] /\ client'[k] = "waiting" /\ request'[k] = r
  BY <1>0, <1>1, <1>3 DEF Typed
<1>8. CASE up[k]
  <2>1. Travelling(k)'
    BY <1>0, <1>7, <1>8 DEF Resting, Travelling, Unread
  <2> QED
    BY <1>5, <1>6, <1>7, <1>8, <2>1, OneConnection DEF Sound
<1>9. CASE ~up[k]
  <2>1. /\ outbox[k] \in {<<>>, <<Bye>>} /\ ~executed[k]
        /\ phase[k] # "closed" => outbox[k] = <<>>
    <3>1. outbox[k] \in {<<>>, <<Bye>>} /\ ~executed[k]
      BY <1>0, <1>9 DEF Broken
    <3>2. <<Bye>> # <<Welcome>> /\ <<Bye>> # <<Fitting(k)>> /\ <<Bye>> # <<>>
      BY At, FrameTypes, ShortSteps DEF Fitting
    <3>3. phase[k] # "closed" => outbox[k] \in {<<>>, <<Welcome>>, <<Fitting(k)>>}
      BY <1>0, <1>9 DEF Broken
    <3> QED
      BY <3>1, <3>2, <3>3
  <2>2. Broken(k)'
    BY <1>0, <1>7, <1>9, <2>1 DEF Broken, Unread
  <2> QED
    BY <1>5, <1>6, <1>7, <2>2, OneConnection DEF Sound
<1> QED
  BY <1>8, <1>9

\* The client reads the answer to its request, or that there will be none.
LEMMA ReceiveKeepsOrder ==
  ASSUME Orderly, NEW k \in Connections, Receive(k)
  PROVE  Orderly'
<1>0. Typed /\ client[k] = "waiting"
      /\ (up[k] => Resting(k) \/ Travelling(k)) /\ (~up[k] => Broken(k))
  BY At DEF Receive, Arriving, Broken, Sound
<1>1. UNCHANGED <<main, cancelled, listening, phase, reader, held, reads, current, up, inbox,
                  request>>
      /\ executed' = [executed EXCEPT ![k] = FALSE]
  BY DEF Receive, server
<1>2. /\ outbox[k] \in {<<>>, <<Fitting(k)>>, <<Bye>>, <<Fitting(k), Bye>>}
      /\ up[k] => outbox[k] \in {<<>>, <<Fitting(k)>>}
      /\ phase[k] # "closed" => outbox[k] \in {<<>>, <<Welcome>>, <<Fitting(k)>>}
  BY <1>0 DEF Resting, Travelling, Broken
<1>3. Fitting(k).type = "reply" /\ Fitting(k) # Bye /\ Bye.type = "bye"
  BY At, FrameTypes DEF Fitting
<1>4. CASE /\ outbox[k] # <<>> /\ outbox' = [outbox EXCEPT ![k] = Tail(@)]
           /\ IF Head(outbox[k]).type = "bye" THEN Notice(k) ELSE GoOn(k)
  <2>1. Tail(<<Fitting(k)>>) = <<>> /\ Head(<<Fitting(k)>>) = Fitting(k)
        /\ Tail(<<Bye>>) = <<>> /\ Head(<<Bye>>) = Bye
        /\ Tail(<<Fitting(k), Bye>>) = <<Bye>> /\ Head(<<Fitting(k), Bye>>) = Fitting(k)
    OBVIOUS
  <2>2. /\ Tail(outbox[k]) \in {<<>>, <<Bye>>}
        /\ Tail(outbox[k]) = <<Bye>> => outbox[k] = <<Fitting(k), Bye>>
    BY <1>2, <1>4, <2>1, ShortSteps
  <2>3. <<Fitting(k), Bye>> # <<Welcome>> /\ <<Fitting(k), Bye>> # <<>>
        /\ <<Fitting(k), Bye>> # <<Fitting(k)>>
    BY ShortSteps, Zenon
  <2>4. Tail(outbox[k]) = <<Bye>> => phase[k] = "closed" /\ ~up[k]
    BY <1>2, <2>2, <2>3
  <2>5. Tail(outbox[k]) \in AtMostTwo(Answers)
    <3>1. <<>> \in AtMostTwo(Answers) /\ <<Bye>> \in AtMostTwo(Answers)
      BY FrameTypes, ShortTypes
    <3> QED
      BY <2>2, <3>1
  <2>0. PICK next \in {"disconnected", "ready"} :
            /\ client' = [client EXCEPT ![k] = next]
            /\ Head(outbox[k]).type # "bye" => next = "ready"
    BY <1>4 DEF Notice, GoOn
  <2>6. Typed'
    BY <1>0, <1>1, <1>4, <2>5, <2>0 DEF Typed
  <2>7. OthersStay(k)
    BY <1>0, <1>1, <1>4, <2>0 DEF OthersStay, Typed
  <2>8. /\ phase'[k] = phase[k] /\ current'[k] = current[k] /\ reads'[k] = reads[k]
        /\ reader'[k] = reader[k] /\ held'[k] = held[k] /\ inbox'[k] = inbox[k]
        /\ up'[k] = up[k] /\ outbox'[k] = Tail(outbox[k]) /\ executed'[k] = FALSE
        /\ client'[k] \in {"disconnected", "ready"}
        /\ Head(outbox[k]).type # "bye" => client'[k] = "ready"
        /\ request'[k] = request[k]
    BY <1>0, <1>1, <1>4, <2>0 DEF Typed
  <2>9. CASE up[k]
    <3>1. Head(outbox[k]).type # "bye" /\ Tail(outbox[k]) = <<>> /\ Resting(k)
      BY <1>0, <1>2, <1>3, <1>4, <2>1, <2>9 DEF Travelling
    <3>2. Resting(k)'
      BY <1>0, <1>2, <2>8, <3>1 DEF Resting, Unread
    <3> QED
      BY <2>6, <2>7, <2>8, <2>9, <3>1, <3>2, OneConnection DEF Sound
  <2>10. CASE ~up[k]
    <3>1. Broken(k)'
      BY <1>0, <1>2, <2>2, <2>4, <2>8, <2>10 DEF Broken, Fitting, Unread
    <3> QED
      BY <2>6, <2>7, <2>8, <3>1, OneConnection DEF Sound
  <2> QED
    BY <2>9, <2>10
<1>5. CASE /\ outbox[k] = <<>> /\ ~up[k] /\ UNCHANGED outbox
           /\ IF request[k].type = "ping" THEN Notice(k) ELSE GoOn(k)
  <2>0. PICK next \in {"disconnected", "ready"} : client' = [client EXCEPT ![k] = next]
    BY <1>5 DEF Notice, GoOn
  <2>1. Typed'
    BY <1>0, <1>1, <1>5, <2>0 DEF Typed
  <2>2. OthersStay(k)
    BY <1>0, <1>1, <1>5, <2>0 DEF OthersStay, Typed
  <2>3. client'[k] \in {"disconnected", "ready"} /\ executed'[k] = FALSE
    BY <1>0, <1>1, <1>5, <2>0 DEF Typed
  <2>4. Broken(k)'
    BY <1>0, <1>1, <1>5, <2>3 DEF Broken, Unread
  <2> QED
    BY <2>1, <2>2, <2>3, <2>4, OneConnection DEF Sound
<1> QED
  BY <1>4, <1>5 DEF Receive

\* The connection breaks: what had arrived is still there to be read.
LEMMA BreakKeepsOrder ==
  ASSUME Orderly, NEW k \in Connections, Break(k)
  PROVE  Orderly'
<1>0. Typed /\ up[k] /\ client[k] \in {"dialled", "greeting", "ready", "waiting"}
      /\ (Arriving(k) \/ Resting(k) \/ Travelling(k))
  BY At DEF Break
<1>1. /\ UNCHANGED <<main, cancelled, listening, phase, reader, held, reads, current, executed,
                     request>>
      /\ up' = [up EXCEPT ![k] = FALSE]
      /\ client' \in {client, [client EXCEPT ![k] = "gone"]}
  BY DEF Break, server
<1>2. PICK sent \in Prefixes(inbox[k]) : inbox' = [inbox EXCEPT ![k] = sent]
  BY DEF Break
<1>3. PICK left \in Prefixes(outbox[k]) : outbox' = [outbox EXCEPT ![k] = left]
  BY DEF Break
<1>4. sent = <<>> \/ sent = inbox[k]
  <2>1. inbox[k] \in AtMostOne(Frames)
    BY <1>0 DEF Typed
  <2> QED
    BY <1>2, <2>1, ShortPrefixes DEF AtMostOne
<1>5. left = <<>> \/ left = outbox[k]
  <2>1. outbox[k] \in {<<>>, <<Welcome>>, <<Fitting(k)>>}
    BY <1>0 DEF Arriving, Resting, Travelling
  <2> QED
    BY <1>3, <2>1, ShortPrefixes
<1>6. Typed'
  <2>1. sent \in AtMostOne(Frames) /\ left \in AtMostTwo(Answers)
    BY <1>0, <1>4, <1>5, ShortTypes DEF Typed
  <2> QED
    BY <1>0, <1>1, <1>2, <1>3, <2>1 DEF Typed
<1>7. OthersStay(k)
  BY <1>0, <1>1, <1>2, <1>3 DEF OthersStay, Typed
<1>8. /\ phase'[k] = phase[k] /\ current'[k] = current[k] /\ reads'[k] = reads[k]
      /\ reader'[k] = reader[k] /\ held'[k] = held[k] /\ inbox'[k] = sent
      /\ up'[k] = FALSE /\ outbox'[k] = left /\ executed'[k] = executed[k]
      /\ client'[k] \in {client[k], "gone"} /\ request'[k] = request[k]
  BY <1>0, <1>1, <1>2, <1>3 DEF Typed
<1>9. Broken(k)'
  <2>1. CASE Arriving(k)
    BY <1>5, <1>8, <2>1 DEF Arriving, Broken, Unread
  <2>2. CASE Resting(k)
    <3>1. inbox'[k] = <<>> /\ <<>> \in AtMostOne(Requests)
      BY <1>4, <1>8, <2>2, ShortTypes DEF Resting
    <3>2. Welcome # Bye /\ Fitting(k) # Bye
      BY At, FrameTypes DEF Fitting
    <3>3. left # <<Bye>>
      BY <1>5, <2>2, <3>2, ShortSteps DEF Resting
    <3> QED
      BY <1>5, <1>8, <2>2, <3>1, <3>3 DEF Resting, Broken, Fitting, Unread
  <2>3. CASE Travelling(k)
    <3>1. request[k] # Eof /\ request[k] \in Requests
      BY At, FrameTypes
    <3>2. sent \in AtMostOne(Requests)
      BY <1>4, <2>3, <3>1, ShortTypes DEF Travelling
    <3>3. left = <<>> /\ left # <<Bye>>
      BY <1>5, <2>3, ShortSteps DEF Travelling
    <3> QED
      BY <1>8, <2>3, <3>1, <3>2, <3>3 DEF Travelling, Broken, Unread
  <2> QED
    BY <1>0, <2>1, <2>2, <2>3
<1> QED
  BY <1>0, <1>6, <1>7, <1>8, <1>9, OneConnection DEF Sound

----------------------------------------
(* The steps of ListenAndServe.                                            *)

\* A handler and a reader begin, with the first frame at most before them.
LEMMA AcceptKeepsOrder ==
  ASSUME Orderly, NEW k \in Connections, Accept(k)
  PROVE  Orderly'
<1>0. Typed /\ phase[k] = "backlog" /\ client[k] # "away"
      /\ (up[k] => Arriving(k)) /\ (~up[k] => Broken(k))
  BY At DEF Accept, Fresh, Resting, Travelling, Broken, Sound
<1>1. /\ UNCHANGED <<main, cancelled, listening, reader, held, reads, current, up, inbox, outbox,
                     executed, client, request>>
      /\ phase' = [phase EXCEPT ![k] = "first"]
  BY DEF Accept, network
<1>2. Typed'
  BY <1>0, <1>1 DEF Typed
<1>3. OthersStay(k)
  BY <1>0, <1>1 DEF OthersStay, Typed
<1>4. phase'[k] = "first"
  BY <1>0, <1>1 DEF Typed
<1>5. CASE up[k]
  <2>1. Arriving(k)'
    BY <1>0, <1>1, <1>4, <1>5 DEF Arriving, Unread
  <2> QED
    BY <1>0, <1>1, <1>2, <1>3, <1>5, <2>1, OneConnection DEF Sound
<1>6. CASE ~up[k]
  <2>1. Broken(k)'
    BY <1>0, <1>1, <1>4, <1>6 DEF Broken, Fitting, Unread
  <2> QED
    BY <1>0, <1>1, <1>2, <1>3, <2>1, OneConnection DEF Sound
<1> QED
  BY <1>5, <1>6

\* What ListenAndServe does beside the connections leaves them as they are.
LEMMA MainKeepsOrder ==
  ASSUME Orderly, Cancel \/ StopAccepting \/ UNCHANGED vars
  PROVE  Orderly'
<1>1. /\ UNCHANGED <<phase, reader, held, reads, current, up, inbox, outbox, executed, client,
                     request>>
      /\ Typed => Typed'
  BY DEF Cancel, StopAccepting, vars, server, network, Typed
<1>2. Typed'
  BY <1>1 DEF Orderly
<1>3. \A j \in Connections : Sound(j)'
  BY <1>1, SoundStays DEF Orderly
<1> QED
  BY <1>2, <1>3 DEF Orderly

\* The kernel drops the connections that nobody has accepted.
LEMMA DropKeepsOrder ==
  ASSUME Orderly, CloseListener \/ Stop
  PROVE  Orderly'
<1>0. Typed
  BY DEF Orderly
<1>1. UNCHANGED <<cancelled, reader, held, reads, current, outbox, executed, client, request>>
  BY DEF CloseListener, Stop
<1>2. /\ phase' = [k \in Connections |-> IF phase[k] = "backlog" THEN "closed" ELSE phase[k]]
      /\ up' = [k \in Connections |-> up[k] /\ phase[k] # "backlog"]
      /\ inbox' = [k \in Connections |-> IF phase[k] = "backlog" THEN <<>> ELSE inbox[k]]
  BY DEF CloseListener, Stop, Drop, Backlog
<1>3. Typed'
  <2>1. main' \in {"accepting", "draining", "stopped"} /\ cancelled' \in BOOLEAN
        /\ listening' \in BOOLEAN
    BY <1>0 DEF CloseListener, Stop, Typed
  <2>2. phase' \in [Connections ->
          {"none", "backlog", "first", "serving", "handling", "replying", "closed"}]
    BY <1>0, <1>2 DEF Typed
  <2>3. up' \in [Connections -> BOOLEAN]
    BY <1>2
  <2>4. inbox' \in [Connections -> AtMostOne(Frames)]
    BY <1>0, <1>2, ShortTypes DEF Typed
  <2> QED
    BY <1>0, <1>1, <2>1, <2>2, <2>3, <2>4 DEF Typed
<1>4. ASSUME NEW k \in Connections PROVE Sound(k)'
  <2>1. CASE phase[k] = "backlog"
    <3>1. client[k] # "away" /\ (Arriving(k) \/ Broken(k))
      BY <2>1, At DEF Fresh, Resting, Travelling, Sound
    <3>2. phase'[k] = "closed" /\ up'[k] = FALSE /\ inbox'[k] = <<>>
      BY <1>2, <2>1
    <3>3. Broken(k)'
      <4>1. CASE Arriving(k)
        BY <1>1, <3>2, <4>1 DEF Arriving, Broken, Unread
      <4>2. CASE Broken(k)
        BY <1>1, <2>1, <3>2, <4>2 DEF Broken, Unread, Fitting
      <4> QED
        BY <3>1, <4>1, <4>2
    <3> QED
      BY <1>1, <3>1, <3>3 DEF Sound
  <2>2. CASE phase[k] # "backlog"
    <3>1. phase'[k] = phase[k] /\ inbox'[k] = inbox[k]
      BY <1>2, <2>2
    <3>2. up'[k] = up[k]
      BY <1>0, <1>2, <2>2 DEF Typed
    <3> QED
      BY <1>1, <3>1, <3>2, SoundStays DEF Orderly
  <2> QED
    BY <2>1, <2>2
<1> QED
  BY <1>3, <1>4 DEF Orderly

----------------------------------------
(* The invariant holds of every reachable state.                           *)

\* At first nobody has dialled.
LEMMA InitOrderly ==
  ASSUME Init
  PROVE  Orderly
<1>1. Msg("ping", 0) \in Requests
  BY DEF Msg, Requests
<1>2. Typed
  BY <1>1, ShortTypes DEF Init, Typed
<1>3. \A k \in Connections : Sound(k)
  BY DEF Init, Sound, Fresh, Unread
<1> QED
  BY <1>2, <1>3 DEF Orderly

\* Every step keeps it, of the server, of a client or of the network.
LEMMA NextKeepsOrder ==
  ASSUME Orderly, [Next]_vars
  PROVE  Orderly'
<1>1. CASE Cancel \/ StopAccepting \/ UNCHANGED vars
  BY <1>1, MainKeepsOrder
<1>2. CASE CloseListener \/ Stop
  BY <1>2, DropKeepsOrder
<1>3. ASSUME NEW k \in Connections, Accept(k) \/ Break(k)
      PROVE  Orderly'
  BY <1>3, AcceptKeepsOrder, BreakKeepsOrder
<1>4. ASSUME NEW k \in Connections, ClientStep(k)
      PROVE  Orderly'
  BY <1>4, DialKeepsOrder, SendFirstKeepsOrder, ReceiveGreetingKeepsOrder, ReceiveKeepsOrder,
     CallKeepsOrder DEF ClientStep
<1>5. ASSUME NEW k \in Connections, ConnectionStep(k)
      PROVE  Orderly'
  BY <1>5, ReadFirstKeepsOrder, SelectKeepsOrder, HandleKeepsOrder, ReplyKeepsOrder
     DEF ConnectionStep
<1>6. ASSUME NEW k \in Connections, ReaderStep(k)
      PROVE  Orderly'
  BY <1>6, ReadFrameKeepsOrder, SendReadKeepsOrder DEF ReaderStep
<1> QED
  BY <1>1, <1>2, <1>3, <1>4, <1>5, <1>6 DEF Next

\* Only reading an answer touches a ping goroutine: it goes on or has ended.
LEMMA NextKeepsPinging ==
  ASSUME Pinging, [Next]_vars
  PROVE  Pinging'
<1>1. ASSUME NEW k \in Connections, Receive(k) PROVE Pinging'
  <2>1. \/ UNCHANGED pinging
        \/ pinging' = [pinging EXCEPT ![k] = @ /\ request[k].type # "ping"]
    BY <1>1 DEF Receive, Notice, GoOn
  <2> QED
    BY <2>1 DEF Pinging
<1>2. CASE Cancel \/ CloseListener \/ StopAccepting \/ Stop \/ UNCHANGED vars
  BY <1>2 DEF Cancel, CloseListener, StopAccepting, Stop, vars, Pinging
<1>3. ASSUME NEW k \in Connections, Accept(k) \/ Break(k) PROVE Pinging'
  BY <1>3 DEF Accept, Break, Pinging
<1>4. ASSUME NEW k \in Connections, ClientStep(k) PROVE Pinging'
  BY <1>1, <1>4 DEF ClientStep, Dial, SendFirst, ReceiveGreeting, Call, Pinging
<1>5. ASSUME NEW k \in Connections, ConnectionStep(k) \/ ReaderStep(k) PROVE Pinging'
  BY <1>5 DEF ConnectionStep, ReaderStep, ReadFirst, Select, SelectDone, SelectRead, Handle, Reply,
              ReadFrame, SendRead, Pinging
<1> QED
  BY <1>1, <1>2, <1>3, <1>4, <1>5 DEF Next

\* A request is in one place on its way to the server, through it and back, whatever the
\* order in which goroutines, clients, a shutdown and broken connections take their steps.
THEOREM ServerInvariance == Spec => []IInv
<1>1. Init => IInv
  <2>1. Init => Pinging
    BY DEF Init, Pinging
  <2> QED
    BY <2>1, InitOrderly, IInvIsOrderly
<1>2. IInv /\ [Next]_vars => IInv'
  BY NextKeepsOrder, NextKeepsPinging, IInvIsOrderly
<1> QED
  BY <1>1, <1>2, PTL DEF Spec

\* The channel between the goroutines and the connection never hold more than their bounds:
\* one request on the way in, a reply and a shutdown notice on the way out.
THEOREM ServerTypeCorrect == Spec => []TypeOK
<1>1. IInv => TypeOK
  BY DEF IInv
<1> QED
  BY <1>1, ServerInvariance, PTL

\* A client that waits reads the answer to the request it waits for; if it is told of a
\* shutdown instead, its request has not taken effect (Server.handleConnection's select).
THEOREM AnswersAlwaysFit == Spec => []AnswersFit
<1>1. ASSUME Orderly PROVE AnswersFit
  <2>1. SUFFICES ASSUME NEW k \in Connections, client[k] = "waiting", outbox[k] # <<>>
                 PROVE  /\ Head(outbox[k]).type \in {"reply", "bye"}
                        /\ Head(outbox[k]).type = "reply" => Head(outbox[k]).tag = request[k].tag
                        /\ Head(outbox[k]).type = "bye" => ~executed[k]
    BY DEF AnswersFit
  <2>2. outbox[k] \in {<<Fitting(k)>>, <<Bye>>, <<Fitting(k), Bye>>}
        /\ (outbox[k] = <<Bye>> => ~executed[k])
    <3>1. CASE up[k]
      <4>1. Resting(k)
        BY <1>1, <2>1, <3>1, At DEF Arriving, Travelling
      <4>2. outbox[k] = <<Fitting(k)>>
        BY <2>1, <4>1 DEF Resting
      <4>3. Fitting(k) # Bye
        BY <1>1, At, FrameTypes DEF Fitting
      <4> QED
        BY <4>2, <4>3, ShortSteps
    <3>2. CASE ~up[k]
      <4>1. Broken(k)
        BY <1>1, <2>1, <3>2, At DEF Fresh
      <4> QED
        BY <2>1, <4>1 DEF Broken
    <3> QED
      BY <3>1, <3>2
  <2>3. Head(<<Fitting(k)>>) = Fitting(k) /\ Head(<<Bye>>) = Bye
        /\ Head(<<Fitting(k), Bye>>) = Fitting(k)
    OBVIOUS
  <2>4. Fitting(k).type = "reply" /\ Fitting(k).tag = request[k].tag /\ Bye.type = "bye"
    BY <1>1, At, FrameTypes DEF Fitting
  <2> QED
    BY <2>2, <2>3, <2>4
<1>2. IInv => AnswersFit
  BY <1>1, IInvIsOrderly
<1> QED
  BY <1>2, ServerInvariance, PTL

----------------------------------------
(* References: the links of an entry follow its text, whoever else writes. *)

\* ParseReferences runs along the text and keeps the names of somebody.
LEMMA ParseRuns ==
    ASSUME NEW text \in Seq(Names \cup {NoName})
    PROVE  \E f \in [0..Len(text) -> Seq(Names)] :
             /\ ParseReferences(text) = f[Len(text)]
             /\ f[0] = <<>>
             /\ \A i \in 1..Len(text) :
                  f[i] = IF text[i] = NoName THEN f[i - 1] ELSE Append(f[i - 1], text[i])
<1> DEFINE n == Len(text)
           Run(f, i) == IF i = 0 THEN <<>>
                        ELSE IF text[i] = NoName THEN f[i - 1]
                        ELSE Append(f[i - 1], text[i])
           Parses(f) == f = [i \in 0..n |-> Run(f, i)]
           V == Seq(Names)
           base == <<>>
           step == [p \in (1..n) \X V |->
                      IF text[p[1]] = NoName THEN p[2] ELSE Append(p[2], text[p[1]])]
           parse == CHOOSE f : Parses(f)
<1>1. n \in Nat /\ \A i \in 1..n : text[i] \in Names \cup {NoName}
  OBVIOUS
<1>2. step \in [(1..n) \X V -> V] /\ base \in V
  BY <1>1
<1>3. \E f : Recurs(f, n, V, base, step)
  <2>1. n \in Nat
    BY <1>1
  <2> HIDE DEF n, step, V, base
  <2>2. step \in [(1..n) \X V -> V]
    BY <1>2
  <2>3. base \in V
    BY <1>2
  <2> QED BY <2>1, <2>2, <2>3, RecursionExists
<1>4. PICK f \in [0..n -> V] :
         f[0] = base /\ \A i \in 1..n : f[i] = step[<<i, f[i - 1]>>]
  BY <1>3 DEF Recurs
<1>5. Parses(f)
  <2>1. ASSUME NEW i \in 0..n PROVE f[i] = Run(f, i)
    <3>1. CASE i = 0
      BY <1>4, <3>1
    <3>2. CASE i # 0
      <4>1. i \in 1..n /\ i - 1 \in 0..n
        BY <1>1, <3>2
      <4>2. <<i, f[i - 1]>> \in (1..n) \X Seq(Names)
        BY <4>1
      <4> QED BY <1>4, <4>1, <4>2
    <3> QED BY <3>1, <3>2
  <2> HIDE DEF Run
  <2> QED BY <2>1
<1>6. Parses(parse)
  BY <1>5
<1>7. ParseReferences(text) = parse[n]
  BY DEF ParseReferences
<1>8. \A i \in 0..n : parse[i] = Run(parse, i)
  BY <1>6
<1> HIDE DEF parse
<1>9. parse[0] = <<>>
  BY <1>1, <1>8
<1>10. ASSUME NEW i \in 1..n
       PROVE  parse[i] = IF text[i] = NoName THEN parse[i - 1] ELSE Append(parse[i - 1], text[i])
  BY <1>8
<1>11. parse \in [0..n -> Seq(Names)]
  <2> DEFINE Good == {i \in 0..n : parse[i] \in Seq(Names)}
  <2>1. \A i \in 0..n : i \in Good
    <3>1. 0 \in Good
      <4>1. parse[0] \in Seq(Names)
        BY <1>9
      <4>2. 0 \in 0..n
        BY <1>1
      <4> QED BY <4>1, <4>2
    <3>2. ASSUME NEW i \in 1..n, i - 1 \in Good
          PROVE  i \in Good
      <4>1. parse[i - 1] \in Seq(Names) /\ text[i] \in Names \cup {NoName}
        BY <1>1, <3>2
      <4>2. CASE text[i] = NoName
        BY <1>1, <1>10, <4>1, <4>2
      <4>3. CASE text[i] # NoName
        <5>1. Append(parse[i - 1], text[i]) \in Seq(Names)
          BY <4>1, <4>3, AppendProperties
        <5>2. parse[i] \in Seq(Names)
          BY <1>10, <4>3, <5>1
        <5> QED BY <1>1, <5>2
      <4> QED BY <4>2, <4>3
    <3> HIDE DEF Good, n
    <3> QED BY <1>1, <3>1, <3>2, NumbersUpTo
  <2>2. parse = [i \in 0..n |-> parse[i]]
    BY <1>6
  <2> QED BY <2>1, <2>2
<1> QED BY <1>7, <1>9, <1>10, <1>11

\* One reference more.
LEMMA OccurrencesAppended ==
    ASSUME NEW s \in Seq(Names), NEW m \in Names, NEW n \in Names
    PROVE  /\ Occurrences(n, s) \in Nat
           /\ Occurrences(n, Append(s, m)) = Occurrences(n, s) + (IF m = n THEN 1 ELSE 0)
<1> DEFINE Where(q) == {i \in 1..Len(q) : q[i] = n}
           k == Len(s) + 1
<1>1. Len(s) \in Nat
  OBVIOUS
<1>2. /\ Len(Append(s, m)) = k /\ Append(s, m)[k] = m
      /\ \A i \in 1..Len(s) : Append(s, m)[i] = s[i]
  BY AppendProperties
<1>3. IsFiniteSet(Where(s)) /\ k \notin Where(s)
  <2>1. IsFiniteSet(1..Len(s))
    BY <1>1, FS_Interval
  <2>2. Where(s) \subseteq 1..Len(s)
    OBVIOUS
  <2>3. k \notin 1..Len(s)
    BY <1>1
  <2> QED BY <2>1, <2>2, <2>3, FS_Subset
<1>4. Where(Append(s, m)) = IF m = n THEN Where(s) \cup {k} ELSE Where(s)
  BY <1>1, <1>2
<1>5. Cardinality(Where(s)) \in Nat /\ Cardinality(Where(s) \cup {k}) = Cardinality(Where(s)) + 1
  <2> HIDE DEF Where
  <2> QED BY <1>3, FS_CardinalityType, FS_AddElement
<1>6. \A q : Occurrences(n, q) = Cardinality(Where(q))
  BY DEF Occurrences
<1> HIDE DEF Where
<1>7. CASE m = n
  BY <1>4, <1>5, <1>6, <1>7
<1>8. CASE m # n
  BY <1>4, <1>5, <1>6, <1>8
<1> QED BY <1>7, <1>8

\* A reference fewer.
LEMMA OccurrencesOfTail ==
    ASSUME NEW s \in Seq(Names), s # <<>>, NEW n \in Names
    PROVE  /\ Occurrences(n, Tail(s)) \in Nat
           /\ Occurrences(n, s) = Occurrences(n, Tail(s)) + (IF Head(s) = n THEN 1 ELSE 0)
<1> DEFINE Where(q) == {i \in 1..Len(q) : q[i] = n}
           shift == [i \in Where(Tail(s)) |-> i + 1]
<1>1. /\ Len(s) \in Nat \ {0} /\ Len(Tail(s)) = Len(s) - 1
      /\ \A i \in 1..Len(Tail(s)) : Tail(s)[i] = s[i + 1]
  BY HeadTailProperties, EmptySeq
<1>2. shift \in Bijection(Where(Tail(s)), Where(s) \ {1})
  <2>1. shift \in [Where(Tail(s)) -> Where(s) \ {1}]
    BY <1>1
  <2>2. \A i, j \in Where(Tail(s)) : shift[i] = shift[j] => i = j
    BY <1>1
  <2>3. ASSUME NEW j \in Where(s) \ {1}
        PROVE  \E i \in Where(Tail(s)) : shift[i] = j
    <3>1. j - 1 \in Where(Tail(s)) /\ (j - 1) + 1 = j
      BY <1>1
    <3>2. shift[j - 1] = j
      BY <3>1
    <3> QED BY <3>1, <3>2
  <2> DEFINE S == Where(Tail(s))
             T == Where(s) \ {1}
  <2>4. shift \in [S -> T] /\ \A i, j \in S : shift[i] = shift[j] => i = j
    BY <2>1, <2>2
  <2>5. \A j \in T : \E i \in S : shift[i] = j
    BY <2>3
  <2> HIDE DEF Where, shift, S, T
  <2>6. shift \in Injection(S, T)
    BY <2>4 DEF Injection, IsInjective
  <2>7. shift \in Surjection(S, T)
    BY <2>4, <2>5 DEF Surjection
  <2>8. shift \in Bijection(S, T)
    BY <2>6, <2>7 DEF Bijection
  <2> QED BY <2>8 DEF S, T
<1>3. IsFiniteSet(Where(s)) /\ IsFiniteSet(Where(Tail(s)))
  <2>1. IsFiniteSet(1..Len(s)) /\ IsFiniteSet(1..Len(Tail(s)))
    BY <1>1, FS_Interval
  <2> QED BY <2>1, FS_Subset
<1>4. Cardinality(Where(Tail(s))) = Cardinality(Where(s) \ {1})
  <2> HIDE DEF Where, shift
  <2> QED BY <1>2, <1>3, FS_Bijection DEF ExistsBijection
<1>5. 1 \in Where(s) <=> Head(s) = n
  BY <1>1
<1>6. /\ Cardinality(Where(Tail(s))) \in Nat
      /\ Cardinality(Where(s)) = Cardinality(Where(s) \ {1}) + (IF 1 \in Where(s) THEN 1 ELSE 0)
  <2> HIDE DEF Where
  <2>1. Cardinality(Where(s)) \in Nat
    BY <1>3, FS_CardinalityType
  <2> QED BY <1>3, <2>1, FS_CardinalityType, FS_RemoveElement
<1>7. \A q : Occurrences(n, q) = Cardinality(Where(q))
  BY DEF Occurrences
<1> HIDE DEF Where
<1> QED BY <1>4, <1>5, <1>6, <1>7

\* What ParseReferences finds are names, and each as often as the text refers to it.
LEMMA ParseFinds ==
    ASSUME NEW text \in Seq(Names \cup {NoName})
    PROVE  /\ ParseReferences(text) \in Seq(Names)
           /\ \A n \in Names : Occurrences(n, ParseReferences(text)) = Occurrences(n, text)
<1>1. Len(text) \in Nat
  OBVIOUS
<1>2. PICK f \in [0..Len(text) -> Seq(Names)] :
         /\ ParseReferences(text) = f[Len(text)]
         /\ f[0] = <<>>
         /\ \A i \in 1..Len(text) :
              f[i] = IF text[i] = NoName THEN f[i - 1] ELSE Append(f[i - 1], text[i])
  BY ParseRuns
<1>3. ASSUME NEW n \in Names
      PROVE  Occurrences(n, f[Len(text)]) = Occurrences(n, text)
  <2> DEFINE Where(i) == {j \in 1..i : text[j] = n}
             Good == {i \in 0..Len(text) : Occurrences(n, f[i]) = Cardinality(Where(i))}
  <2>1. 0 \in Good
    <3>1. Where(0) = {} /\ {i \in 1..Len(<<>>) : <<>>[i] = n} = {}
      OBVIOUS
    <3>2. Occurrences(n, f[0]) = Cardinality(Where(0))
      BY <1>2, <3>1 DEF Occurrences
    <3> QED BY <1>1, <3>2
  <2>2. ASSUME NEW i \in 1..Len(text), i - 1 \in Good
        PROVE  i \in Good
    <3>1. i \in 0..Len(text) /\ i - 1 \in 0..Len(text) /\ text[i] \in Names \cup {NoName}
      BY <1>1
    <3>2. Where(i) = IF text[i] = n THEN Where(i - 1) \cup {i} ELSE Where(i - 1)
      BY <3>1
    <3>3. IsFiniteSet(Where(i - 1)) /\ i \notin Where(i - 1)
      <4>1. IsFiniteSet(1..(i - 1))
        BY <3>1, FS_Interval
      <4>2. Where(i - 1) \subseteq 1..(i - 1) /\ i \notin 1..(i - 1)
        BY <3>1
      <4> QED BY <4>1, <4>2, FS_Subset
    <3>4. Occurrences(n, f[i - 1]) = Cardinality(Where(i - 1)) /\ f[i - 1] \in Seq(Names)
      BY <1>2, <2>2, <3>1
    <3>5. Cardinality(Where(i - 1) \cup {i}) = Cardinality(Where(i - 1)) + 1
      <4> HIDE DEF Where
      <4> QED BY <3>3, FS_AddElement
    <3>6. Occurrences(n, f[i]) = Cardinality(Where(i))
      <4> HIDE DEF Where
      <4>1. CASE text[i] = NoName
        BY <1>2, <3>2, <3>4, <4>1, ReferencesAssumption
      <4>2. CASE text[i] = n
        <5>1. f[i] = Append(f[i - 1], n)
          BY <1>2, <4>2, ReferencesAssumption
        <5>2. Occurrences(n, Append(f[i - 1], n)) = Occurrences(n, f[i - 1]) + 1
          BY <3>4, OccurrencesAppended
        <5> QED BY <3>2, <3>4, <3>5, <4>2, <5>1, <5>2
      <4>3. CASE text[i] \in Names /\ text[i] # n
        <5>1. f[i] = Append(f[i - 1], text[i])
          BY <1>2, <4>3, ReferencesAssumption
        <5>2. /\ Occurrences(n, f[i - 1]) \in Nat
              /\ Occurrences(n, Append(f[i - 1], text[i])) = Occurrences(n, f[i - 1]) + 0
          BY <3>4, <4>3, OccurrencesAppended
        <5> QED BY <3>2, <3>4, <4>3, <5>1, <5>2
      <4> QED BY <3>1, <4>1, <4>2, <4>3
    <3> QED BY <3>1, <3>6
  <2>3. Len(text) \in Good
    <3>1. \A i \in 0..Len(text) : i \in Good
      <4> HIDE DEF Good
      <4> QED BY <1>1, <2>1, <2>2, NumbersUpTo
    <3>2. Len(text) \in 0..Len(text)
      BY <1>1
    <3> QED BY <3>1, <3>2
  <2> QED BY <2>3 DEF Occurrences
<1> QED BY <1>1, <1>2, <1>3

----------------------------------------
(* Types.                                                                  *)

\* What a call carries, by its operation.
LEMMA CallShapes ==
    ASSUME NEW x \in CallState
    PROVE  /\ x # Idle => x.op # "idle" /\ x.id \in RowIds
           /\ x.op = "updating" => x \in [op : {"updating"}, id : RowIds, new : Row]
           /\ x.op = "clearing" => x \in [op : {"clearing"}, id : RowIds, new : Row]
           /\ x.op = "linking"
                => x \in [op : {"linking"}, id : RowIds, new : Row, rest : Seq(Names)]
           /\ x.op = "unlinking" => x \in [op : {"unlinking"}, id : RowIds]
           /\ x.op \in {"idle", "updating", "clearing", "linking", "unlinking"}
BY DEF CallState, Idle

\* What a row carries, by its kind.
LEMMA RowShapes ==
    ASSUME NEW r \in Row
    PROVE  /\ r.kind \in {"codex", "note"} /\ r.campaign \in CampaignIds
           /\ r.name \in Names /\ r.text \in Texts
           /\ r.kind = "codex" => r.type \in TypeIds
           /\ \A k \in CampaignIds :
                /\ [r EXCEPT !.campaign = k] \in Row
                /\ [r EXCEPT !.campaign = k].kind = r.kind
                /\ r.kind = "codex" => [r EXCEPT !.campaign = k].type = r.type
                /\ [r EXCEPT !.campaign = k].campaign = k
                /\ [r EXCEPT !.campaign = k].name = r.name
                /\ [r EXCEPT !.campaign = k].text = r.text
<1>1. CASE r \in [kind : {"codex"}, campaign : CampaignIds, type : TypeIds, name : Names,
                  text : Texts]
  BY <1>1 DEF Row
<1>2. CASE r \in [kind : {"note"}, campaign : CampaignIds, name : Names, text : Texts]
  BY <1>2 DEF Row
<1> QED BY <1>1, <1>2 DEF Row

LinksTypeOK == IsABag(links) /\ DOMAIN links \subseteq Link

\* Links without those of a row.
LEMMA LinksWithout ==
    ASSUME LinksTypeOK, NEW id, links' = WithoutLinksOf(id)
    PROVE  /\ LinksTypeOK'
           /\ DOMAIN links' = {l \in DOMAIN links : l.source # id}
           /\ \A l \in DOMAIN links' : links'[l] = links[l]
<1>1. links' = [l \in DOMAIN links \ LinksOf(id) |-> links[l]]
  BY DEF WithoutLinksOf, Restrict
<1>2. DOMAIN links' = {l \in DOMAIN links : l.source # id}
  BY <1>1 DEF LinksOf
<1>3. \A l \in DOMAIN links' : links'[l] = links[l] /\ links'[l] \in {n \in Nat : n > 0}
  BY <1>1 DEF LinksTypeOK, IsABag
<1>4. links' \in [DOMAIN links' -> {n \in Nat : n > 0}]
  BY <1>1, <1>3
<1> QED BY <1>2, <1>3, <1>4 DEF LinksTypeOK, IsABag

\* Links with one more.
LEMMA LinksWith ==
    ASSUME LinksTypeOK, NEW m \in Link, links' = links (+) SetToBag({m})
    PROVE  /\ LinksTypeOK'
           /\ DOMAIN links' = DOMAIN links \cup {m}
           /\ \A l : Copies(l)' = Copies(l) + (IF l = m THEN 1 ELSE 0)
           /\ \A l : Copies(l) \in Nat
<1>1. links' = [l \in DOMAIN links \cup {m} |->
                  (IF l \in DOMAIN links THEN links[l] ELSE 0) + (IF l \in {m} THEN 1 ELSE 0)]
  BY DEF (+), SetToBag
<1>2. DOMAIN links' = DOMAIN links \cup {m}
  BY <1>1
<1>3. \A l \in DOMAIN links : links[l] \in Nat /\ links[l] > 0
  BY DEF LinksTypeOK, IsABag
<1>4. ASSUME NEW l \in DOMAIN links'
      PROVE  /\ links'[l] \in {n \in Nat : n > 0}
             /\ links'[l] = (IF l \in DOMAIN links THEN links[l] ELSE 0) + (IF l = m THEN 1 ELSE 0)
  <2>1. CASE l = m
    BY <1>1, <1>2, <1>3, <2>1
  <2>2. CASE l # m
    <3>1. l \in DOMAIN links /\ links'[l] = links[l] + 0
      BY <1>1, <1>2, <2>2
    <3> QED BY <1>3, <2>2, <3>1
  <2> QED BY <2>1, <2>2
<1>5. links' \in [DOMAIN links' -> {n \in Nat : n > 0}]
  BY <1>1, <1>4
<1>6. LinksTypeOK'
  BY <1>2, <1>5 DEF LinksTypeOK, IsABag
<1>7. \A l : Copies(l) = IF l \in DOMAIN links THEN links[l] ELSE 0
  BY DEF Copies, BagIn, BagToSet
<1>8. \A l : Copies(l)' = IF l \in DOMAIN links' THEN links'[l] ELSE 0
  BY DEF Copies, BagIn, BagToSet
<1>9. \A l : Copies(l) \in Nat
  BY <1>3, <1>7
<1>10. ASSUME NEW l
       PROVE  Copies(l)' = Copies(l) + (IF l = m THEN 1 ELSE 0)
  BY <1>2, <1>3, <1>4, <1>7, <1>8
<1> QED BY <1>2, <1>6, <1>9, <1>10

\* Begin counts a call; the client that begins was idle.
LEMMA BeginCounts ==
    ASSUME ReferencesTypeOK, NEW c \in Clients, NEW id, Begin(c, id)
    PROVE  calls' \in 0..MaxCalls /\ overlapped' \subseteq Clients /\ call[c] = Idle
<1>1. calls \in 0..MaxCalls /\ calls < MaxCalls /\ MaxCalls \in Nat
  BY ReferencesAssumption DEF ReferencesTypeOK, Begin
<1>2. calls' \in 0..MaxCalls
  BY <1>1 DEF Begin
<1>3. Others(c, id) \subseteq Clients
  BY DEF Others
<1> QED BY <1>2, <1>3 DEF ReferencesTypeOK, Begin

\* What a call becomes.
LEMMA ContinueTypes ==
    ASSUME ReferencesTypeOK, NEW c \in Clients, NEW next \in CallState, Continue(c, next)
    PROVE  call' \in [Clients -> CallState]
BY DEF ReferencesTypeOK, Continue

RowsTypeOK ==
    /\ DOMAIN rows \subseteq 1..made
    /\ \A id \in DOMAIN rows :
          rows[id] \in Row /\ (rows[id].kind = "codex" => rows[id].type \in DOMAIN types)

\* A new row, whose links are then cleared.
LEMMA InsertTypes ==
    ASSUME ReferencesTypeOK, NEW c \in Clients, NEW row \in Row, Insert(c, row),
           row.kind = "codex" => row.type \in DOMAIN types
    PROVE  ReferencesTypeOK'
<1>1. made \in Nat /\ made + 1 \in RowIds /\ made' = made + 1 /\ made' \in 0..MaxRows
  BY ReferencesAssumption DEF ReferencesTypeOK, Insert, RowIds
<1>2. calls' \in 0..MaxCalls /\ overlapped' \subseteq Clients
  BY BeginCounts DEF Insert
<1>3. [op |-> "clearing", id |-> made + 1, new |-> row] \in CallState
  BY <1>1 DEF CallState
<1>4. call' \in [Clients -> CallState]
  BY <1>3, ContinueTypes DEF Insert
<1>5. RowsTypeOK'
  BY <1>1 DEF Insert, ReferencesTypeOK, RowsTypeOK
<1> QED BY <1>1, <1>2, <1>4, <1>5 DEF ReferencesTypeOK, Insert, RowsTypeOK

LEMMA UpdateTextTypes ==
    ASSUME ReferencesTypeOK, NEW c \in Clients, UpdateText(c)
    PROVE  ReferencesTypeOK'
<1>1. call[c] \in [op : {"updating"}, id : RowIds, new : Row]
  BY CallShapes DEF ReferencesTypeOK, UpdateText
<1> DEFINE new == call[c].new
<1>2. new \in Row /\ [call[c] EXCEPT !.op = "clearing"] \in CallState
  BY <1>1 DEF CallState
<1>3. call' \in [Clients -> CallState]
  BY <1>2, ContinueTypes DEF UpdateText
<1>4. DOMAIN rows' = DOMAIN rows /\ made' = made /\ types' = types
  BY DEF UpdateText
<1>5. ASSUME NEW id \in DOMAIN rows
      PROVE  /\ rows'[id] \in Row
             /\ rows'[id].kind = "codex" => rows'[id].type \in DOMAIN types
  <2>1. rows[id] \in Row /\ rows[id].campaign \in CampaignIds
    BY RowShapes DEF ReferencesTypeOK
  <2>2. CASE id = call[c].id
    <3>1. rows'[id] = [new EXCEPT !.campaign = rows[id].campaign]
      BY <2>2 DEF UpdateText
    <3>2. new.kind = "codex" => new.type \in DOMAIN types
      BY <2>2 DEF UpdateText
    <3> HIDE DEF new
    <3> QED BY <1>2, <2>1, <3>1, <3>2, RowShapes
  <2>3. CASE id # call[c].id
    BY <2>1, <2>3 DEF UpdateText, ReferencesTypeOK
  <2> QED BY <2>2, <2>3
<1>6. RowsTypeOK'
  BY <1>4, <1>5 DEF RowsTypeOK, ReferencesTypeOK
<1> QED BY <1>3, <1>6 DEF ReferencesTypeOK, RowsTypeOK, UpdateText

LEMMA ClearLinksTypes ==
    ASSUME ReferencesTypeOK, NEW c \in Clients, ClearLinks(c)
    PROVE  ReferencesTypeOK'
<1>1. call[c] \in [op : {"clearing"}, id : RowIds, new : Row]
  BY CallShapes DEF ReferencesTypeOK, ClearLinks
<1>2. call[c].new \in Row /\ call[c].id \in RowIds
  BY <1>1
<1>3. ParseReferences(call[c].new.text) \in Seq(Names)
  BY <1>2, RowShapes, ParseFinds, ReferencesAssumption
<1>4. [op |-> "linking", id |-> call[c].id, new |-> call[c].new,
       rest |-> ParseReferences(call[c].new.text)] \in CallState
  BY <1>2, <1>3 DEF CallState
<1>5. call' \in [Clients -> CallState]
  BY <1>4, ContinueTypes DEF ClearLinks
<1>6. LinksTypeOK'
  BY LinksWithout DEF ClearLinks, ReferencesTypeOK, LinksTypeOK
<1> QED BY <1>5, <1>6 DEF ReferencesTypeOK, LinksTypeOK, ClearLinks

\* The link that a call adds next.
NextLink(c) ==
    [source |-> call[c].id, campaign |-> call[c].new.campaign, name |-> call[c].new.name,
     to |-> Head(call[c].rest)]

\* What InsertLink adds and what is left to add.
LEMMA InsertLinkAdds ==
    ASSUME ReferencesTypeOK, NEW c \in Clients, InsertLink(c)
    PROVE  /\ call[c] \in [op : {"linking"}, id : RowIds, new : Row, rest : Seq(Names)]
           /\ call[c].rest # <<>>
           /\ NextLink(c) \in Link
           /\ links' = links (+) SetToBag({NextLink(c)})
           /\ call'[c] = [call[c] EXCEPT !.rest = Tail(@)]
           /\ call'[c] \in [op : {"linking"}, id : RowIds, new : Row, rest : Seq(Names)]
           /\ \A d \in Clients \ {c} : call'[d] = call[d]
<1>1. /\ call[c] \in [op : {"linking"}, id : RowIds, new : Row, rest : Seq(Names)]
      /\ call[c].rest # <<>>
  BY CallShapes DEF ReferencesTypeOK, InsertLink
<1>2. Head(call[c].rest) \in Names /\ Tail(call[c].rest) \in Seq(Names)
  BY <1>1, HeadTailProperties
<1>3. NextLink(c) \in Link
  BY <1>1, <1>2, RowShapes DEF NextLink, Link
<1>4. [call[c] EXCEPT !.rest = Tail(@)]
        \in [op : {"linking"}, id : RowIds, new : Row, rest : Seq(Names)]
  BY <1>1, <1>2
<1> QED BY <1>1, <1>3, <1>4 DEF InsertLink, Continue, NextLink, ReferencesTypeOK

LEMMA InsertLinkTypes ==
    ASSUME ReferencesTypeOK, NEW c \in Clients, InsertLink(c)
    PROVE  ReferencesTypeOK'
<1>1. LinksTypeOK'
  BY InsertLinkAdds, LinksWith DEF ReferencesTypeOK, LinksTypeOK
<1>2. call'[c] \in CallState
  BY InsertLinkAdds DEF CallState
<1>3. call' \in [Clients -> CallState]
  BY <1>2, ContinueTypes DEF InsertLink, Continue, ReferencesTypeOK
<1> QED BY <1>1, <1>3 DEF ReferencesTypeOK, LinksTypeOK, InsertLink

\* A call returns and the screen is loaded again.
LEMMA ReturnTypes ==
    ASSUME ReferencesTypeOK, NEW c \in Clients, Return(c)
    PROVE  call' \in [Clients -> CallState] /\ shown' \in [Clients -> CampaignIds]
<1>1. Idle \in CallState
  BY DEF CallState
<1>2. call' \in [Clients -> CallState]
  BY <1>1, ContinueTypes DEF Return
<1> QED BY <1>2 DEF Return, ReferencesTypeOK

LEMMA TypeStepTypes ==
    ASSUME ReferencesTypeOK, NEW c \in Clients, TypeStep(c)
    PROVE  ReferencesTypeOK'
<1> USE DEF ReferencesTypeOK
<1>1. ASSUME TypeCall
      PROVE  calls' \in 0..MaxCalls
  BY <1>1, ReferencesAssumption DEF TypeCall
<1>2. ASSUME NEW t \in TypeIds, NEW n \in TypeNames, CreateType(c, t, n)
      PROVE  ReferencesTypeOK'
  <2>1. /\ DOMAIN types' = DOMAIN types \cup {t} /\ types'[t] = n
        /\ \A s \in DOMAIN types : types'[s] = types[s] /\ s # t /\ types[s] # n
    BY <1>2 DEF CreateType
  <2>2. calls' \in 0..MaxCalls /\ UNCHANGED <<rows, links, made, activeCampaign, shown, call,
                                              overlapped, failures, online>>
    BY <1>1, <1>2 DEF CreateType, TypeCall
  <2> QED BY <2>1, <2>2
<1>3. ASSUME NEW t \in TypeIds, NEW n \in TypeNames, RenameType(c, t, n)
      PROVE  ReferencesTypeOK'
  <2>1. /\ DOMAIN types' = DOMAIN types /\ types'[t] = n
        /\ \A s \in DOMAIN types \ {t} : types'[s] = types[s] /\ types[s] # n
    BY <1>3 DEF RenameType
  <2>2. calls' \in 0..MaxCalls /\ UNCHANGED <<rows, links, made, activeCampaign, shown, call,
                                              overlapped, failures, online>>
    BY <1>1, <1>3 DEF RenameType, TypeCall
  <2> QED BY <2>1, <2>2
<1>4. ASSUME NEW t \in TypeIds, DeleteType(c, t)
      PROVE  ReferencesTypeOK'
  <2>1. /\ DOMAIN types' = DOMAIN types \ {t}
        /\ \A s \in DOMAIN types' : types'[s] = types[s]
    BY <1>4 DEF DeleteType, Restrict
  <2>2. calls' \in 0..MaxCalls /\ UNCHANGED <<rows, links, made, activeCampaign, shown, call,
                                              overlapped, failures, online>>
    BY <1>1, <1>4 DEF DeleteType, TypeCall
  <2>3. \A id \in DOMAIN rows : rows[id].kind = "codex" => rows[id].type # t
    BY <1>4 DEF DeleteType, OfType
  <2> QED BY <2>1, <2>2, <2>3
<1> QED BY <1>2, <1>3, <1>4 DEF TypeStep

\* The check before an update, and a delete, leave the rest of the call to do.
LEMMA CheckUpdateTypes ==
    ASSUME ReferencesTypeOK, NEW c \in Clients, NEW id \in DOMAIN rows, NEW new \in Row,
           CheckUpdate(c, id, new)
    PROVE  ReferencesTypeOK'
<1>1. id \in RowIds
  BY ReferencesAssumption DEF ReferencesTypeOK, RowIds
<1>2. [op |-> "updating", id |-> id, new |-> new] \in CallState
  BY <1>1 DEF CallState
<1>3. call' \in [Clients -> CallState]
  BY <1>2, ContinueTypes DEF CheckUpdate
<1>4. calls' \in 0..MaxCalls /\ overlapped' \subseteq Clients
  BY BeginCounts DEF CheckUpdate
<1> QED BY <1>3, <1>4 DEF ReferencesTypeOK, CheckUpdate

LEMMA DeleteRowTypes ==
    ASSUME ReferencesTypeOK, NEW c \in Clients, NEW id \in DOMAIN rows, DeleteRow(c, id)
    PROVE  ReferencesTypeOK'
<1>1. id \in RowIds
  BY ReferencesAssumption DEF ReferencesTypeOK, RowIds
<1>2. [op |-> "unlinking", id |-> id] \in CallState
  BY <1>1 DEF CallState
<1>3. call' \in [Clients -> CallState]
  BY <1>2, ContinueTypes DEF DeleteRow
<1>4. calls' \in 0..MaxCalls /\ overlapped' \subseteq Clients
  BY BeginCounts DEF DeleteRow
<1>5. DOMAIN rows' = DOMAIN rows \ {id} /\ \A i \in DOMAIN rows' : rows'[i] = rows[i]
  BY DEF DeleteRow, Restrict
<1> QED BY <1>3, <1>4, <1>5 DEF ReferencesTypeOK, DeleteRow

\* The rows that RowStep writes.
LEMMA NewRows ==
    ASSUME ReferencesTypeOK, NEW n \in Names, NEW s \in Texts
    PROVE  /\ [kind |-> "note", campaign |-> activeCampaign, name |-> n, text |-> s] \in Row
           /\ \A t \in TypeIds :
                [kind |-> "codex", campaign |-> activeCampaign, type |-> t, name |-> n,
                 text |-> s] \in Row
BY DEF Row, ReferencesTypeOK

LEMMA RowStepTypes ==
    ASSUME ReferencesTypeOK, NEW c \in Clients, RowStep(c)
    PROVE  ReferencesTypeOK'
<1>1. ASSUME NEW t \in TypeIds, NEW n \in Names, NEW s \in Texts, CreateEntry(c, t, n, s)
      PROVE  ReferencesTypeOK'
  BY <1>1, NewRows, InsertTypes DEF CreateEntry
<1>2. ASSUME NEW t \in TypeIds, NEW n \in Names, NEW s \in Texts, UpdateEntry(c, t, n, s)
      PROVE  ReferencesTypeOK'
  BY <1>2, NewRows, CheckUpdateTypes DEF UpdateEntry, ChosenRows
<1>3. ASSUME NEW n \in Names, NEW s \in Texts, CreateNote(c, n, s)
      PROVE  ReferencesTypeOK'
  BY <1>3, NewRows, InsertTypes DEF CreateNote
<1>4. ASSUME NEW n \in Names, NEW s \in Texts, UpdateNote(c, n, s)
      PROVE  ReferencesTypeOK'
  BY <1>4, NewRows, CheckUpdateTypes DEF UpdateNote, ChosenRows
<1>5. CASE UpdateText(c)
  BY <1>5, UpdateTextTypes
<1>6. CASE ClearLinks(c)
  BY <1>6, ClearLinksTypes
<1>7. CASE InsertLink(c)
  BY <1>7, InsertLinkTypes
<1>8. CASE ReturnSaved(c)
  BY <1>8, ReturnTypes DEF ReturnSaved, ReferencesTypeOK
<1>9. CASE DeleteEntry(c)
  BY <1>9, DeleteRowTypes DEF DeleteEntry, ChosenRows
<1>10. CASE DeleteNote(c)
  BY <1>10, DeleteRowTypes DEF DeleteNote, ChosenRows
<1>11. CASE DeleteBySource(c)
  <2>1. LinksTypeOK'
    BY <1>11, LinksWithout DEF DeleteBySource, ReferencesTypeOK, LinksTypeOK
  <2> QED BY <1>11, <2>1, ReturnTypes DEF DeleteBySource, ReferencesTypeOK, LinksTypeOK
<1> QED BY <1>1, <1>2, <1>3, <1>4, <1>5, <1>6, <1>7, <1>8, <1>9, <1>10, <1>11 DEF RowStep

LEMMA OnlineAreClients == ASSUME ReferencesTypeOK PROVE online \subseteq Clients
BY DEF ReferencesTypeOK

LEMMA ReferencesTypeInit == ReferencesInit => ReferencesTypeOK
<1> SUFFICES ASSUME ReferencesInit PROVE ReferencesTypeOK
  OBVIOUS
<1>1. DOMAIN rows = {}
  BY DEF ReferencesInit
<1>2. links = [l \in {} |-> 1]
  BY DEF ReferencesInit, EmptyBag, SetToBag
<1>3. LinksTypeOK
  BY <1>2 DEF LinksTypeOK, IsABag
<1>4. call \in [Clients -> CallState]
  BY DEF ReferencesInit, CallState
<1> QED BY <1>1, <1>3, <1>4, ReferencesAssumption DEF ReferencesInit, ReferencesTypeOK, LinksTypeOK

LEMMA ReferencesTypeNext == ReferencesTypeOK /\ [ReferencesNext]_referencesVars => ReferencesTypeOK'
<1> SUFFICES ASSUME ReferencesTypeOK, [ReferencesNext]_referencesVars
             PROVE  ReferencesTypeOK'
  OBVIOUS
<1>1. ASSUME NEW c \in online, TypeStep(c)
      PROVE  ReferencesTypeOK'
  BY <1>1, TypeStepTypes, OnlineAreClients
<1>2. ASSUME NEW c \in online, RowStep(c)
      PROVE  ReferencesTypeOK'
  BY <1>2, RowStepTypes, OnlineAreClients
<1>3. ASSUME NEW c \in online, Fail(c)
      PROVE  ReferencesTypeOK'
  <2>1. failures' \in 0..MaxFailures
    BY <1>3, ReferencesAssumption DEF Fail, ReferencesTypeOK
  <2>2. Idle \in CallState /\ c \in Clients
    BY OnlineAreClients DEF CallState
  <2> QED BY <1>3, <2>1, <2>2, ContinueTypes DEF Fail, ReferencesTypeOK
<1>4. ASSUME NEW c \in online, NEW k \in CampaignIds, SwitchCampaign(c, k)
      PROVE  ReferencesTypeOK'
  BY <1>4 DEF SwitchCampaign, ReferencesTypeOK
<1>5. CASE UNCHANGED referencesVars
  BY <1>5 DEF referencesVars, ReferencesTypeOK
<1> QED BY <1>1, <1>2, <1>3, <1>4, <1>5 DEF ReferencesNext

\* Tables keep to their schema, links are a bag of links, and calls carry what their
\* statements need, for any clients, campaigns, names and texts.
THEOREM ReferencesTypeCorrect == ReferencesSpec => []ReferencesTypeOK
BY ReferencesTypeInit, ReferencesTypeNext, PTL DEF ReferencesSpec

----------------------------------------
(* The invariants.                                                         *)

InCall(c) == call[c] # Idle
Saving(c) == call[c].op \in {"updating", "clearing", "linking"}

\* Identifiers are not used again, so what runs and what is linked is of a row that was
\* made; a save keeps the kind of its row, and of an entry the campaign.
CallsFollowRows ==
    /\ \A c \in Clients : InCall(c) => call[c].id \in 1..made
    /\ \A l \in DOMAIN links : l.source \in 1..made
    /\ \A c \in Clients : Saving(c) /\ call[c].id \in DOMAIN rows =>
          /\ call[c].new.kind = rows[call[c].id].kind
          /\ call[c].new.kind = "codex" => call[c].new.campaign = rows[call[c].id].campaign

LinkTo(c, n) ==
    [source |-> call[c].id, campaign |-> call[c].new.campaign, name |-> call[c].new.name,
     to |-> n]

\* How far a save has come: which of the references have their links.
LinkedSoFar(c) ==
    /\ \A l \in LinksOf(call[c].id) :
          l.campaign = call[c].new.campaign /\ l.name = call[c].new.name
    /\ \A n \in Names : Copies(LinkTo(c, n)) + Occurrences(n, call[c].rest)
                          = Occurrences(n, call[c].new.text)

\* A call that no other has met has its row to itself: as it wrote it, or gone.
LoneCall(c) ==
    /\ Others(c, call[c].id) = {}
    /\ Saving(c) => call[c].id \in DOMAIN rows
    /\ call[c].op \in {"clearing", "linking"} =>
          /\ rows[call[c].id].name = call[c].new.name
          /\ rows[call[c].id].text = call[c].new.text
    /\ call[c].op = "unlinking" => call[c].id \notin DOMAIN rows
    /\ call[c].op = "linking" => LinkedSoFar(c)

LoneCalls == \A c \in Clients \ overlapped : InCall(c) => LoneCall(c)

Linked(id, k, n) == \E l \in LinksOf(id) : l.campaign = k /\ l.to = n

\* What the running call of a sole client has still to do.
SoleCall(c) ==
    /\ Saving(c) =>
          /\ call[c].id \in DOMAIN rows
          /\ call[c].new.campaign = rows[call[c].id].campaign
    /\ call[c].op \in {"clearing", "linking"} => rows[call[c].id].text = call[c].new.text
    /\ call[c].op = "linking" =>
          \A n \in ToSet(ParseReferences(call[c].new.text)) :
             n \in ToSet(call[c].rest) \/ Linked(call[c].id, call[c].new.campaign, n)
    /\ call[c].op = "unlinking" => call[c].id \notin DOMAIN rows

\* All rows of a sole client whose calls go through have their links, except the one
\* that is being saved.
SoleRowsAreLinked ==
    \A c \in Clients : online = {c} /\ failures = 0 =>
        /\ shown[c] = activeCampaign
        /\ \A d \in Clients \ {c} : ~InCall(d)
        /\ SoleCall(c)
        /\ \A id \in DOMAIN rows :
              \/ InCall(c) /\ call[c].id = id
              \/ \A n \in ToSet(ParseReferences(rows[id].text)) : Linked(id, rows[id].campaign, n)

----------------------------------------
(* Steps.                                                                  *)

Creates(c) == \E row \in Row : row.campaign = activeCampaign /\ Insert(c, row)

Updates(c) ==
    \E id \in DOMAIN rows, new \in Row :
        /\ rows[id].campaign = shown[c]
        /\ new.campaign = activeCampaign /\ new.kind = rows[id].kind
        /\ new.kind = "codex" => rows[id].campaign = activeCampaign
        /\ CheckUpdate(c, id, new)

Deletes(c) == \E id \in DOMAIN rows : DeleteRow(c, id)

Switches(c) == \E k \in CampaignIds : SwitchCampaign(c, k)

Quiet == UNCHANGED <<rows, links, made, activeCampaign, shown, call, overlapped, failures, online>>

\* The steps, by what they do to rows, links and calls.
LEMMA StepCases ==
    ASSUME ReferencesTypeOK, [ReferencesNext]_referencesVars
    PROVE  \/ Quiet
           \/ \E c \in online :
                \/ Creates(c) \/ Updates(c) \/ Deletes(c) \/ Switches(c) \/ Fail(c)
                \/ UpdateText(c) \/ ClearLinks(c) \/ InsertLink(c) \/ ReturnSaved(c)
                \/ DeleteBySource(c)
<1>1. CASE UNCHANGED referencesVars
  BY <1>1 DEF referencesVars, Quiet
<1>2. ASSUME NEW c \in online, TypeStep(c)
      PROVE  Quiet
  BY <1>2 DEF TypeStep, CreateType, RenameType, DeleteType, TypeCall, Quiet
<1>3. ASSUME NEW c \in online, RowStep(c)
      PROVE  \/ Creates(c) \/ Updates(c) \/ Deletes(c)
             \/ UpdateText(c) \/ ClearLinks(c) \/ InsertLink(c) \/ ReturnSaved(c)
             \/ DeleteBySource(c)
  <2>1. ASSUME NEW t \in TypeIds, NEW n \in Names, NEW s \in Texts, CreateEntry(c, t, n, s)
        PROVE  Creates(c)
    BY <2>1, NewRows DEF CreateEntry, Creates
  <2>2. ASSUME NEW t \in TypeIds, NEW n \in Names, NEW s \in Texts, UpdateEntry(c, t, n, s)
        PROVE  Updates(c)
    BY <2>2, NewRows DEF UpdateEntry, ChosenRows, Updates
  <2>3. ASSUME NEW n \in Names, NEW s \in Texts, CreateNote(c, n, s)
        PROVE  Creates(c)
    BY <2>3, NewRows DEF CreateNote, Creates
  <2>4. ASSUME NEW n \in Names, NEW s \in Texts, UpdateNote(c, n, s)
        PROVE  Updates(c)
    <3> DEFINE new == [kind |-> "note", campaign |-> activeCampaign, name |-> n, text |-> s]
    <3>1. new \in Row /\ new.kind = "note" /\ new.campaign = activeCampaign
      BY NewRows
    <3> QED BY <2>4, <3>1 DEF UpdateNote, ChosenRows, Updates
  <2>5. DeleteEntry(c) \/ DeleteNote(c) => Deletes(c)
    BY DEF DeleteEntry, DeleteNote, ChosenRows, Deletes
  <2> QED BY <1>3, <2>1, <2>2, <2>3, <2>4, <2>5 DEF RowStep
<1> QED BY <1>1, <1>2, <1>3 DEF ReferencesNext, Switches

\* Each step is of one call.
LEMMA OneCall ==
    ASSUME ReferencesTypeOK, NEW c \in Clients, NEW next, Continue(c, next)
    PROVE  call'[c] = next /\ \A d \in Clients \ {c} : call'[d] = call[d]
BY DEF Continue, ReferencesTypeOK

LEMMA RunningCalls ==
    ASSUME ReferencesTypeOK, NEW c \in Clients
    PROVE  /\ InCall(c) => call[c].id \in RowIds
           /\ Saving(c) => InCall(c) /\ call[c].new \in Row
           /\ call[c].op = "unlinking" => InCall(c)
           /\ InCall(c) => Saving(c) \/ call[c].op = "unlinking"
           /\ call[c].op = "linking" => call[c].rest \in Seq(Names)
<1>1. call[c] \in CallState
  BY DEF ReferencesTypeOK
<1>2. Idle.op = "idle"
  BY DEF Idle
<1>3. call[c].op = "idle" => ~InCall(c)
  BY <1>1, CallShapes DEF InCall
<1> QED BY <1>1, <1>2, <1>3, CallShapes DEF InCall, Saving

\* What is written of a row: all but its campaign.
LEMMA UpdateTextWrites ==
    ASSUME ReferencesTypeOK, CallsFollowRows, NEW c \in Clients, UpdateText(c)
    PROVE  /\ DOMAIN rows' = DOMAIN rows
           /\ \A id \in DOMAIN rows :
                /\ rows'[id].kind = rows[id].kind /\ rows'[id].campaign = rows[id].campaign
                /\ id = call[c].id => /\ rows'[id].name = call[c].new.name
                                      /\ rows'[id].text = call[c].new.text
                /\ id # call[c].id => rows'[id] = rows[id]
           /\ call[c].op = "updating" /\ call'[c].op = "clearing"
           /\ call'[c].id = call[c].id /\ call'[c].new = call[c].new
           /\ \A d \in Clients \ {c} : call'[d] = call[d]
<1>1. call[c] \in [op : {"updating"}, id : RowIds, new : Row]
  BY CallShapes DEF ReferencesTypeOK, UpdateText
<1>2. /\ call[c].op = "updating" /\ call'[c].op = "clearing"
      /\ call'[c].id = call[c].id /\ call'[c].new = call[c].new
      /\ \A d \in Clients \ {c} : call'[d] = call[d]
  BY <1>1, OneCall DEF UpdateText
<1>3. DOMAIN rows' = DOMAIN rows
  BY DEF UpdateText
<1>4. ASSUME NEW id \in DOMAIN rows
      PROVE  /\ rows'[id].kind = rows[id].kind /\ rows'[id].campaign = rows[id].campaign
             /\ id = call[c].id => /\ rows'[id].name = call[c].new.name
                                   /\ rows'[id].text = call[c].new.text
             /\ id # call[c].id => rows'[id] = rows[id]
  <2>1. CASE id = call[c].id
    <3> DEFINE new == call[c].new
    <3>1. rows'[id] = [new EXCEPT !.campaign = rows[id].campaign]
      BY <2>1 DEF UpdateText
    <3>2. new \in Row /\ rows[id].campaign \in CampaignIds
      BY <1>1, RowShapes DEF ReferencesTypeOK
    <3>3. new.kind = rows[id].kind
      BY <1>2, <2>1 DEF CallsFollowRows, Saving
    <3> HIDE DEF new
    <3>4. /\ rows'[id].kind = new.kind /\ rows'[id].campaign = rows[id].campaign
          /\ rows'[id].name = new.name /\ rows'[id].text = new.text
      BY <3>1, <3>2, RowShapes
    <3> QED BY <2>1, <3>3, <3>4 DEF new
  <2>2. CASE id # call[c].id
    BY <2>2 DEF UpdateText
  <2> QED BY <2>1, <2>2
<1> QED BY <1>2, <1>3, <1>4

\* What is cleared.
LEMMA ClearLinksWrites ==
    ASSUME ReferencesTypeOK, NEW c \in Clients, ClearLinks(c)
    PROVE  /\ call[c].op = "clearing" /\ call'[c].op = "linking"
           /\ call'[c].id = call[c].id /\ call'[c].new = call[c].new
           /\ call'[c].rest = ParseReferences(call[c].new.text)
           /\ \A d \in Clients \ {c} : call'[d] = call[d]
           /\ LinksTypeOK /\ DOMAIN links' = {l \in DOMAIN links : l.source # call[c].id}
           /\ \A l \in DOMAIN links' : links'[l] = links[l]
<1>1. call'[c] = [op |-> "linking", id |-> call[c].id, new |-> call[c].new,
                  rest |-> ParseReferences(call[c].new.text)]
      /\ \A d \in Clients \ {c} : call'[d] = call[d]
  BY OneCall DEF ClearLinks
<1>2. LinksTypeOK
  BY DEF ReferencesTypeOK, LinksTypeOK
<1> QED BY <1>1, <1>2, LinksWithout DEF ClearLinks

LEMMA DeleteBySourceWrites ==
    ASSUME ReferencesTypeOK, NEW c \in Clients, DeleteBySource(c)
    PROVE  /\ call[c].op = "unlinking" /\ call'[c] = Idle
           /\ \A d \in Clients \ {c} : call'[d] = call[d]
           /\ DOMAIN links' = {l \in DOMAIN links : l.source # call[c].id}
           /\ \A l \in DOMAIN links' : links'[l] = links[l]
<1>1. call'[c] = Idle /\ \A d \in Clients \ {c} : call'[d] = call[d]
  BY OneCall DEF DeleteBySource, Return
<1>2. LinksTypeOK
  BY DEF ReferencesTypeOK, LinksTypeOK
<1> QED BY <1>1, <1>2, LinksWithout DEF DeleteBySource

LEMMA InsertLinkWrites ==
    ASSUME ReferencesTypeOK, NEW c \in Clients, InsertLink(c)
    PROVE  /\ call[c].op = "linking" /\ call[c].rest \in Seq(Names) /\ call[c].rest # <<>>
           /\ call'[c].op = "linking" /\ call'[c].id = call[c].id /\ call'[c].new = call[c].new
           /\ call'[c].rest = Tail(call[c].rest)
           /\ \A d \in Clients \ {c} : call'[d] = call[d]
           /\ DOMAIN links' = DOMAIN links \cup {NextLink(c)}
           /\ \A l : Copies(l)' = Copies(l) + (IF l = NextLink(c) THEN 1 ELSE 0)
           /\ \A l : Copies(l) \in Nat
<1>1. LinksTypeOK
  BY DEF ReferencesTypeOK, LinksTypeOK
<1> QED BY <1>1, InsertLinkAdds, LinksWith

LEMMA InsertWrites ==
    ASSUME ReferencesTypeOK, CallsFollowRows, NEW c \in Clients, NEW row \in Row, Insert(c, row)
    PROVE  /\ call[c] = Idle
           /\ call'[c].op = "clearing" /\ call'[c].id = made + 1 /\ call'[c].new = row
           /\ \A d \in Clients \ {c} : call'[d] = call[d] /\ (InCall(d) => call[d].id # made + 1)
           /\ DOMAIN rows' = DOMAIN rows \cup {made + 1} /\ made + 1 \notin DOMAIN rows
           /\ rows'[made + 1] = row /\ \A id \in DOMAIN rows : rows'[id] = rows[id]
           /\ \A l \in DOMAIN links : l.source # made + 1
           /\ made \in Nat /\ made' = made + 1
           /\ Others(c, made + 1) = {} /\ overlapped' = overlapped \ {c}
<1>1. made \in Nat /\ made' = made + 1 /\ made + 1 \notin 1..made
  BY DEF ReferencesTypeOK, Insert
<1>2. /\ call'[c] = [op |-> "clearing", id |-> made + 1, new |-> row]
      /\ \A d \in Clients \ {c} : call'[d] = call[d]
  BY OneCall DEF Insert
<1>3. \A d \in Clients : InCall(d) => call[d].id # made + 1
  BY <1>1 DEF CallsFollowRows
<1>4. Others(c, made + 1) = {}
  BY <1>3 DEF Others, InCall
<1> QED BY <1>1, <1>2, <1>3, <1>4 DEF Insert, Begin, CallsFollowRows, ReferencesTypeOK

----------------------------------------
(* What runs and is linked follows the rows.                               *)

LEMMA CallsFollowRowsNext ==
    ASSUME ReferencesTypeOK, CallsFollowRows, [ReferencesNext]_referencesVars
    PROVE  CallsFollowRows'
<1>0. made \in Nat
  BY DEF ReferencesTypeOK
<1>1. CASE Quiet
  BY <1>1 DEF Quiet, CallsFollowRows, InCall, Saving
<1>2. ASSUME NEW c \in Clients, Creates(c)
      PROVE  CallsFollowRows'
  <2>1. PICK row \in Row : row.campaign = activeCampaign /\ Insert(c, row)
    BY <1>2 DEF Creates
  <2>2. links' = links
    BY <2>1 DEF Insert
  <2>3. /\ made' = made + 1
        /\ call'[c].id = made + 1 /\ call'[c].new = row
        /\ rows'[made + 1] = row /\ \A id \in DOMAIN rows : rows'[id] = rows[id]
        /\ DOMAIN rows' = DOMAIN rows \cup {made + 1}
        /\ \A d \in Clients \ {c} : call'[d] = call[d] /\ (InCall(d) => call[d].id # made + 1)
    BY <2>1, InsertWrites
  <2>4. ASSUME NEW d \in Clients, InCall(d)'
        PROVE  call'[d].id \in 1..made'
    BY <1>0, <2>3, <2>4 DEF InCall, CallsFollowRows
  <2>5. ASSUME NEW d \in Clients, Saving(d)', call'[d].id \in DOMAIN rows'
        PROVE  /\ call'[d].new.kind = rows'[call'[d].id].kind
               /\ call'[d].new.kind = "codex" => call'[d].new.campaign = rows'[call'[d].id].campaign
    <3>1. CASE d = c
      BY <2>3, <3>1
    <3>2. CASE d # c
      <4>1. call'[d] = call[d] /\ Saving(d)
        BY <2>3, <2>5, <3>2 DEF Saving
      <4>2. call[d].id \in DOMAIN rows
        BY <2>3, <2>5, <3>2, <4>1, RunningCalls
      <4> QED BY <2>3, <4>1, <4>2 DEF CallsFollowRows
    <3> QED BY <3>1, <3>2
  <2>6. \A l \in DOMAIN links' : l.source \in 1..made'
    BY <1>0, <2>2, <2>3 DEF CallsFollowRows
  <2> QED BY <2>4, <2>5, <2>6 DEF CallsFollowRows
<1>3. ASSUME NEW c \in Clients, Updates(c)
      PROVE  CallsFollowRows'
  <2>1. PICK id \in DOMAIN rows, new \in Row :
          /\ new.campaign = activeCampaign /\ new.kind = rows[id].kind
          /\ new.kind = "codex" => rows[id].campaign = activeCampaign
          /\ CheckUpdate(c, id, new)
    BY <1>3 DEF Updates
  <2>2. /\ call'[c].id = id /\ call'[c].new = new
        /\ \A d \in Clients \ {c} : call'[d] = call[d]
    BY <2>1, OneCall DEF CheckUpdate
  <2>3. id \in 1..made
    BY DEF ReferencesTypeOK
  <2>4. UNCHANGED <<rows, links, made>>
    BY <2>1 DEF CheckUpdate
  <2>5. ASSUME NEW d \in Clients, InCall(d)'
        PROVE  call'[d].id \in 1..made'
    BY <2>2, <2>3, <2>4, <2>5 DEF InCall, CallsFollowRows
  <2>6. ASSUME NEW d \in Clients, Saving(d)', call'[d].id \in DOMAIN rows'
        PROVE  /\ call'[d].new.kind = rows'[call'[d].id].kind
               /\ call'[d].new.kind = "codex" => call'[d].new.campaign = rows'[call'[d].id].campaign
    <3>1. CASE d = c
      BY <2>1, <2>2, <2>4, <3>1
    <3>2. CASE d # c
      BY <2>2, <2>4, <2>6, <3>2 DEF CallsFollowRows, Saving
    <3> QED BY <3>1, <3>2
  <2> QED BY <2>4, <2>5, <2>6 DEF CallsFollowRows
<1>4. ASSUME NEW c \in Clients, Deletes(c)
      PROVE  CallsFollowRows'
  <2>1. PICK id \in DOMAIN rows : DeleteRow(c, id)
    BY <1>4 DEF Deletes
  <2>2. /\ call'[c].id = id /\ call'[c].op = "unlinking"
        /\ \A d \in Clients \ {c} : call'[d] = call[d]
    BY <2>1, OneCall DEF DeleteRow
  <2>3. id \in 1..made
    BY DEF ReferencesTypeOK
  <2>4. /\ UNCHANGED <<links, made>>
        /\ DOMAIN rows' = DOMAIN rows \ {id} /\ \A i \in DOMAIN rows' : rows'[i] = rows[i]
    BY <2>1 DEF DeleteRow, Restrict
  <2>5. ASSUME NEW d \in Clients, InCall(d)'
        PROVE  call'[d].id \in 1..made'
    BY <2>2, <2>3, <2>4, <2>5 DEF InCall, CallsFollowRows
  <2>6. ASSUME NEW d \in Clients, Saving(d)', call'[d].id \in DOMAIN rows'
        PROVE  /\ call'[d].new.kind = rows'[call'[d].id].kind
               /\ call'[d].new.kind = "codex" => call'[d].new.campaign = rows'[call'[d].id].campaign
    BY <2>2, <2>4, <2>6 DEF CallsFollowRows, Saving
  <2> QED BY <2>4, <2>5, <2>6 DEF CallsFollowRows
<1>5. ASSUME NEW c \in Clients, Switches(c)
      PROVE  CallsFollowRows'
  BY <1>5 DEF Switches, SwitchCampaign, CallsFollowRows, InCall, Saving
<1>6. ASSUME NEW c \in Clients, UNCHANGED <<rows, made>>, DOMAIN links' \subseteq DOMAIN links,
             call'[c] = Idle, \A d \in Clients \ {c} : call'[d] = call[d]
      PROVE  CallsFollowRows'
  <2>1. Idle.op = "idle"
    BY DEF Idle
  <2> QED BY <1>6, <2>1 DEF CallsFollowRows, InCall, Saving
<1>7. ASSUME NEW c \in Clients, Fail(c) \/ ReturnSaved(c) \/ DeleteBySource(c)
      PROVE  CallsFollowRows'
  <2>1. Continue(c, Idle) /\ UNCHANGED <<rows, made>>
    BY <1>7 DEF Fail, ReturnSaved, DeleteBySource, Return
  <2>2. DOMAIN links' \subseteq DOMAIN links
    BY <1>7, DeleteBySourceWrites DEF Fail, ReturnSaved
  <2> QED BY <1>6, <2>1, <2>2, OneCall
<1>8. ASSUME NEW c \in Clients, UpdateText(c)
      PROVE  CallsFollowRows'
  <2>1. UNCHANGED <<links, made>>
    BY <1>8 DEF UpdateText
  <2>2. Saving(c) /\ InCall(c)
    BY <1>8, RunningCalls DEF UpdateText, Saving
  <2>3. ASSUME NEW d \in Clients
        PROVE  /\ call'[d].id = call[d].id
               /\ InCall(d)' => InCall(d)
               /\ Saving(d)' => Saving(d) /\ call'[d].new = call[d].new
    BY <1>8, <2>2, UpdateTextWrites DEF InCall, Saving
  <2> QED BY <1>8, <2>1, <2>3, UpdateTextWrites DEF CallsFollowRows
<1>9. ASSUME NEW c \in Clients, ClearLinks(c)
      PROVE  CallsFollowRows'
  <2>1. UNCHANGED <<rows, made>>
    BY <1>9 DEF ClearLinks
  <2>2. Saving(c) /\ InCall(c)
    BY <1>9, RunningCalls DEF ClearLinks, Saving
  <2>3. ASSUME NEW d \in Clients
        PROVE  /\ call'[d].id = call[d].id
               /\ InCall(d)' => InCall(d)
               /\ Saving(d)' => Saving(d) /\ call'[d].new = call[d].new
    BY <1>9, <2>2, ClearLinksWrites DEF InCall, Saving
  <2>4. DOMAIN links' \subseteq DOMAIN links
    BY <1>9, ClearLinksWrites
  <2> QED BY <2>1, <2>3, <2>4 DEF CallsFollowRows
<1>10. ASSUME NEW c \in Clients, InsertLink(c)
       PROVE  CallsFollowRows'
  <2>1. UNCHANGED <<rows, made>>
    BY <1>10 DEF InsertLink
  <2>2. Saving(c) /\ InCall(c)
    BY <1>10, RunningCalls DEF InsertLink, Saving
  <2>3. ASSUME NEW d \in Clients
        PROVE  /\ call'[d].id = call[d].id
               /\ InCall(d)' => InCall(d)
               /\ Saving(d)' => Saving(d) /\ call'[d].new = call[d].new
    BY <1>10, <2>2, InsertLinkWrites DEF InCall, Saving
  <2>4. DOMAIN links' = DOMAIN links \cup {NextLink(c)} /\ NextLink(c).source = call[c].id
    BY <1>10, InsertLinkWrites DEF NextLink
  <2>5. \A l \in DOMAIN links' : l.source \in 1..made
    BY <2>2, <2>4 DEF CallsFollowRows
  <2> QED BY <2>1, <2>3, <2>5 DEF CallsFollowRows
<1> QED BY <1>1, <1>2, <1>3, <1>4, <1>5, <1>7, <1>8, <1>9, <1>10, StepCases, OnlineAreClients

LEMMA CallsFollowRowsInit == ReferencesInit => CallsFollowRows
<1> SUFFICES ASSUME ReferencesInit PROVE CallsFollowRows
  OBVIOUS
<1>1. DOMAIN links = {} /\ Idle.op = "idle"
  BY DEF ReferencesInit, EmptyBag, SetToBag, Idle
<1>2. \A c \in Clients : ~InCall(c) /\ ~Saving(c)
  BY <1>1 DEF ReferencesInit, InCall, Saving
<1> QED BY <1>1, <1>2 DEF CallsFollowRows

LEMMA CodexLinksInit == ReferencesInit => CodexLinksStayInCampaign
BY DEF ReferencesInit, CodexLinksStayInCampaign, ListAllByTarget, EmptyBag, SetToBag

\* The campaign of a row is never written again, and a save of a codex entry has its
\* row's campaign: its links cannot be of another.
LEMMA CodexLinksNext ==
    ASSUME ReferencesTypeOK, CallsFollowRows, CodexLinksStayInCampaign,
           [ReferencesNext]_referencesVars
    PROVE  CodexLinksStayInCampaign'
<1> DEFINE Follows(l) == l.source \in DOMAIN rows /\ rows[l.source].kind = "codex"
                           => rows[l.source].campaign = l.campaign
<1>1. \A l \in DOMAIN links : Follows(l)
  BY DEF CodexLinksStayInCampaign, ListAllByTarget, ReferencesTypeOK, Link
<1>2. ASSUME \A l \in DOMAIN links' : Follows(l)'
      PROVE  CodexLinksStayInCampaign'
  BY <1>2 DEF CodexLinksStayInCampaign, ListAllByTarget
<1>3. ASSUME DOMAIN links' \subseteq DOMAIN links,
             \A id \in DOMAIN rows' : \/ id = made + 1
                                      \/ /\ id \in DOMAIN rows
                                         /\ rows'[id].kind = rows[id].kind
                                         /\ rows'[id].campaign = rows[id].campaign
      PROVE  CodexLinksStayInCampaign'
  <2>1. \A l \in DOMAIN links : l.source # made + 1
    BY DEF CallsFollowRows, ReferencesTypeOK
  <2> QED BY <1>1, <1>2, <1>3, <2>1
<1>4. CASE Quiet
  BY <1>3, <1>4 DEF Quiet
<1>5. ASSUME NEW c \in Clients, Creates(c)
      PROVE  CodexLinksStayInCampaign'
  <2>1. PICK row \in Row : Insert(c, row)
    BY <1>5 DEF Creates
  <2>2. links' = links
    BY <2>1 DEF Insert
  <2>3. \A id \in DOMAIN rows' : id = made + 1 \/ (id \in DOMAIN rows /\ rows'[id] = rows[id])
    BY <2>1, InsertWrites
  <2> QED BY <1>3, <2>2, <2>3
<1>6. ASSUME NEW c \in Clients, Updates(c)
      PROVE  CodexLinksStayInCampaign'
  BY <1>3, <1>6 DEF Updates, CheckUpdate
<1>7. ASSUME NEW c \in Clients, Deletes(c)
      PROVE  CodexLinksStayInCampaign'
  <2>1. PICK id \in DOMAIN rows : DeleteRow(c, id)
    BY <1>7 DEF Deletes
  <2>2. links' = links /\ DOMAIN rows' = DOMAIN rows \ {id}
        /\ \A i \in DOMAIN rows' : rows'[i] = rows[i]
    BY <2>1 DEF DeleteRow, Restrict
  <2> QED BY <1>3, <2>2
<1>8. ASSUME NEW c \in Clients, Switches(c) \/ Fail(c) \/ ReturnSaved(c)
      PROVE  CodexLinksStayInCampaign'
  BY <1>3, <1>8 DEF Switches, SwitchCampaign, Fail, ReturnSaved
<1>9. ASSUME NEW c \in Clients, UpdateText(c)
      PROVE  CodexLinksStayInCampaign'
  <2>1. links' = links
    BY <1>9 DEF UpdateText
  <2> QED BY <1>3, <1>9, <2>1, UpdateTextWrites
<1>10. ASSUME NEW c \in Clients, ClearLinks(c) \/ DeleteBySource(c)
       PROVE  CodexLinksStayInCampaign'
  <2>1. rows' = rows
    BY <1>10 DEF ClearLinks, DeleteBySource
  <2>2. DOMAIN links' \subseteq DOMAIN links
    BY <1>10, ClearLinksWrites, DeleteBySourceWrites
  <2> QED BY <1>3, <2>1, <2>2
<1>11. ASSUME NEW c \in Clients, InsertLink(c)
       PROVE  CodexLinksStayInCampaign'
  <2>1. rows' = rows
    BY <1>11 DEF InsertLink
  <2>2. /\ DOMAIN links' = DOMAIN links \cup {NextLink(c)} /\ call[c].op = "linking"
        /\ NextLink(c).source = call[c].id /\ NextLink(c).campaign = call[c].new.campaign
    BY <1>11, InsertLinkWrites DEF NextLink
  <2>3. Follows(NextLink(c))
    BY <2>2 DEF CallsFollowRows, Saving
  <2> HIDE DEF Follows
  <2>4. \A l \in DOMAIN links' : Follows(l)
    BY <1>1, <2>2, <2>3
  <2> QED BY <1>2, <2>1, <2>4 DEF Follows
<1> QED BY <1>4, <1>5, <1>6, <1>7, <1>8, <1>9, <1>10, <1>11, StepCases, OnlineAreClients

\* For any number of clients that switch campaigns between each other's statements:
\* what a campaign shows as linked from a codex entry is linked from one of its own.
THEOREM CodexLinksCorrect == ReferencesSpec => []CodexLinksStayInCampaign
BY ReferencesTypeCorrect, CallsFollowRowsInit, CallsFollowRowsNext, CodexLinksInit,
   CodexLinksNext, PTL DEF ReferencesSpec

----------------------------------------
(* A call that no other meets.                                             *)

\* The step of another call, on another row.
LEMMA LoneCallKept ==
    ASSUME ReferencesTypeOK, NEW c \in Clients, NEW d \in Clients \ {c}, NEW x,
           InCall(c), LoneCall(c), x # call[c].id,
           \A e \in Clients \ {d} : call'[e] = call[e],
           call'[d] # Idle => call'[d].id = x,
           \A id : id # x => /\ id \in DOMAIN rows' <=> id \in DOMAIN rows
                             /\ id \in DOMAIN rows => rows'[id] = rows[id],
           \A l : l.source # x => /\ l \in DOMAIN links' <=> l \in DOMAIN links
                                  /\ l \in DOMAIN links => links'[l] = links[l]
    PROVE  LoneCall(c)'
<1> DEFINE id == call[c].id
<1>1. call'[c] = call[c]
  OBVIOUS
<1>2. Others(c, id)' = {}
  BY <1>1 DEF Others, LoneCall
<1>3. /\ Saving(c)' => id \in DOMAIN rows'
      /\ call[c].op \in {"clearing", "linking"} =>
          rows'[id].name = call[c].new.name /\ rows'[id].text = call[c].new.text
      /\ call[c].op = "unlinking" => id \notin DOMAIN rows'
  BY <1>1 DEF LoneCall, Saving
<1>4. ASSUME call[c].op = "linking", LinkedSoFar(c)
      PROVE  LinkedSoFar(c)'
  <2>1. \A l \in LinksOf(id)' : l \in LinksOf(id)
    BY <1>1 DEF LinksOf
  <2>2. ASSUME NEW n \in Names
        PROVE  Copies(LinkTo(c, n))' = Copies(LinkTo(c, n))
    BY <1>1 DEF Copies, BagIn, BagToSet, LinkTo
  <2> QED BY <1>1, <1>4, <2>1, <2>2 DEF LinkedSoFar
<1> QED BY <1>1, <1>2, <1>3, <1>4 DEF LoneCall, Saving

\* Calls that begin meet those that are on the row.
LEMMA BeginMeets ==
    ASSUME ReferencesTypeOK, NEW c \in Clients, NEW d \in Clients \ {c}, NEW x,
           Begin(d, x), c \notin overlapped', InCall(c)
    PROVE  c \notin overlapped /\ x # call[c].id
BY DEF Begin, Others, InCall

LEMMA LoneCallClears ==
    ASSUME ReferencesTypeOK, NEW c \in Clients, ClearLinks(c), LoneCall(c)
    PROVE  LinkedSoFar(c)'
<1>1. /\ call'[c].id = call[c].id /\ call'[c].new = call[c].new
      /\ call'[c].rest = ParseReferences(call[c].new.text)
      /\ DOMAIN links' = {l \in DOMAIN links : l.source # call[c].id}
  BY ClearLinksWrites
<1>2. LinksOf(call[c].id)' = {}
  BY <1>1 DEF LinksOf
<1>3. \A n \in Names : Copies(LinkTo(c, n))' = 0
  BY <1>1 DEF Copies, BagIn, BagToSet, LinkTo
<1>4. call[c].new.text \in Seq(Names \cup {NoName})
  <2>1. call[c] \in [op : {"clearing"}, id : RowIds, new : Row]
    BY CallShapes DEF ReferencesTypeOK, ClearLinks
  <2> QED BY <2>1, RowShapes, ReferencesAssumption
<1>5. ASSUME NEW n \in Names
      PROVE  /\ Occurrences(n, ParseReferences(call[c].new.text)) = Occurrences(n, call[c].new.text)
             /\ Occurrences(n, ParseReferences(call[c].new.text)) \in Nat
  <2>1. ParseReferences(call[c].new.text) \in Seq(Names)
    BY <1>4, ParseFinds
  <2> QED BY <1>4, <2>1, ParseFinds, OccurrencesAppended
<1>6. \A n \in Names : Copies(LinkTo(c, n))' + Occurrences(n, call'[c].rest)
                         = Occurrences(n, call'[c].new.text)
  BY <1>1, <1>3, <1>5
<1> QED BY <1>1, <1>2, <1>6 DEF LinkedSoFar

LEMMA LoneCallInserts ==
    ASSUME ReferencesTypeOK, NEW c \in Clients, InsertLink(c), LinkedSoFar(c)
    PROVE  LinkedSoFar(c)'
<1>1. /\ call[c].rest \in Seq(Names) /\ call[c].rest # <<>>
      /\ call'[c].id = call[c].id /\ call'[c].new = call[c].new
      /\ call'[c].rest = Tail(call[c].rest)
      /\ DOMAIN links' = DOMAIN links \cup {NextLink(c)}
      /\ \A l : Copies(l)' = Copies(l) + (IF l = NextLink(c) THEN 1 ELSE 0)
      /\ \A l : Copies(l) \in Nat
  BY InsertLinkWrites
<1>2. \A l \in LinksOf(call[c].id)' : l.campaign = call[c].new.campaign /\ l.name = call[c].new.name
  BY <1>1 DEF LinksOf, NextLink, LinkedSoFar
<1>3. ASSUME NEW n \in Names
      PROVE  Copies(LinkTo(c, n))' + Occurrences(n, Tail(call[c].rest))
               = Occurrences(n, call[c].new.text)
  <2> DEFINE m == LinkTo(c, n)
  <2>1. m = NextLink(c) <=> Head(call[c].rest) = n
    BY DEF LinkTo, NextLink
  <2>2. Copies(LinkTo(c, n))' = Copies(m) + (IF m = NextLink(c) THEN 1 ELSE 0)
    <3>1. LinkTo(c, n)' = LinkTo(c, n)
      BY <1>1 DEF LinkTo
    <3>2. \A l : (IF l \in DOMAIN links' THEN links'[l] ELSE 0)
                   = Copies(l) + (IF l = NextLink(c) THEN 1 ELSE 0)
      BY <1>1 DEF Copies, BagIn, BagToSet
    <3>3. Copies(LinkTo(c, n))' = IF m \in DOMAIN links' THEN links'[m] ELSE 0
      BY <3>1 DEF Copies, BagIn, BagToSet
    <3> QED BY <3>2, <3>3
  <2>3. Copies(m) + Occurrences(n, call[c].rest) = Occurrences(n, call[c].new.text)
    BY DEF LinkedSoFar
  <2>4. /\ Occurrences(n, Tail(call[c].rest)) \in Nat
        /\ Occurrences(n, call[c].rest)
             = Occurrences(n, Tail(call[c].rest)) + (IF Head(call[c].rest) = n THEN 1 ELSE 0)
    BY <1>1, OccurrencesOfTail
  <2>5. Copies(m) \in Nat
    BY <1>1
  <2> HIDE DEF m
  <2> QED BY <2>1, <2>2, <2>3, <2>4, <2>5
<1> QED BY <1>1, <1>2, <1>3 DEF LinkedSoFar

LEMMA LoneCallsInit == ReferencesInit => LoneCalls
BY DEF ReferencesInit, LoneCalls, InCall

LEMMA LoneCallsNext ==
    ASSUME ReferencesTypeOK, CallsFollowRows, LoneCalls, [ReferencesNext]_referencesVars
    PROVE  LoneCalls'
<1> SUFFICES ASSUME NEW c \in Clients, c \notin overlapped', InCall(c)'
             PROVE  LoneCall(c)'
  BY DEF LoneCalls
<1>1. CASE Quiet \/ Switches(c)
  BY <1>1 DEF Quiet, Switches, SwitchCampaign, LoneCalls, LoneCall, InCall, Saving, Others,
              LinkedSoFar, LinksOf, LinkTo, Copies, BagIn, BagToSet
<1>2. CASE Creates(c)
  <2>1. PICK row \in Row : Insert(c, row)
    BY <1>2 DEF Creates
  <2>2. /\ call'[c].op = "clearing" /\ call'[c].id = made + 1 /\ call'[c].new = row
        /\ \A d \in Clients \ {c} : call'[d] = call[d]
        /\ DOMAIN rows' = DOMAIN rows \cup {made + 1} /\ rows'[made + 1] = row
        /\ Others(c, made + 1) = {}
    BY <2>1, InsertWrites
  <2> QED BY <2>2 DEF LoneCall, Others, Saving
<1>3. CASE Updates(c)
  <2>1. PICK id \in DOMAIN rows, new \in Row : CheckUpdate(c, id, new)
    BY <1>3 DEF Updates
  <2>2. /\ call'[c] = [op |-> "updating", id |-> id, new |-> new]
        /\ \A d \in Clients \ {c} : call'[d] = call[d]
    BY <2>1, OneCall DEF CheckUpdate
  <2>3. Others(c, id) = {} /\ rows' = rows
    BY <2>1 DEF CheckUpdate, Begin
  <2> QED BY <2>2, <2>3 DEF LoneCall, Others, Saving
<1>4. CASE Deletes(c)
  <2>1. PICK id \in DOMAIN rows : DeleteRow(c, id)
    BY <1>4 DEF Deletes
  <2>2. /\ call'[c] = [op |-> "unlinking", id |-> id]
        /\ \A d \in Clients \ {c} : call'[d] = call[d]
    BY <2>1, OneCall DEF DeleteRow
  <2>3. Others(c, id) = {} /\ id \notin DOMAIN rows'
    BY <2>1 DEF DeleteRow, Begin, Restrict
  <2> QED BY <2>2, <2>3 DEF LoneCall, Others, Saving
<1>5. CASE Fail(c) \/ ReturnSaved(c) \/ DeleteBySource(c)
  <2>1. call'[c] = Idle
    BY <1>5, OneCall DEF Fail, ReturnSaved, DeleteBySource, Return
  <2> QED BY <2>1 DEF InCall
<1>6. CASE UpdateText(c)
  <2>1. InCall(c) /\ Saving(c)
    BY <1>6, RunningCalls DEF UpdateText, Saving
  <2>2. overlapped' = overlapped
    BY <1>6 DEF UpdateText
  <2>3. LoneCall(c)
    BY <2>1, <2>2 DEF LoneCalls
  <2>4. Others(c, call[c].id)' = {}
    BY <1>6, <2>3, UpdateTextWrites DEF LoneCall, Others
  <2> QED BY <1>6, <2>1, <2>3, <2>4, UpdateTextWrites DEF LoneCall, Saving
<1>7. CASE ClearLinks(c)
  <2>1. InCall(c) /\ Saving(c)
    BY <1>7, RunningCalls DEF ClearLinks, Saving
  <2>2. overlapped' = overlapped /\ rows' = rows
    BY <1>7 DEF ClearLinks
  <2>3. LoneCall(c)
    BY <2>1, <2>2 DEF LoneCalls
  <2>4. Others(c, call[c].id)' = {}
    <3>1. call'[c].id = call[c].id /\ \A d \in Clients \ {c} : call'[d] = call[d]
      BY <1>7, ClearLinksWrites
    <3> QED BY <2>3, <3>1 DEF LoneCall, Others
  <2>5. LinkedSoFar(c)'
    BY <1>7, <2>3, LoneCallClears
  <2> QED BY <1>7, <2>1, <2>2, <2>3, <2>4, <2>5, ClearLinksWrites DEF LoneCall, Saving
<1>8. CASE InsertLink(c)
  <2>1. InCall(c) /\ Saving(c)
    BY <1>8, RunningCalls DEF InsertLink, Saving
  <2>2. overlapped' = overlapped /\ rows' = rows
    BY <1>8 DEF InsertLink
  <2>3. LoneCall(c)
    BY <2>1, <2>2 DEF LoneCalls
  <2>4. Others(c, call[c].id)' = {}
    <3>1. call'[c].id = call[c].id /\ \A d \in Clients \ {c} : call'[d] = call[d]
      BY <1>8, InsertLinkWrites
    <3> QED BY <2>3, <3>1 DEF LoneCall, Others
  <2>5. LinkedSoFar(c)'
    BY <1>8, <2>3, LoneCallInserts, InsertLinkWrites DEF LoneCall
  <2> QED BY <1>8, <2>1, <2>2, <2>3, <2>4, <2>5, InsertLinkWrites DEF LoneCall, Saving
<1>9. ASSUME NEW d \in Clients \ {c},
             \/ Creates(d) \/ Updates(d) \/ Deletes(d) \/ Switches(d) \/ Fail(d)
             \/ UpdateText(d) \/ ClearLinks(d) \/ InsertLink(d) \/ ReturnSaved(d)
             \/ DeleteBySource(d)
      PROVE  LoneCall(c)'
  <2> DEFINE OnlyRow(x) ==
               /\ \A id : id # x => /\ id \in DOMAIN rows' <=> id \in DOMAIN rows
                                    /\ id \in DOMAIN rows => rows'[id] = rows[id]
               /\ \A l : l.source # x => /\ l \in DOMAIN links' <=> l \in DOMAIN links
                                         /\ l \in DOMAIN links => links'[l] = links[l]
             Apart(x) ==
               /\ \A e \in Clients \ {d} : call'[e] = call[e]
               /\ call'[d] # Idle => call'[d].id = x
  <2>1. ASSUME NEW x, OnlyRow(x), Apart(x), c \notin overlapped, x # call[c].id
        PROVE  LoneCall(c)'
    <3>1. InCall(c)
      BY <2>1 DEF InCall
    <3>2. LoneCall(c)
      BY <2>1, <3>1 DEF LoneCalls
    <3> QED BY <2>1, <3>1, <3>2, LoneCallKept
  <2>2. ASSUME NEW x, OnlyRow(x), Apart(x), Begin(d, x)
        PROVE  LoneCall(c)'
    <3>1. InCall(c)
      BY <2>2 DEF InCall
    <3>2. c \notin overlapped /\ x # call[c].id
      BY <2>2, <3>1, BeginMeets
    <3> HIDE DEF OnlyRow, Apart
    <3> QED BY <2>1, <2>2, <3>2
  <2>3. ASSUME NEW x, OnlyRow(x), Apart(x), InCall(d), x = call[d].id, overlapped' = overlapped
        PROVE  LoneCall(c)'
    <3>1. InCall(c)
      BY <2>3 DEF InCall
    <3>2. x # call[c].id
      BY <2>3, <3>1 DEF LoneCalls, LoneCall, Others, InCall
    <3> HIDE DEF OnlyRow, Apart
    <3> QED BY <2>1, <2>3, <3>2
  <2>4. CASE Creates(d)
    <3>1. PICK row \in Row : Insert(d, row)
      BY <2>4 DEF Creates
    <3>2. Begin(d, made + 1) /\ links' = links
      BY <3>1 DEF Insert
    <3>3. OnlyRow(made + 1) /\ Apart(made + 1)
      BY <3>1, <3>2, InsertWrites
    <3> HIDE DEF OnlyRow, Apart
    <3> QED BY <2>2, <3>2, <3>3
  <2>5. CASE Updates(d)
    <3>1. PICK id \in DOMAIN rows, new \in Row : CheckUpdate(d, id, new)
      BY <2>5 DEF Updates
    <3>2. Begin(d, id) /\ links' = links /\ rows' = rows
      BY <3>1 DEF CheckUpdate
    <3>3. OnlyRow(id) /\ Apart(id)
      BY <3>1, <3>2, OneCall DEF CheckUpdate
    <3> HIDE DEF OnlyRow, Apart
    <3> QED BY <2>2, <3>2, <3>3
  <2>6. CASE Deletes(d)
    <3>1. PICK id \in DOMAIN rows : DeleteRow(d, id)
      BY <2>6 DEF Deletes
    <3>2. Begin(d, id) /\ links' = links
      BY <3>1 DEF DeleteRow
    <3>3. DOMAIN rows' = DOMAIN rows \ {id} /\ \A i \in DOMAIN rows' : rows'[i] = rows[i]
      BY <3>1 DEF DeleteRow, Restrict
    <3>4. OnlyRow(id) /\ Apart(id)
      BY <3>1, <3>2, <3>3, OneCall DEF DeleteRow
    <3> HIDE DEF OnlyRow, Apart
    <3> QED BY <2>2, <3>2, <3>4
  <2>7. CASE Switches(d)
    <3>1. UNCHANGED <<rows, links, call, overlapped>>
      BY <2>7 DEF Switches, SwitchCampaign
    <3> QED BY <3>1 DEF LoneCalls, LoneCall, InCall, Saving, Others,
                        LinkedSoFar, LinksOf, LinkTo, Copies, BagIn, BagToSet
  <2>8. CASE Fail(d) \/ ReturnSaved(d)
    <3>1. /\ Continue(d, Idle) /\ UNCHANGED <<rows, links, overlapped>> /\ InCall(d)
      BY <2>8, RunningCalls DEF Fail, ReturnSaved, Return, InCall, Saving
    <3>2. OnlyRow(call[d].id) /\ Apart(call[d].id)
      BY <3>1, OneCall
    <3> HIDE DEF OnlyRow, Apart
    <3> QED BY <2>3, <3>1, <3>2
  <2>9. CASE DeleteBySource(d)
    <3>1. UNCHANGED <<rows, overlapped>> /\ InCall(d)
      BY <2>9, RunningCalls DEF DeleteBySource
    <3>2. OnlyRow(call[d].id) /\ Apart(call[d].id)
      BY <2>9, <3>1, DeleteBySourceWrites
    <3> HIDE DEF OnlyRow, Apart
    <3> QED BY <2>3, <3>1, <3>2
  <2>10. CASE UpdateText(d)
    <3>1. UNCHANGED <<links, overlapped>> /\ InCall(d)
      BY <2>10, RunningCalls DEF UpdateText, Saving
    <3>2. OnlyRow(call[d].id) /\ Apart(call[d].id)
      BY <2>10, <3>1, UpdateTextWrites
    <3> HIDE DEF OnlyRow, Apart
    <3> QED BY <2>3, <3>1, <3>2
  <2>11. CASE ClearLinks(d)
    <3>1. UNCHANGED <<rows, overlapped>> /\ InCall(d)
      BY <2>11, RunningCalls DEF ClearLinks, Saving
    <3>2. OnlyRow(call[d].id) /\ Apart(call[d].id)
      BY <2>11, <3>1, ClearLinksWrites
    <3> HIDE DEF OnlyRow, Apart
    <3> QED BY <2>3, <3>1, <3>2
  <2>12. CASE InsertLink(d)
    <3>1. UNCHANGED <<rows, overlapped>> /\ InCall(d)
      BY <2>12, RunningCalls DEF InsertLink, Saving
    <3>0. NextLink(d).source = call[d].id
      BY DEF NextLink
    <3>2. \A l : l.source # call[d].id => Copies(l)' = Copies(l)
      <4>1. ASSUME NEW l, l # NextLink(d)
            PROVE  Copies(l)' = Copies(l) + 0 /\ Copies(l) \in Nat
        BY <2>12, <4>1, InsertLinkWrites
      <4> QED BY <3>0, <4>1
    <3>3. \A l : l.source # call[d].id => (l \in DOMAIN links' <=> l \in DOMAIN links)
      BY <2>12, <3>0, InsertLinkWrites
    <3>4. \A l : /\ Copies(l) = IF l \in DOMAIN links THEN links[l] ELSE 0
                 /\ Copies(l)' = IF l \in DOMAIN links' THEN links'[l] ELSE 0
      BY DEF Copies, BagIn, BagToSet
    <3>5. OnlyRow(call[d].id)
      BY <3>1, <3>2, <3>3, <3>4
    <3>6. Apart(call[d].id)
      BY <2>12, InsertLinkWrites
    <3> HIDE DEF OnlyRow, Apart
    <3> QED BY <2>3, <3>1, <3>5, <3>6
  <2> QED BY <1>9, <2>4, <2>5, <2>6, <2>7, <2>8, <2>9, <2>10, <2>11, <2>12
<1> QED BY <1>1, <1>2, <1>3, <1>4, <1>5, <1>6, <1>7, <1>8, <1>9, StepCases, OnlineAreClients

LEMMA NoOccurrences == \A n : Occurrences(n, <<>>) = 0
<1>1. \A n : {i \in 1..Len(<<>>) : <<>>[i] = n} = {}
  OBVIOUS
<1> QED BY <1>1, FS_EmptySet DEF Occurrences

LEMMA LoneCallsSettle ==
    ASSUME ReferencesTypeOK, CallsFollowRows, LoneCalls, [ReferencesNext]_referencesVars,
           NEW c \in Clients \ overlapped, NEW id \in RowIds,
           InCall(c), call[c].id = id, call'[c] = Idle, failures' = failures
    PROVE  LinksMatch(id)'
<1>1. LoneCall(c)
  BY DEF LoneCalls
<1>2. CASE ReturnSaved(c)
  <2>1. LinkedSoFar(c) /\ call[c].rest = <<>> /\ Saving(c)
    BY <1>1, <1>2 DEF ReturnSaved, LoneCall, Saving
  <2>2. UNCHANGED <<rows, links>>
    BY <1>2 DEF ReturnSaved
  <2>3. id \in DOMAIN rows /\ rows[id].name = call[c].new.name /\ rows[id].text = call[c].new.text
    BY <1>1, <1>2, <2>1 DEF LoneCall, ReturnSaved
  <2>4. call[c].new.campaign \in CampaignIds
    BY <2>1, RunningCalls, RowShapes
  <2>5. \A n \in Names : Copies(LinkTo(c, n)) = Occurrences(n, rows[id].text)
    <3>1. ASSUME NEW n \in Names
          PROVE  Copies(LinkTo(c, n)) \in Nat
      BY DEF Copies, BagIn, BagToSet, ReferencesTypeOK, IsABag
    <3>2. ASSUME NEW n \in Names
          PROVE  Copies(LinkTo(c, n)) + 0 = Occurrences(n, rows[id].text)
      BY <2>1, <2>3, NoOccurrences DEF LinkedSoFar
    <3> QED BY <3>1, <3>2
  <2>6. LinksMatch(id)
    BY <2>1, <2>3, <2>4, <2>5 DEF LinksMatch, LinkedSoFar, LinkTo
  <2> QED BY <2>2, <2>6 DEF LinksMatch, LinksOf, Copies, BagIn, BagToSet
<1>3. CASE DeleteBySource(c)
  <2>1. id \notin DOMAIN rows' /\ LinksOf(id)' = {}
    BY <1>1, <1>3, DeleteBySourceWrites DEF LoneCall, LinksOf, DeleteBySource
  <2> QED BY <2>1 DEF LinksMatch
<1>4. ASSUME NEW d \in online,
             \/ Creates(d) \/ Updates(d) \/ Deletes(d) \/ Switches(d) \/ Fail(d)
             \/ UpdateText(d) \/ ClearLinks(d) \/ InsertLink(d) \/ ReturnSaved(d)
             \/ DeleteBySource(d)
      PROVE  ReturnSaved(c) \/ DeleteBySource(c)
  <2>1. d \in Clients
    BY OnlineAreClients
  <2>2. Idle.op = "idle"
    BY DEF Idle
  <2>3. CASE Creates(d)
    BY <2>1, <2>2, <2>3, InsertWrites DEF Creates, InCall
  <2>4. CASE Updates(d)
    BY <2>1, <2>2, <2>4, OneCall DEF Updates, CheckUpdate, InCall
  <2>5. CASE Deletes(d)
    BY <2>1, <2>2, <2>5, OneCall DEF Deletes, DeleteRow, InCall
  <2>6. CASE Switches(d)
    BY <2>6 DEF Switches, SwitchCampaign, InCall
  <2>7. CASE Fail(d)
    BY <2>7 DEF Fail, ReferencesTypeOK
  <2>8. CASE UpdateText(d)
    BY <2>1, <2>2, <2>8, UpdateTextWrites DEF InCall
  <2>9. CASE ClearLinks(d)
    BY <2>1, <2>2, <2>9, ClearLinksWrites DEF InCall
  <2>10. CASE InsertLink(d)
    BY <2>1, <2>2, <2>10, InsertLinkWrites DEF InCall
  <2>11. CASE ReturnSaved(d)
    BY <2>1, <2>11, OneCall DEF ReturnSaved, Return, InCall
  <2>12. CASE DeleteBySource(d)
    BY <2>1, <2>12, DeleteBySourceWrites DEF InCall
  <2> QED BY <1>4, <2>3, <2>4, <2>5, <2>6, <2>7, <2>8, <2>9, <2>10, <2>11, <2>12
<1>5. ~Quiet
  BY DEF Quiet, InCall
<1> QED BY <1>2, <1>3, <1>4, <1>5, StepCases

\* Whatever calls failed or met others before: a call that goes through alone on its row
\* leaves exactly the links that the row's text refers to.
THEOREM LoneCallsSettleLinksCorrect == ReferencesSpec => LoneCallsSettleLinks
<1> DEFINE Inv == ReferencesTypeOK /\ CallsFollowRows /\ LoneCalls
           Settles == \A c \in Clients \ overlapped, id \in RowIds :
                        /\ call[c] # Idle /\ call[c].id = id
                        /\ call'[c] = Idle /\ failures' = failures
                        => LinksMatch(id)'
<1>1. ReferencesInit => Inv
  BY ReferencesTypeInit, CallsFollowRowsInit, LoneCallsInit
<1>2. Inv /\ [ReferencesNext]_referencesVars => Inv'
  BY ReferencesTypeNext, CallsFollowRowsNext, LoneCallsNext
<1>3. Inv /\ [ReferencesNext]_referencesVars => Settles
  BY LoneCallsSettle DEF InCall, LinksMatch, LinksOf, Copies, BagIn, BagToSet
<1>4. Inv /\ [ReferencesNext]_referencesVars => [Settles]_referencesVars
  BY <1>3
<1> QED BY <1>1, <1>2, <1>4, PTL DEF ReferencesSpec, LoneCallsSettleLinks

----------------------------------------
(* A client alone.                                                         *)

LEMMA FirstOrLater ==
    ASSUME NEW s \in Seq(Names), s # <<>>, NEW n \in ToSet(s)
    PROVE  n = Head(s) \/ n \in ToSet(Tail(s))
<1>1. PICK i \in 1..Len(s) : n = s[i]
  BY DEF ToSet
<1>2. /\ Len(s) \in Nat \ {0} /\ Len(Tail(s)) = Len(s) - 1
      /\ \A j \in 1..Len(Tail(s)) : Tail(s)[j] = s[j + 1]
      /\ Head(s) = s[1]
  BY HeadTailProperties, EmptySeq
<1>3. CASE i # 1
  <2>1. i - 1 \in 1..Len(Tail(s)) /\ Tail(s)[i - 1] = n
    BY <1>1, <1>2, <1>3
  <2>2. i - 1 \in DOMAIN Tail(s)
    BY <2>1
  <2> QED BY <2>1, <2>2 DEF ToSet
<1> QED BY <1>1, <1>2, <1>3

RowLinked(id) == \A n \in ToSet(ParseReferences(rows[id].text)) : Linked(id, rows[id].campaign, n)

SoleOK(c) ==
    /\ shown[c] = activeCampaign
    /\ \A d \in Clients \ {c} : ~InCall(d)
    /\ SoleCall(c)
    /\ \A id \in DOMAIN rows : (InCall(c) /\ call[c].id = id) \/ RowLinked(id)

LEMMA SoleRows ==
    SoleRowsAreLinked <=> \A c \in Clients : online = {c} /\ failures = 0 => SoleOK(c)
BY DEF SoleRowsAreLinked, SoleOK, RowLinked

LEMMA SoleInit == ReferencesInit => SoleRowsAreLinked
<1> SUFFICES ASSUME ReferencesInit, NEW c \in Clients PROVE SoleOK(c)
  BY SoleRows
<1>1. DOMAIN rows = {} /\ Idle.op = "idle"
  BY DEF ReferencesInit, Idle
<1> QED BY <1>1 DEF ReferencesInit, SoleOK, SoleCall, Saving, InCall

\* Links are kept, and so are rows but for one.
LEMMA RowLinkedKept ==
    ASSUME NEW id, RowLinked(id), rows'[id] = rows[id],
           \A l \in DOMAIN links : l.source = id => l \in DOMAIN links'
    PROVE  RowLinked(id)'
BY DEF RowLinked, Linked, LinksOf

LEMMA SoleNext ==
    ASSUME ReferencesTypeOK, CallsFollowRows, SoleRowsAreLinked,
           [ReferencesNext]_referencesVars
    PROVE  SoleRowsAreLinked'
<1> SUFFICES ASSUME NEW c \in Clients, online' = {c}, failures' = 0
             PROVE  SoleOK(c)'
  BY DEF SoleRowsAreLinked, SoleOK, RowLinked
<1> DEFINE id == call[c].id
           new == call[c].new
<1>0. Idle.op = "idle"
  BY DEF Idle
<1>1. online' = online /\ failures = 0 /\ ~Fail(c)
  <2>1. failures \in Nat
    BY DEF ReferencesTypeOK
  <2>2. ~Fail(c)
    BY <2>1 DEF Fail
  <2>3. /\ UNCHANGED online
        /\ \A d \in online : ~Fail(d) => failures' = failures
        /\ \A d \in online : Fail(d) => failures' = failures + 1
    <3>1. CASE UNCHANGED referencesVars
      BY <3>1 DEF referencesVars, Fail
    <3>2. \A d \in online : Fail(d) => UNCHANGED online /\ failures' = failures + 1
      BY DEF Fail
    <3>3. Quiet => UNCHANGED <<online, failures>>
      BY DEF Quiet
    <3>4. \A d : /\ Creates(d) => UNCHANGED <<online, failures>>
                 /\ Updates(d) => UNCHANGED <<online, failures>>
                 /\ Deletes(d) => UNCHANGED <<online, failures>>
                 /\ Switches(d) => UNCHANGED <<online, failures>>
                 /\ UpdateText(d) => UNCHANGED <<online, failures>>
                 /\ ClearLinks(d) => UNCHANGED <<online, failures>>
                 /\ InsertLink(d) => UNCHANGED <<online, failures>>
                 /\ ReturnSaved(d) => UNCHANGED <<online, failures>>
                 /\ DeleteBySource(d) => UNCHANGED <<online, failures>>
      BY DEF Creates, Insert, Updates, CheckUpdate, Deletes, DeleteRow, Switches, SwitchCampaign,
             UpdateText, ClearLinks, InsertLink, ReturnSaved, DeleteBySource
    <3> QED BY <2>1, <3>2, <3>3, <3>4, StepCases
  <2> QED BY <2>1, <2>2, <2>3
<1>2. SoleOK(c)
  BY <1>1, SoleRows
<1>3. /\ shown[c] = activeCampaign /\ SoleCall(c)
      /\ \A d \in Clients \ {c} : ~InCall(d)
      /\ \A i \in DOMAIN rows : (InCall(c) /\ id = i) \/ RowLinked(i)
  BY <1>2 DEF SoleOK
<1>4. shown \in [Clients -> CampaignIds]
  BY DEF ReferencesTypeOK
<1>5. CASE Quiet
  BY <1>3, <1>5 DEF Quiet, SoleOK, SoleCall, RowLinked, Linked, LinksOf, InCall, Saving
<1>6. CASE Creates(c)
  <2>1. PICK row \in Row : row.campaign = activeCampaign /\ Insert(c, row)
    BY <1>6 DEF Creates
  <2>2. UNCHANGED <<links, activeCampaign, shown>>
    BY <2>1 DEF Insert
  <2>3. /\ call[c] = Idle
        /\ call'[c].op = "clearing" /\ call'[c].id = made + 1 /\ call'[c].new = row
        /\ \A d \in Clients \ {c} : call'[d] = call[d]
        /\ DOMAIN rows' = DOMAIN rows \cup {made + 1}
        /\ rows'[made + 1] = row /\ \A i \in DOMAIN rows : rows'[i] = rows[i]
    BY <2>1, InsertWrites
  <2>4. SoleCall(c)'
    BY <2>3 DEF SoleCall, Saving
  <2>5. \A i \in DOMAIN rows : RowLinked(i)'
    BY <1>3, <2>2, <2>3, RowLinkedKept DEF InCall
  <2>6. InCall(c)'
    BY <1>0, <2>3 DEF InCall
  <2> QED BY <1>3, <2>2, <2>3, <2>4, <2>5, <2>6 DEF SoleOK, InCall
<1>7. CASE Updates(c)
  <2>1. PICK i \in DOMAIN rows, n \in Row :
          rows[i].campaign = shown[c] /\ n.campaign = activeCampaign /\ CheckUpdate(c, i, n)
    BY <1>7 DEF Updates
  <2>2. UNCHANGED <<rows, links, activeCampaign, shown>> /\ call[c] = Idle
    BY <2>1 DEF CheckUpdate, Begin
  <2>3. /\ call'[c] = [op |-> "updating", id |-> i, new |-> n]
        /\ \A d \in Clients \ {c} : call'[d] = call[d]
    BY <2>1, OneCall DEF CheckUpdate
  <2>4. SoleCall(c)'
    BY <1>3, <2>1, <2>2, <2>3 DEF SoleCall, Saving
  <2>5. \A j \in DOMAIN rows : RowLinked(j)'
    BY <1>3, <2>2, RowLinkedKept DEF InCall
  <2> QED BY <1>3, <2>2, <2>3, <2>4, <2>5 DEF SoleOK, InCall
<1>8. CASE Deletes(c)
  <2>1. PICK i \in DOMAIN rows : DeleteRow(c, i)
    BY <1>8 DEF Deletes
  <2>2. /\ UNCHANGED <<links, activeCampaign, shown>> /\ call[c] = Idle
        /\ DOMAIN rows' = DOMAIN rows \ {i} /\ \A j \in DOMAIN rows' : rows'[j] = rows[j]
    BY <2>1 DEF DeleteRow, Begin, Restrict
  <2>3. /\ call'[c] = [op |-> "unlinking", id |-> i]
        /\ \A d \in Clients \ {c} : call'[d] = call[d]
    BY <2>1, OneCall DEF DeleteRow
  <2>4. SoleCall(c)'
    BY <2>2, <2>3 DEF SoleCall, Saving
  <2>5. \A j \in DOMAIN rows' : RowLinked(j)'
    BY <1>3, <2>2, RowLinkedKept DEF InCall
  <2> QED BY <1>3, <2>2, <2>3, <2>4, <2>5 DEF SoleOK, InCall
<1>9. CASE Switches(c)
  <2>1. /\ UNCHANGED <<rows, links, call>> /\ call[c] = Idle
        /\ shown'[c] = activeCampaign'
    BY <1>4, <1>9 DEF Switches, SwitchCampaign
  <2>2. SoleCall(c)'
    BY <1>0, <2>1 DEF SoleCall, Saving
  <2>3. \A j \in DOMAIN rows : RowLinked(j)'
    BY <1>3, <2>1, RowLinkedKept DEF InCall
  <2> QED BY <1>3, <2>1, <2>2, <2>3 DEF SoleOK, InCall
<1>10. CASE UpdateText(c)
  <2>1. InCall(c) /\ Saving(c)
    BY <1>10, RunningCalls DEF UpdateText, Saving
  <2>2. UNCHANGED <<links, activeCampaign, shown>>
    BY <1>10 DEF UpdateText
  <2>3. /\ DOMAIN rows' = DOMAIN rows /\ \A i \in DOMAIN rows : i # id => rows'[i] = rows[i]
        /\ call'[c].op = "clearing" /\ call'[c].id = id /\ call'[c].new = new
        /\ \A d \in Clients \ {c} : call'[d] = call[d]
    BY <1>10, UpdateTextWrites
  <2>4. id \in DOMAIN rows /\ new.campaign = rows[id].campaign
    BY <1>3, <2>1 DEF SoleCall
  <2>5. rows'[id].campaign = rows[id].campaign /\ rows'[id].text = new.text
    BY <1>10, <2>4, UpdateTextWrites
  <2>6. SoleCall(c)'
    BY <2>3, <2>4, <2>5 DEF SoleCall, Saving
  <2>7. \A j \in DOMAIN rows : j # id => RowLinked(j)'
    BY <1>3, <2>2, <2>3, RowLinkedKept
  <2>8. InCall(c)'
    BY <1>0, <2>3 DEF InCall
  <2> QED BY <1>3, <2>2, <2>3, <2>6, <2>7, <2>8 DEF SoleOK, InCall
<1>11. CASE ClearLinks(c)
  <2>1. InCall(c) /\ Saving(c)
    BY <1>11, RunningCalls DEF ClearLinks, Saving
  <2>2. UNCHANGED <<rows, activeCampaign, shown>>
    BY <1>11 DEF ClearLinks
  <2>3. /\ call[c].op = "clearing" /\ call'[c].op = "linking"
        /\ call'[c].id = id /\ call'[c].new = new
        /\ call'[c].rest = ParseReferences(new.text)
        /\ \A d \in Clients \ {c} : call'[d] = call[d]
    BY <1>11, ClearLinksWrites
  <2>4. DOMAIN links' = {l \in DOMAIN links : l.source # id}
    BY <1>11, ClearLinksWrites
  <2>5. id \in DOMAIN rows /\ new.campaign = rows[id].campaign /\ rows[id].text = new.text
    BY <1>3, <2>1, <2>3 DEF SoleCall
  <2>6. SoleCall(c)'
    BY <2>2, <2>3, <2>5 DEF SoleCall, Saving
  <2>7. \A j \in DOMAIN rows : j # id => RowLinked(j)'
    BY <1>3, <2>2, <2>4, RowLinkedKept
  <2>8. InCall(c)'
    BY <1>0, <2>3 DEF InCall
  <2> QED BY <1>3, <2>2, <2>3, <2>6, <2>7, <2>8 DEF SoleOK, InCall
<1>12. CASE InsertLink(c)
  <2>1. InCall(c) /\ Saving(c)
    BY <1>12, RunningCalls DEF InsertLink, Saving
  <2>2. UNCHANGED <<rows, activeCampaign, shown>>
    BY <1>12 DEF InsertLink
  <2>3. /\ call[c].op = "linking" /\ call[c].rest \in Seq(Names) /\ call[c].rest # <<>>
        /\ call'[c].op = "linking" /\ call'[c].id = id /\ call'[c].new = new
        /\ call'[c].rest = Tail(call[c].rest)
        /\ \A d \in Clients \ {c} : call'[d] = call[d]
    BY <1>12, InsertLinkWrites
  <2>4. DOMAIN links' = DOMAIN links \cup {NextLink(c)}
    BY <1>12, InsertLinkWrites
  <2>5. /\ id \in DOMAIN rows /\ new.campaign = rows[id].campaign /\ rows[id].text = new.text
        /\ \A n \in ToSet(ParseReferences(new.text)) :
             n \in ToSet(call[c].rest) \/ Linked(id, new.campaign, n)
    BY <1>3, <2>1, <2>3 DEF SoleCall
  <2>6. ASSUME NEW n \in ToSet(ParseReferences(new.text))
        PROVE  n \in ToSet(call'[c].rest) \/ Linked(call[c].id, call[c].new.campaign, n)'
    <3>1. CASE Linked(id, new.campaign, n)
      BY <2>3, <2>4, <3>1 DEF Linked, LinksOf
    <3>2. CASE n = Head(call[c].rest)
      <4>1. /\ NextLink(c) \in DOMAIN links' /\ NextLink(c).source = id
            /\ NextLink(c).campaign = new.campaign /\ NextLink(c).to = n
        BY <2>4, <3>2 DEF NextLink
      <4> HIDE DEF id, new
      <4> QED BY <2>3, <4>1 DEF Linked, LinksOf, id, new
    <3>3. CASE n \in ToSet(call[c].rest)
      BY <2>3, <3>2, <3>3, FirstOrLater
    <3> QED BY <2>5, <3>1, <3>3
  <2>7. SoleCall(c)'
    BY <2>2, <2>3, <2>5, <2>6 DEF SoleCall, Saving
  <2>8. \A j \in DOMAIN rows : j # id => RowLinked(j)'
    BY <1>3, <2>2, <2>4, RowLinkedKept
  <2>9. InCall(c)'
    BY <1>0, <2>3 DEF InCall
  <2> QED BY <1>3, <2>2, <2>3, <2>7, <2>8, <2>9 DEF SoleOK, InCall
<1>13. CASE ReturnSaved(c) \/ DeleteBySource(c)
  <2>1. /\ Continue(c, Idle) /\ UNCHANGED <<rows, activeCampaign>>
        /\ shown' = [shown EXCEPT ![c] = activeCampaign]
    BY <1>13 DEF ReturnSaved, DeleteBySource, Return
  <2>2. call'[c] = Idle /\ \A d \in Clients \ {c} : call'[d] = call[d]
    BY <2>1, OneCall
  <2>3. shown'[c] = activeCampaign'
    BY <1>4, <2>1
  <2>4. SoleCall(c)'
    BY <1>0, <2>2 DEF SoleCall, Saving
  <2>5. ASSUME NEW j \in DOMAIN rows
        PROVE  RowLinked(j)'
    <3>1. CASE ReturnSaved(c)
      <4>1. links' = links /\ call[c].op = "linking" /\ call[c].rest = <<>>
        BY <3>1 DEF ReturnSaved
      <4>2. ToSet(call[c].rest) = {}
        BY <4>1 DEF ToSet
      <4>3. id = j => RowLinked(j)
        BY <1>3, <4>1, <4>2 DEF SoleCall, Saving, RowLinked
      <4> QED BY <1>3, <2>1, <4>1, <4>3, RowLinkedKept
    <3>2. CASE DeleteBySource(c)
      <4>1. /\ call[c].op = "unlinking"
            /\ DOMAIN links' = {l \in DOMAIN links : l.source # id}
        BY <3>2, DeleteBySourceWrites
      <4>2. id # j
        BY <1>3, <4>1 DEF SoleCall
      <4> QED BY <1>3, <2>1, <4>1, <4>2, RowLinkedKept
    <3> QED BY <1>13, <3>1, <3>2
  <2> QED BY <1>3, <2>1, <2>2, <2>3, <2>4, <2>5 DEF SoleOK, InCall
<1> QED BY <1>1, <1>5, <1>6, <1>7, <1>8, <1>9, <1>10, <1>11, <1>12, <1>13, StepCases

LEMMA SoleSearch ==
    ASSUME ReferencesTypeOK, SoleRowsAreLinked
    PROVE  SoleSearchFindsReferrers
<1> SUFFICES ASSUME NEW c \in Clients, online = {c}, call[c] = Idle, failures = 0,
                    NEW k \in CampaignIds, NEW q \in Queries, NEW id \in DOMAIN rows,
                    rows[id].campaign = k,
                    NEW n \in ToSet(ParseReferences(rows[id].text)) \cap Containing[q]
             PROVE  id \in SearchEntries(k, q) \cup SearchNotes(k, q)
  BY DEF SoleSearchFindsReferrers
<1>1. RowLinked(id)
  BY SoleRows DEF SoleOK, InCall
<1>2. PICK l \in LinksOf(id) : l.campaign = k /\ l.to = n
  BY <1>1 DEF RowLinked, Linked
<1>3. /\ rows[id].kind \in {"codex", "note"}
      /\ rows[id].kind = "codex" => rows[id].type \in DOMAIN types
  BY RowShapes DEF ReferencesTypeOK
<1>4. id \in SearchByReference(rows[id].kind, k, q)
  BY <1>2, <1>3 DEF SearchByReference, Listed
<1> QED BY <1>3, <1>4 DEF SearchEntries, SearchNotes, Search

\* To a client that is alone, and whose calls went through, the search shows all that
\* refers to what it asks for, whatever the full-text index finds.
THEOREM SoleSearchCorrect == ReferencesSpec => []SoleSearchFindsReferrers
<1> DEFINE Inv == ReferencesTypeOK /\ CallsFollowRows /\ SoleRowsAreLinked
<1>1. ReferencesInit => Inv
  BY ReferencesTypeInit, CallsFollowRowsInit, SoleInit
<1>2. Inv /\ [ReferencesNext]_referencesVars => Inv'
  BY ReferencesTypeNext, CallsFollowRowsNext, SoleNext
<1>3. Inv => SoleSearchFindsReferrers
  BY SoleSearch
<1> QED BY <1>1, <1>2, <1>3, PTL DEF ReferencesSpec

----------------------------------------
(* Shell: what is open is about what is selected.                          *)

(* Forms.                                                                  *)

Modes == DOMAIN Fields \cup {"codex"}

Forms ==
    {f \in [mode : Modes, form : DOMAIN CodexForms \cup {""},
            item : {""} \cup UNION {Items[l] : l \in Lists},
            lines : Nat, index : Nat, picking : BOOLEAN] :
        f.mode = "codex" => f.form # ""}

FormOK(f) ==
    /\ f \in Forms
    /\ f.index < composeFieldCount(f)
    /\ HasLines(f) => f.lines \in 2..MaxFormLines

LEMMA FormFields ==
    ASSUME NEW f \in Forms
    PROVE  /\ f.mode \in Modes /\ f.lines \in Nat /\ f.index \in Nat /\ f.picking \in BOOLEAN
           /\ f.mode = "codex" => f.form \in DOMAIN CodexForms
           /\ \A i \in Nat, n \in Nat, p \in BOOLEAN :
                /\ [f EXCEPT !.index = i] \in Forms
                /\ [f EXCEPT !.lines = n, !.index = i] \in Forms
                /\ [f EXCEPT !.picking = p] \in Forms
           /\ \A i : [f EXCEPT !.index = i] = [f EXCEPT !.lines = f.lines, !.index = i]
BY DEF Forms

LEMMA ModeNames ==
    /\ DOMAIN Fields = {"expense", "income", "account", "codex_type", "campaign", "quest", "loot",
                        "asset", "custom", "asset_template"}
    /\ DOMAIN Columns = {"custom", "asset_template"}
    /\ DOMAIN CodexForms = {"player", "npc", "settlement"}
BY DEF Fields, Columns, CodexForms

\* How many fields and columns a form has.
LEMMA FormSizes ==
    ASSUME NEW f \in Forms
    PROVE  /\ Header(f) \in Nat
           /\ ~HasLines(f) => Header(f) > 0
           /\ HasLines(f) => Width(f) \in {3, 4}
<1>1. CASE f.mode = "codex"
  <2>1. f.form \in {"player", "npc", "settlement"} /\ ~HasLines(f)
    BY <1>1, ModeNames DEF Forms, HasLines
  <2>2. Len(CodexForms[f.form]) \in Nat /\ Len(CodexForms[f.form]) > 0
    BY <2>1 DEF CodexForms
  <2> QED BY <1>1, <2>1, <2>2 DEF Header, composeFieldDefinitions
<1>2. CASE f.mode = "quest"
  <2>1. Len(QuestEdit) = 8 /\ Len(Fields["quest"]) = 9 /\ ~HasLines(f)
    BY <1>2, ModeNames DEF QuestEdit, Fields, HasLines
  <2>2. composeFieldDefinitions(f) = QuestEdit \/ composeFieldDefinitions(f) = Fields["quest"]
    BY <1>2 DEF composeFieldDefinitions
  <2>3. Header(f) \in {8, 9}
    BY <2>1, <2>2 DEF Header
  <2> QED BY <2>1, <2>3
<1>3. CASE f.mode \in {"custom", "asset_template"}
  <2>1. Len(Columns["custom"]) = 4 /\ Len(Columns["asset_template"]) = 3
    BY DEF Columns
  <2>2. Len(Fields["custom"]) = 2 /\ Len(Fields["asset_template"]) = 0
    BY DEF Fields
  <2>3. HasLines(f)
    BY <1>3, ModeNames DEF HasLines
  <2>4. composeFieldDefinitions(f) = Fields[f.mode]
    BY <1>3 DEF composeFieldDefinitions
  <2> QED BY <1>3, <2>1, <2>2, <2>3, <2>4 DEF Header, Width
<1>4. CASE f.mode \in {"expense", "income", "account", "codex_type", "campaign", "loot", "asset"}
  <2>1. /\ Len(Fields["expense"]) = 6 /\ Len(Fields["income"]) = 6
        /\ Len(Fields["account"]) = 3 /\ Len(Fields["codex_type"]) = 3
        /\ Len(Fields["campaign"]) = 1 /\ Len(Fields["loot"]) = 5 /\ Len(Fields["asset"]) = 5
    BY DEF Fields
  <2>2. ~HasLines(f)
    BY <1>4, ModeNames DEF HasLines
  <2>3. composeFieldDefinitions(f) = Fields[f.mode]
    BY <1>4 DEF composeFieldDefinitions
  <2>4. Header(f) \in {1, 3, 5, 6}
    BY <1>4, <2>1, <2>3 DEF Header
  <2> QED BY <2>2, <2>4
<1> QED BY <1>1, <1>2, <1>3, <1>4, ModeNames DEF Forms, Modes

LEMMA FormCounts ==
    ASSUME NEW f \in Forms
    PROVE  /\ composeFieldCount(f) \in Nat
           /\ HasLines(f) => composeFieldCount(f) = Header(f) + f.lines * Width(f)
           /\ ~HasLines(f) => composeFieldCount(f) = Header(f)
<1>1. Header(f) \in Nat /\ f.lines \in Nat
  BY FormSizes, FormFields
<1>2. CASE HasLines(f)
  <2>1. f.lines * Width(f) \in Nat
    BY <1>1, <1>2, FormSizes
  <2> QED BY <1>1, <1>2, <2>1 DEF composeFieldCount
<1>3. CASE ~HasLines(f)
  BY <1>1, <1>3 DEF composeFieldCount
<1> QED BY <1>2, <1>3

\* The sizes of a form depend on its mode, its form and on whether it is of an item.
LEMMA SameSizes ==
    ASSUME NEW f, NEW g, g.mode = f.mode, g.form = f.form, g.item = f.item
    PROVE  /\ Header(g) = Header(f) /\ Width(g) = Width(f)
           /\ HasLines(g) <=> HasLines(f)
BY DEF Header, Width, HasLines, composeFieldDefinitions

\* A remainder is less than what divides.
LEMMA Remainder ==
    ASSUME NEW i \in Int, NEW n \in Nat, n > 0
    PROVE  i % n \in 0..n - 1
OBVIOUS

LEMMA NewFormOK ==
    ASSUME NEW f \in Forms, f.index = 0, HasLines(f) => f.lines \in 2..MaxFormLines
    PROVE  FormOK(f)
<1>1. CASE HasLines(f)
  <2>1. f.lines \in Nat /\ f.lines >= 2 /\ Header(f) \in Nat /\ Width(f) \in {3, 4}
    BY <1>1, FormSizes, ShellAssumption
  <2>2. Header(f) + f.lines * Width(f) > 0
    BY <2>1
  <2> QED BY <1>1, <2>2, FormCounts DEF FormOK
<1>2. CASE ~HasLines(f)
  BY <1>2, FormCounts, FormSizes DEF FormOK
<1> QED BY <1>1, <1>2

\* A form with another cursor and another number of lines.
LEMMA MovedFormOK ==
    ASSUME NEW f \in Forms, NEW n \in Nat, NEW i \in Nat,
           i < Header(f) + (IF HasLines(f) THEN n * Width(f) ELSE 0),
           HasLines(f) => n \in 2..MaxFormLines
    PROVE  FormOK([f EXCEPT !.lines = n, !.index = i])
<1> DEFINE g == [f EXCEPT !.lines = n, !.index = i]
<1>0. g \in Forms
  BY FormFields
<1>1. /\ g \in Forms /\ g.lines = n /\ g.index = i
      /\ g.mode = f.mode /\ g.form = f.form /\ g.item = f.item
  BY <1>0 DEF Forms
<1> HIDE DEF g
<1>2. Header(g) = Header(f) /\ Width(g) = Width(f) /\ (HasLines(g) <=> HasLines(f))
  BY <1>1, SameSizes
<1>3. g.index < composeFieldCount(g)
  BY <1>1, <1>2 DEF composeFieldCount
<1>4. FormOK(g)
  BY <1>1, <1>2, <1>3 DEF FormOK
<1> QED BY <1>4 DEF g

LEMMA AdvanceOK ==
    ASSUME NEW f, FormOK(f), NEW delta \in {1, -1}
    PROVE  FormOK(composeAdvance(f, delta))
<1> DEFINE count == composeFieldCount(f)
           i == (f.index + count + delta) % count
<1>1. f \in Forms /\ count \in Nat /\ f.index \in Nat /\ f.index < count /\ f.lines \in Nat
  BY FormCounts, FormFields DEF FormOK
<1>2. i \in 0..count - 1
  BY <1>1, Remainder
<1>3. composeAdvance(f, delta) = [f EXCEPT !.index = i]
  BY <1>1 DEF composeAdvance
<1>4. composeAdvance(f, delta) = [f EXCEPT !.lines = f.lines, !.index = i]
  BY <1>1, <1>3, FormFields
<1>5. i < Header(f) + (IF HasLines(f) THEN f.lines * Width(f) ELSE 0) /\ i \in Nat
  BY <1>1, <1>2 DEF composeFieldCount
<1>6. HasLines(f) => f.lines \in 2..MaxFormLines
  BY DEF FormOK
<1> HIDE DEF i, count
<1>7. FormOK([f EXCEPT !.lines = f.lines, !.index = i])
  BY <1>1, <1>5, <1>6, MovedFormOK
<1> QED BY <1>4, <1>7

LEMMA AddLineOK ==
    ASSUME NEW f, FormOK(f)
    PROVE  FormOK(AddLine(f))
<1>1. CASE HasLines(f) /\ f.lines < MaxFormLines
  <2> DEFINE i == Header(f) + f.lines * Width(f)
             n == f.lines + 1
  <2>1. f \in Forms /\ f.lines \in Nat /\ n \in Nat /\ n \in 2..MaxFormLines
    <3>1. f \in Forms /\ f.lines \in 2..MaxFormLines
      BY <1>1 DEF FormOK
    <3> QED BY <1>1, <3>1, ShellAssumption
  <2>2. Header(f) \in Nat /\ Width(f) \in {3, 4}
    BY <1>1, <2>1, FormSizes
  <2>3. i \in Nat /\ i < Header(f) + n * Width(f)
    BY <2>1, <2>2
  <2>4. AddLine(f) = [f EXCEPT !.lines = n, !.index = i]
    BY <1>1 DEF AddLine
  <2> HIDE DEF i, n
  <2>5. /\ f \in Forms /\ n \in Nat /\ i \in Nat
        /\ i < Header(f) + (IF HasLines(f) THEN n * Width(f) ELSE 0)
        /\ HasLines(f) => n \in 2..MaxFormLines
    BY <1>1, <2>1, <2>3
  <2>6. FormOK([f EXCEPT !.lines = n, !.index = i])
    BY <2>5, MovedFormOK
  <2> QED BY <2>4, <2>6
<1>2. CASE ~(HasLines(f) /\ f.lines < MaxFormLines)
  BY <1>2 DEF AddLine
<1> QED BY <1>1, <1>2

\* Where the cursor of a form with lines is.
LEMMA CursorPlace ==
    ASSUME NEW f, FormOK(f), OnLine(f)
    PROVE  /\ CurrentLine(f) \in 0..f.lines - 1
           /\ CurrentColumn(f) \in 0..Width(f) - 1
           /\ Header(f) \in Nat /\ Width(f) \in {3, 4} /\ f.lines \in 2..MaxFormLines
<1>1. /\ f \in Forms /\ HasLines(f) /\ f.lines \in 2..MaxFormLines /\ f.lines \in Nat
      /\ f.index \in Nat /\ f.index >= Header(f)
  BY FormFields DEF FormOK, OnLine
<1>2. Header(f) \in Nat /\ Width(f) \in {3, 4}
  BY <1>1, FormSizes
<1>3. f.index < Header(f) + f.lines * Width(f)
  BY <1>1, FormCounts DEF FormOK
<1> DEFINE d == f.index - Header(f)
<1>4. d \in Nat /\ d < f.lines * Width(f)
  BY <1>1, <1>2, <1>3
<1>5. CASE Width(f) = 3
  <2>1. d \div 3 \in 0..f.lines - 1 /\ d % 3 \in 0..2
    BY <1>1, <1>4, <1>5
  <2> QED BY <1>1, <1>2, <1>5, <2>1 DEF CurrentLine, CurrentColumn
<1>6. CASE Width(f) = 4
  <2>1. d \div 4 \in 0..f.lines - 1 /\ d % 4 \in 0..3
    BY <1>1, <1>4, <1>6
  <2> QED BY <1>1, <1>2, <1>6, <2>1 DEF CurrentLine, CurrentColumn
<1> QED BY <1>2, <1>5, <1>6

LEMMA RemoveLineOK ==
    ASSUME NEW f, FormOK(f)
    PROVE  FormOK(RemoveLine(f))
<1>1. CASE OnLine(f) /\ f.lines > 2 /\ CurrentLine(f) < f.lines
  <2> DEFINE last == f.lines - 2
             line == IF CurrentLine(f) > last THEN last ELSE CurrentLine(f)
             i == Header(f) + line * Width(f) + CurrentColumn(f)
             n == f.lines - 1
  <2>1. f \in Forms /\ HasLines(f)
    BY <1>1 DEF FormOK, OnLine
  <2>2. /\ CurrentLine(f) \in 0..f.lines - 1 /\ CurrentColumn(f) \in 0..Width(f) - 1
        /\ Header(f) \in Nat /\ Width(f) \in {3, 4} /\ f.lines \in 2..MaxFormLines
    BY <1>1, CursorPlace
  <2>3. line \in 0..n - 1 /\ n \in 2..MaxFormLines /\ n \in Nat
    <3>1. f.lines \in Nat /\ n \in 2..MaxFormLines /\ n \in Nat /\ last = n - 1
      BY <1>1, <2>2, ShellAssumption
    <3>2. CASE CurrentLine(f) > last
      BY <3>1, <3>2
    <3>3. CASE ~(CurrentLine(f) > last)
      BY <2>2, <3>1, <3>3
    <3> QED BY <3>1, <3>2, <3>3
  <2>4. RemoveLine(f) = [f EXCEPT !.lines = n, !.index = i]
    BY <1>1 DEF RemoveLine
  <2> HIDE DEF line, n
  <2>5. i \in Nat /\ i < Header(f) + n * Width(f)
    <3>1. CASE Width(f) = 3
      BY <2>2, <2>3, <3>1
    <3>2. CASE Width(f) = 4
      BY <2>2, <2>3, <3>2
    <3> QED BY <2>2, <3>1, <3>2
  <2> HIDE DEF i
  <2>6. /\ f \in Forms /\ n \in Nat /\ i \in Nat
        /\ i < Header(f) + (IF HasLines(f) THEN n * Width(f) ELSE 0)
        /\ HasLines(f) => n \in 2..MaxFormLines
    BY <2>1, <2>3, <2>5
  <2>7. FormOK([f EXCEPT !.lines = n, !.index = i])
    BY <2>6, MovedFormOK
  <2> QED BY <2>4, <2>7
<1>2. CASE ~(OnLine(f) /\ f.lines > 2 /\ CurrentLine(f) < f.lines)
  BY <1>2 DEF RemoveLine
<1> QED BY <1>1, <1>2

LEMMA PickingOK ==
    ASSUME NEW f, FormOK(f), NEW p \in BOOLEAN
    PROVE  FormOK([f EXCEPT !.picking = p])
<1> DEFINE g == [f EXCEPT !.picking = p]
<1>1. f \in Forms
  BY DEF FormOK
<1>2. g \in Forms
  BY <1>1, FormFields
<1>3. /\ g.mode = f.mode /\ g.form = f.form /\ g.item = f.item
      /\ g.lines = f.lines /\ g.index = f.index
  BY <1>1 DEF Forms
<1> HIDE DEF g
<1>4. Header(g) = Header(f) /\ Width(g) = Width(f) /\ (HasLines(g) <=> HasLines(f))
  BY <1>3, SameSizes
<1>5. FormOK(g)
  BY <1>2, <1>3, <1>4 DEF FormOK, composeFieldCount
<1> QED BY <1>5 DEF g

\* What the keys of a form keep: it stays a form, of the same item.
LEMMA KeysKeepItem ==
    ASSUME NEW f, FormOK(f)
    PROVE  /\ \A delta \in {1, -1} : composeAdvance(f, delta).item = f.item
           /\ AddLine(f).item = f.item /\ RemoveLine(f).item = f.item
           /\ \A p \in BOOLEAN : [f EXCEPT !.picking = p].item = f.item
<1>1. f \in Forms
  BY DEF FormOK
<1>2. \A i : [f EXCEPT !.index = i].item = f.item
  BY <1>1 DEF Forms
<1>3. \A i, n : [f EXCEPT !.lines = n, !.index = i].item = f.item
  BY <1>1 DEF Forms
<1>4. \A p : [f EXCEPT !.picking = p].item = f.item
  BY <1>1 DEF Forms
<1>5. \A delta \in {1, -1} : composeAdvance(f, delta).item = f.item
  BY <1>2 DEF composeAdvance
<1>6. AddLine(f).item = f.item
  BY <1>3 DEF AddLine
<1>7. RemoveLine(f).item = f.item
  BY <1>3 DEF RemoveLine
<1> QED BY <1>4, <1>5, <1>6, <1>7

\* The cursor of such a form is on one of its lines or in its header.
LEMMA FormCursor ==
    ASSUME NEW f, FormOK(f)
    PROVE  CanToggleSide(f)
<1>1. f.lines \in Nat
  BY FormFields DEF FormOK
<1> QED BY <1>1, CursorPlace DEF CanToggleSide, TogglesSide

----------------------------------------
(* Selections.                                                             *)

AllKeys == UNION {Items[l] : l \in Lists}

LEMMA SnapshotLists ==
    ASSUME NEW d \in Snapshots
    PROVE  /\ d = [l \in Lists |-> d[l]]
           /\ \A l \in Lists : d[l] \in Seq(Items[l])
<1>1. PICK a \in [Lists -> UNION {Arrangements(l) : l \in Lists}] :
         d = [l \in Lists |-> IF a[l] \in Arrangements(l) THEN a[l] ELSE << >>]
  BY DEF Snapshots
<1>2. ASSUME NEW l \in Lists, NEW s \in Arrangements(l)
      PROVE  s \in Seq(Items[l])
  <2>1. PICK keys \in SUBSET Items[l] : s \in SetToSeqs(keys)
    BY <1>2 DEF Arrangements
  <2>2. Cardinality(keys) \in Nat
    BY ShellAssumption, FS_Subset, FS_CardinalityType
  <2>3. s \in [1..Cardinality(keys) -> Items[l]]
    BY <2>1 DEF SetToSeqs
  <2> QED BY <2>2, <2>3
<1>3. \A l \in Lists : d[l] \in Seq(Items[l])
  <2>1. \A l \in Lists : d[l] = << >> \/ d[l] \in Arrangements(l)
    BY <1>1
  <2>2. \A l \in Lists : << >> \in Seq(Items[l])
    OBVIOUS
  <2>3. ASSUME NEW l \in Lists
        PROVE  d[l] \in Seq(Items[l])
    BY <1>2, <2>1, <2>2
  <2> QED BY <2>3
<1> QED BY <1>1, <1>3

Selects(r, items) ==
    IF items = << >> THEN r = [index |-> 0, key |-> ""]
    ELSE r.index \in DOMAIN items /\ items[r.index] = r.key

SelectionOK(selection, d) ==
    /\ selection = [l \in Lists |-> selection[l]]
    /\ \A l \in Lists : Selects(selection[l], d[l])

LEMMA ReconciledSelects ==
    ASSUME NEW S, NEW items \in Seq(S), NEW s
    PROVE  Selects(Reconciled(items, s), items)
<1>1. CASE items = << >>
  BY <1>1 DEF Reconciled, Selects
<1>2. CASE items # << >> /\ \E i \in DOMAIN items : items[i] = s.key
  BY <1>2 DEF Reconciled, Selects
<1>3. CASE items # << >> /\ ~\E i \in DOMAIN items : items[i] = s.key
  <2>1. 1 \in DOMAIN items
    BY <1>3, EmptySeq
  <2> QED BY <1>3, <2>1 DEF Reconciled, Selects
<1> QED BY <1>1, <1>2, <1>3

LEMMA NavigatedSelects ==
    ASSUME NEW d \in Snapshots, NEW selection, SelectionOK(selection, d), NEW to, NEW key
    PROVE  SelectionOK(Navigated(selection, d, to, key), d)
<1>1. CASE to \in Lists
  <2> DEFINE s == [index |-> selection[to].index,
                   key |-> IF key = "" THEN selection[to].key ELSE key]
             r == Reconciled(d[to], s)
  <2>1. Navigated(selection, d, to, key) = [selection EXCEPT ![to] = r]
    BY <1>1 DEF Navigated
  <2>2. d[to] \in Seq(Items[to])
    BY <1>1, SnapshotLists
  <2>3. Selects(r, d[to])
    BY <2>2, ReconciledSelects
  <2> HIDE DEF r
  <2> QED BY <1>1, <2>1, <2>3 DEF SelectionOK
<1>2. CASE to \notin Lists
  BY <1>2 DEF Navigated
<1> QED BY <1>1, <1>2

LEMMA ReconciledAll ==
    ASSUME NEW d \in Snapshots, NEW s
    PROVE  SelectionOK([l \in Lists |-> Reconciled(d[l], s[l])], d)
<1>1. ASSUME NEW l \in Lists
      PROVE  Selects(Reconciled(d[l], s[l]), d[l])
  <2>1. d[l] \in Seq(Items[l])
    BY SnapshotLists
  <2> QED BY <2>1, ReconciledSelects
<1> DEFINE q == [l \in Lists |-> Reconciled(d[l], s[l])]
<1>2. q = [l \in Lists |-> q[l]]
  OBVIOUS
<1>3. \A l \in Lists : q[l] = Reconciled(d[l], s[l])
  OBVIOUS
<1> HIDE DEF q
<1>4. SelectionOK(q, d)
  BY <1>1, <1>2, <1>3 DEF SelectionOK
<1> QED BY <1>4 DEF q

----------------------------------------
(* The inductive invariant.                                                *)

LEMMA ModalNames ==
    ToSet(Modals) = {"quitConfirm", "editor", "codexPicker", "ledgerView", "search", "input",
                     "compose", "glossary", "confirm"}
BY DEF ToSet, Modals

ScreenOK ==
    /\ stage \in {"running", "disconnected", "ended"}
    /\ data \in Snapshots /\ section \in Sections /\ tab \in DOMAIN Tabs
    /\ SelectionOK(sel, data)

\* What is open over the lists, of a modal of its kind.
StateOK(m, s) ==
    /\ m = "compose" => FormOK(s)
    /\ m = "editor" => "notes" \in Sections
    /\ m = "search" => s.filter \in 0..Len(searchable)
    /\ m = "codexPicker" => s \in [focus : {"name", "type"}, type : DOMAIN Types]
    /\ m = "ledgerView" =>
         s \in [detail : BOOLEAN, rows : Nat, index : Int, previousSection : Sections]

ItemShown(m, s) ==
    m \in {"confirm", "input", "compose"} =>
        s.item = "" \/ (listSection \in Lists /\ s.item = sel[listSection].key)

ModalsOK ==
    /\ modal = [m \in ToSet(Modals) |-> modal[m]]
    /\ \A m, n \in ToSet(Modals) : IsOpen(m) /\ IsOpen(n) => m = n
    /\ \A m \in ToSet(Modals) : IsOpen(m) => StateOK(m, modal[m]) /\ ItemShown(m, modal[m])

LEMMA FreeOK == Free => ModalsOK
BY DEF Free, ModalsOK, AllClosed, IsOpen

\* What is open alone is all that is open.
LEMMA OneOpen ==
    ASSUME ModalsOK, NEW m \in ToSet(Modals), IsOpen(m)
    PROVE  modal = [AllClosed EXCEPT ![m] = modal[m]]
BY DEF ModalsOK, IsOpen, AllClosed

LEMMA ClosesAll ==
    ASSUME ModalsOK, NEW m \in ToSet(Modals), IsOpen(m)
    PROVE  Close(m) = AllClosed
BY DEF ModalsOK, IsOpen, AllClosed, Close

\* Nothing is open afterwards.
LEMMA ClosedOK == ASSUME modal' = AllClosed PROVE ModalsOK'
BY FreeOK DEF Free, ModalsOK, AllClosed, IsOpen

\* One modal is open afterwards, over the same screen.
LEMMA OpenedOK ==
    ASSUME ModalsOK, NEW m \in ToSet(Modals), Free \/ IsOpen(m), NEW s,
           StateOK(m, s), ItemShown(m, s), Show(Open(m, s))
    PROVE  ModalsOK'
<1>1. modal' = [modal EXCEPT ![m] = s] /\ UNCHANGED <<section, tab, sel>>
  BY DEF Show, Open, Stay
<1>2. \A n \in ToSet(Modals) \ {m} : modal[n] = Closed
  BY DEF ModalsOK, Free, AllClosed, IsOpen
<1>3. modal = [n \in ToSet(Modals) |-> modal[n]]
  BY DEF ModalsOK
<1>4. modal' = [n \in ToSet(Modals) |-> IF n = m THEN s ELSE Closed]
  BY <1>1, <1>2, <1>3
<1>5. modal'[m] = s /\ \A n \in ToSet(Modals) \ {m} : modal'[n] = Closed
  BY <1>4
<1>6. modal' = [n \in ToSet(Modals) |-> modal'[n]]
  BY <1>4
<1>7. /\ s.item = "" \/ (listSection \in Lists /\ s.item = sel[listSection].key)
         => s.item = "" \/ (listSection' \in Lists /\ s.item = sel'[listSection'].key)
  BY <1>1 DEF listSection
<1>8. ItemShown(m, modal[m])'
  BY <1>5, <1>7 DEF ItemShown
<1>9. StateOK(m, modal[m])'
  BY <1>5 DEF StateOK
<1> QED BY <1>5, <1>6, <1>8, <1>9 DEF ModalsOK, IsOpen

LEMMA KeptOK ==
    ASSUME ModalsOK, UNCHANGED <<section, tab, sel, modal>>
    PROVE  ModalsOK'
BY DEF ModalsOK, IsOpen, StateOK, ItemShown, listSection

LEMMA StayOK == ASSUME ScreenOK, Stay PROVE ScreenOK'
BY DEF ScreenOK, Stay

LEMMA ListSections ==
    ASSUME ScreenOK
    PROVE  /\ section = "settings" => listSection \in Lists /\ Tabs[tab] \in Lists
           /\ section # "settings" => listSection = section
BY DEF ScreenOK, listSection, Lists, ToSet

LEMMA LoadedOK ==
    ASSUME ScreenOK, NEW to \in Sections, NEW key, Loaded(to, key)
    PROVE  ScreenOK'
<1>1. PICK d \in Snapshots :
        /\ data' = d
        /\ section' = to
        /\ sel' = Navigated([l \in Lists |-> Reconciled(d[l], sel[l])], d, to, key)
        /\ UNCHANGED <<stage, tab>>
  BY DEF Loaded
<1>2. SelectionOK([l \in Lists |-> Reconciled(d[l], sel[l])], d)
  BY ReconciledAll
<1>3. SelectionOK(sel', d)
  BY <1>1, <1>2, NavigatedSelects
<1> QED BY <1>1, <1>3 DEF ScreenOK

LEMMA DisconnectedOK ==
    ASSUME ScreenOK, SetDisconnected
    PROVE  ScreenOK' /\ ModalsOK'
BY ClosedOK DEF SetDisconnected, ScreenOK

LEMMA RedrawOK ==
    ASSUME ScreenOK, Redraw
    PROVE  ScreenOK' /\ ModalsOK'
<1>1. section \in Sections
  BY DEF ScreenOK
<1> QED BY <1>1, LoadedOK, ClosedOK, DisconnectedOK DEF Redraw, Reload

\* An answer leaves the modals as the key left them, or closes them.
LEMMA AnswerOK ==
    ASSUME ScreenOK, ModalsOK, NEW after, Answer(after), after = modal \/ after = AllClosed
    PROVE  ScreenOK' /\ ModalsOK'
<1>1. section \in Sections
  BY DEF ScreenOK
<1>2. ASSUME NEW to \in Sections, NEW key, Reload(to, key)
      PROVE  ScreenOK' /\ ModalsOK'
  BY <1>2, LoadedOK, ClosedOK DEF Reload
<1>3. CASE Show(AllClosed)
  BY <1>3, StayOK, ClosedOK DEF Show
<1>4. CASE Show(after)
  <2>1. CASE after = modal
    BY <1>4, <2>1, StayOK, KeptOK DEF Show, Stay
  <2>2. CASE after = AllClosed
    BY <1>3, <1>4, <2>2
  <2> QED BY <2>1, <2>2
<1>5. CASE SetDisconnected
  BY <1>5, DisconnectedOK
<1> QED BY <1>1, <1>2, <1>3, <1>4, <1>5 DEF Answer

----------------------------------------
(* The steps.                                                              *)

LEMMA ReceivesIsOpen ==
    ASSUME NEW m, Receives(m)
    PROVE  stage = "running" /\ IsOpen(m)
BY DEF Receives

\* A key closes the modal that takes it, over the same screen.
LEMMA ShowClosedOK ==
    ASSUME ScreenOK, ModalsOK, NEW m \in ToSet(Modals), IsOpen(m), Show(Close(m))
    PROVE  ScreenOK' /\ ModalsOK'
BY ClosesAll, ClosedOK, StayOK DEF Show

LEMMA SectionsAround ==
    ASSUME ScreenOK, NextSection
    PROVE  ScreenOK' /\ ModalsOK'
<1>1. PICK delta \in {1, -1} :
         IF section = "settings"
         THEN /\ tab' = ((tab - 1 + delta + Len(Tabs)) % Len(Tabs)) + 1
              /\ sel' = Navigated(sel, data, Tabs[tab'], "")
              /\ UNCHANGED <<stage, data, section, modal>>
         ELSE LET i == CHOOSE i \in DOMAIN Ordered : Ordered[i] = section
              IN  /\ Navigate(Ordered[((i - 1 + delta + Len(Ordered)) % Len(Ordered)) + 1], "")
                  /\ UNCHANGED <<stage, data, tab, modal>>
  BY DEF NextSection
<1>2. modal' = AllClosed
  BY <1>1 DEF NextSection, Unobstructed, Free
<1>3. ModalsOK'
  BY <1>2, ClosedOK
<1>4. CASE section = "settings"
  <2> DEFINE n == Len(Tabs)
  <2>1. n \in Nat /\ n > 0 /\ tab \in 1..n /\ DOMAIN Tabs = 1..n
    BY ShellAssumption, EmptySeq DEF ScreenOK
  <2>2. (tab - 1 + delta + n) % n \in 0..n - 1
    BY <2>1, Remainder
  <2>3. tab' \in DOMAIN Tabs
    <3> DEFINE x == (tab - 1 + delta + n) % n
    <3>1. tab' = x + 1
      BY <1>1, <1>4
    <3> HIDE DEF x, n
    <3>2. x \in 0..n - 1
      BY <2>2 DEF x
    <3> QED BY <2>1, <3>1, <3>2
  <2>4. SelectionOK(sel', data)
    BY <1>1, <1>4, NavigatedSelects DEF ScreenOK
  <2> QED BY <1>1, <1>3, <1>4, <2>3, <2>4 DEF ScreenOK
<1>5. CASE section # "settings"
  <2> DEFINE n == Len(Ordered)
             i == CHOOSE i \in DOMAIN Ordered : Ordered[i] = section
             to == Ordered[((i - 1 + delta + n) % n) + 1]
  <2>1. \E j \in DOMAIN Ordered : Ordered[j] = section
    BY <1>5 DEF ScreenOK, Sections, ToSet
  <2>2. i \in DOMAIN Ordered
    BY <2>1
  <2> HIDE DEF i
  <2>3. n \in Nat /\ n > 0 /\ i \in 1..n /\ DOMAIN Ordered = 1..n
    BY <2>2, ShellAssumption, EmptySeq
  <2>4. (i - 1 + delta + n) % n \in 0..n - 1
    BY <2>3, Remainder
  <2>5. to \in Sections
    BY <2>3, <2>4 DEF Sections, ToSet
  <2>6. Navigate(to, "") /\ UNCHANGED <<stage, data, tab>>
    BY <1>1, <1>5 DEF i
  <2> HIDE DEF to
  <2>7. SelectionOK(sel', data)
    BY <2>6, NavigatedSelects DEF ScreenOK, Navigate
  <2> QED BY <1>3, <2>5, <2>6, <2>7 DEF ScreenOK, Navigate
<1> QED BY <1>4, <1>5

LEMMA MovedSelectionOK ==
    ASSUME ScreenOK, NEW delta \in Int, moveSelection(delta)
    PROVE  ScreenOK' /\ UNCHANGED <<section, tab, modal>>
<1> DEFINE l == listSection
           i == sel[l].index + delta
           j == IF i < 1 THEN 1 ELSE IF i > Len(data[l]) THEN Len(data[l]) ELSE i
           s == [index |-> j, key |-> data[l][j]]
<1>1. /\ l \in Lists /\ data[l] # << >>
      /\ sel' = [sel EXCEPT ![l] = s]
      /\ UNCHANGED <<stage, data, section, tab, modal>>
  BY DEF moveSelection, Selected
<1>2. data[l] \in Seq(Items[l])
  BY <1>1, SnapshotLists DEF ScreenOK
<1>3. Len(data[l]) \in Nat /\ Len(data[l]) > 0 /\ DOMAIN data[l] = 1..Len(data[l])
  BY <1>1, <1>2, EmptySeq
<1>4. sel[l].index \in Int
  <2>1. Selects(sel[l], data[l])
    BY <1>1 DEF ScreenOK, SelectionOK
  <2>2. sel[l].index \in DOMAIN data[l]
    BY <1>1, <2>1 DEF Selects
  <2> HIDE DEF l
  <2> QED BY <1>3, <2>2
<1>5. j \in DOMAIN data[l]
  BY <1>3, <1>4
<1> HIDE DEF j
<1>6. Selects(s, data[l])
  BY <1>1, <1>5 DEF Selects
<1> HIDE DEF s, l
<1>7. SelectionOK(sel', data)
  BY <1>1, <1>6 DEF ScreenOK, SelectionOK
<1> QED BY <1>1, <1>7 DEF ScreenOK

LEMMA MoveKeyOK ==
    ASSUME ScreenOK, MoveKey
    PROVE  ScreenOK' /\ ModalsOK'
<1>1. PICK delta \in -Len(data[listSection])..Len(data[listSection]) : moveSelection(delta)
  BY DEF MoveKey
<1>2. delta \in Int
  OBVIOUS
<1>3. modal = AllClosed
  BY DEF MoveKey, Unobstructed, Free
<1> QED BY <1>1, <1>2, <1>3, MovedSelectionOK, ClosedOK

LEMMA WheelOK ==
    ASSUME ScreenOK, ModalsOK, Wheel
    PROVE  ScreenOK' /\ ModalsOK'
<1>1. PICK delta \in {1, -1} : moveSelection(delta)
  BY DEF Wheel
<1>2. ScreenOK' /\ UNCHANGED <<section, tab, modal>>
  BY <1>1, MovedSelectionOK
<1>3. \A m \in {"confirm", "input", "compose"} : ~IsOpen(m)
  BY DEF Wheel
<1> QED BY <1>2, <1>3 DEF ModalsOK, IsOpen, StateOK, ItemShown

\* A form that is new, or of the item that is selected.
LEMMA FormOpens ==
    ASSUME ScreenOK, Free, NEW mode \in Modes, NEW form \in DOMAIN CodexForms \cup {""},
           mode = "codex" => form # "",
           NEW item \in {""} \cup AllKeys,
           item = "" \/ (listSection \in Lists /\ item = sel[listSection].key),
           NEW n \in Nat, mode \in DOMAIN Columns => n \in 2..MaxFormLines,
           Show(Open("compose", NewCompose(mode, form, item, n)))
    PROVE  ScreenOK' /\ ModalsOK'
<1> DEFINE f == NewCompose(mode, form, item, n)
<1>1. /\ f \in Forms /\ f.mode = mode /\ f.item = item /\ f.lines = n /\ f.index = 0
  BY DEF NewCompose, Forms, AllKeys
<1> HIDE DEF f
<1>2. FormOK(f)
  BY <1>1, NewFormOK DEF HasLines
<1>3. StateOK("compose", f) /\ ItemShown("compose", f)
  BY <1>1, <1>2 DEF StateOK, ItemShown
<1>4. Show(Open("compose", f))
  BY DEF f
<1> QED BY <1>3, <1>4, FreeOK, OpenedOK, ModalNames, StayOK DEF Show

\* What is no form and of no item, or of the one that is selected.
LEMMA OtherOpens ==
    ASSUME ScreenOK, Free, NEW m \in ToSet(Modals), NEW s, Show(Open(m, s)), StateOK(m, s),
           ItemShown(m, s)
    PROVE  ScreenOK' /\ ModalsOK'
BY FreeOK, OpenedOK, StayOK DEF Show

LEMMA NewModesAreModes == \A mode \in NewModes : mode \in Modes /\ mode # "codex"
<1>1. NewModes \subseteq {"codex_type", "campaign", "account", "quest", "loot", "asset", "expense",
                          "income", "custom"}
  BY DEF NewModes
<1> QED BY <1>1, ModeNames DEF Modes

LEMMA ListsOffer == Lists \subseteq DOMAIN Offers
<1>1. ToSet(Tabs) \subseteq {"accounts", "codex_types", "campaigns"}
  BY ShellAssumption DEF ToSet
<1>2. {"accounts", "codex_types", "campaigns"} \subseteq DOMAIN Offers
  BY DEF Offers
<1>3. ToSet(Ordered) \subseteq {"dashboard"} \cup DOMAIN Offers
  BY ShellAssumption DEF ToSet
<1> QED BY <1>1, <1>2, <1>3 DEF Lists

LEMMA OfferedModes ==
    ASSUME NEW l \in Lists, NEW mode \in Offers[l]
    PROVE  mode \in {"confirm", "input", "notes", "quest", "loot", "asset", "asset_template",
                     "custom_from_template", "codex"}
<1>1. \A k \in DOMAIN Offers :
        Offers[k] \subseteq {"confirm", "input", "notes", "quest", "loot", "asset",
                             "asset_template",
                             "custom_from_template", "codex"}
  BY DEF Offers, JournalOffers, QuestOffers, LootOffers, AssetOffers, CodexOffers, NoteOffers,
         AccountOffers, TypeOffers, CampaignOffers
<1>2. Lists \subseteq DOMAIN Offers
  BY ListsOffer
<1> QED BY <1>1, <1>2

LEMMA OfferedNotes ==
    ASSUME NEW l \in Lists, "notes" \in Offers[l]
    PROVE  l = "notes"
<1>1. \A k \in DOMAIN Offers : "notes" \in Offers[k] => k = "notes"
  BY DEF Offers, JournalOffers, QuestOffers, LootOffers, AssetOffers, CodexOffers, NoteOffers,
         AccountOffers, TypeOffers, CampaignOffers
<1>2. Lists \subseteq DOMAIN Offers
  BY ListsOffer
<1> QED BY <1>1, <1>2

LEMMA OpenActionOK ==
    ASSUME ScreenOK, openAction
    PROVE  ScreenOK' /\ ModalsOK'
<1> DEFINE l == listSection
           item == sel[l].key
<1>1. l \in Lists /\ data[l] # << >> /\ Free
  BY DEF openAction, Unobstructed
<1>2. PICK mode \in Offers[l] :
         CASE mode \in {"confirm", "input"} -> Show(Open(mode, [item |-> item]))
           [] mode = "notes" -> Show(Open("editor", [item |-> item]))
           [] OTHER -> \E f \in ItemForms(mode, item) : Show(Open("compose", f))
  BY DEF openAction
<1>3. item \in AllKeys
  <2>1. data[l] \in Seq(Items[l]) /\ Selects(sel[l], data[l])
    BY <1>1, SnapshotLists DEF ScreenOK, SelectionOK
  <2>2. sel[l].index \in DOMAIN data[l] /\ data[l][sel[l].index] = item
    BY <1>1, <2>1 DEF Selects
  <2> QED BY <1>1, <2>1, <2>2 DEF AllKeys
<1>4. CASE mode \in {"confirm", "input"}
  <2>1. Show(Open(mode, [item |-> item])) /\ mode \in ToSet(Modals)
    BY <1>2, <1>4, ModalNames
  <2>2. StateOK(mode, [item |-> item]) /\ ItemShown(mode, [item |-> item])
    BY <1>1, <1>4 DEF StateOK, ItemShown
  <2> QED BY <1>1, <2>1, <2>2, OtherOpens
<1>5. CASE mode = "notes"
  <2>1. Show(Open("editor", [item |-> item])) /\ "editor" \in ToSet(Modals)
    BY <1>2, <1>5, ModalNames
  <2>3. "notes" \in Sections
    <3>1. l = "notes"
      BY <1>1, <1>2, <1>5, OfferedNotes
    <3>2. "notes" \notin ToSet(Tabs)
      BY ShellAssumption DEF ToSet
    <3> QED BY <1>1, <3>1, <3>2 DEF Lists, Sections
  <2>2. StateOK("editor", [item |-> item]) /\ ItemShown("editor", [item |-> item])
    BY <2>3 DEF StateOK, ItemShown
  <2> QED BY <1>1, <2>1, <2>2, OtherOpens
<1>6. CASE mode \notin {"confirm", "input", "notes"}
  <2>1. PICK f \in ItemForms(mode, item) : Show(Open("compose", f))
    BY <1>2, <1>6
  <2>2. mode \in {"quest", "loot", "asset", "asset_template", "custom_from_template", "codex"}
    BY <1>1, <1>6, OfferedModes
  <2>3. "" \in DOMAIN CodexForms \cup {""} /\ MaxFormLines \in Nat
    BY ShellAssumption
  <2>4. CASE mode = "asset_template"
    <3>1. PICK n \in 2..MaxFormLines : f = NewCompose(mode, "", item, n)
      BY <2>1, <2>4 DEF ItemForms
    <3>2. n \in Nat /\ mode \in Modes
      BY <2>3, <2>4, ModeNames DEF Modes
    <3> HIDE DEF item
    <3> QED BY <1>1, <1>3, <2>1, <2>3, <2>4, <3>1, <3>2, FormOpens DEF item
  <2>5. CASE mode = "custom_from_template"
    <3>1. PICK n \in 2..MaxFormLines : f = NewCompose("custom", "", "", n)
      BY <2>1, <2>5 DEF ItemForms
    <3>2. n \in Nat /\ "custom" \in Modes
      BY <2>3, ModeNames DEF Modes
    <3> QED BY <1>1, <2>1, <2>3, <3>1, <3>2, FormOpens
  <2>6. CASE mode = "codex"
    <3>1. PICK form \in ToSet(Types) \cup {"npc"} : f = NewCompose(mode, form, item, 0)
      BY <2>1, <2>6 DEF ItemForms
    <3>2. form \in DOMAIN CodexForms
      <4>1. Types \in Seq(DOMAIN CodexForms) /\ "npc" \in DOMAIN CodexForms
        BY ShellAssumption, ModeNames
      <4>2. ToSet(Types) \subseteq DOMAIN CodexForms
        BY <4>1 DEF ToSet
      <4> QED BY <4>1, <4>2
    <3>4. form # ""
      BY <3>2, ModeNames
    <3>3. mode \in Modes /\ mode \notin DOMAIN Columns
      BY <2>6, ModeNames DEF Modes
    <3> HIDE DEF item
    <3> QED BY <1>1, <1>3, <2>1, <3>1, <3>2, <3>3, <3>4, FormOpens DEF item
  <2>7. CASE mode \in {"quest", "loot", "asset"}
    <3>1. f = NewCompose(mode, "", item, 0)
      BY <2>1, <2>7 DEF ItemForms
    <3>2. mode \in Modes /\ mode \notin DOMAIN Columns /\ mode # "codex"
      BY <2>7, ModeNames DEF Modes
    <3> HIDE DEF item
    <3> QED BY <1>1, <1>3, <2>1, <2>3, <3>1, <3>2, FormOpens DEF item
  <2> QED BY <2>2, <2>4, <2>5, <2>6, <2>7
<1> QED BY <1>4, <1>5, <1>6

LEMMA OpeningOK ==
    ASSUME ScreenOK,
           openCompose \/ openNewNote \/ openCodexPicker \/ openSearch \/ openLedgerView
    PROVE  ScreenOK' /\ ModalsOK'
<1>1. CASE openCompose
  <2>1. PICK mode \in NewModes : Show(Open("compose", NewCompose(mode, "", "", 2)))
    BY <1>1 DEF openCompose
  <2>2. Free /\ mode \in Modes /\ mode # "codex"
    BY <1>1, NewModesAreModes DEF openCompose, Unobstructed
  <2>3. 2 \in Nat /\ 2 \in 2..MaxFormLines
    BY ShellAssumption
  <2> QED BY <2>1, <2>2, <2>3, FormOpens
<1>2. CASE openNewNote
  <2>1. /\ Free /\ Show(Open("editor", [item |-> ""])) /\ "editor" \in ToSet(Modals)
        /\ "notes" \in Sections
    BY <1>2, ModalNames DEF openNewNote, Unobstructed, ScreenOK
  <2>2. StateOK("editor", [item |-> ""]) /\ ItemShown("editor", [item |-> ""])
    BY <2>1 DEF StateOK, ItemShown
  <2> QED BY <2>1, <2>2, OtherOpens
<1>3. CASE openCodexPicker
  <2> DEFINE s == [focus |-> "name", type |-> 1]
  <2>1. /\ Free /\ Show(Open("codexPicker", s)) /\ "codexPicker" \in ToSet(Modals)
        /\ 1 \in DOMAIN Types
    BY <1>3, ModalNames, EmptySeq, ShellAssumption DEF openCodexPicker, Unobstructed
  <2>2. StateOK("codexPicker", s) /\ ItemShown("codexPicker", s)
    BY <2>1 DEF StateOK, ItemShown
  <2> QED BY <2>1, <2>2, OtherOpens
<1>4. CASE openSearch
  <2>1. /\ Free /\ Show(Open("search", [filter |-> 0])) /\ "search" \in ToSet(Modals)
    BY <1>4, ModalNames DEF openSearch, Unobstructed
  <2>2. Len(searchable) \in Nat
    BY ShellAssumption, HeadTailProperties DEF searchable
  <2>3. StateOK("search", [filter |-> 0]) /\ ItemShown("search", [filter |-> 0])
    BY <2>2 DEF StateOK, ItemShown
  <2> QED BY <2>1, <2>3, OtherOpens
<1>5. CASE openLedgerView
  <2>1. PICK count \in 0..MaxLedgerRows :
          Show(Open("ledgerView", [detail |-> FALSE, rows |-> count, index |-> 0,
                                   previousSection |-> section]))
    BY <1>5 DEF openLedgerView
  <2> DEFINE s == [detail |-> FALSE, rows |-> count, index |-> 0, previousSection |-> section]
  <2>2. Free /\ "ledgerView" \in ToSet(Modals) /\ count \in Nat /\ section \in Sections
    BY <1>5, ModalNames, ShellAssumption DEF openLedgerView, Unobstructed, ScreenOK
  <2>3. StateOK("ledgerView", s) /\ ItemShown("ledgerView", s)
    BY <2>2 DEF StateOK, ItemShown
  <2> QED BY <2>1, <2>2, <2>3, OtherOpens
<1> QED BY <1>1, <1>2, <1>3, <1>4, <1>5

\* A key of a modal that changes what is in it.
LEMMA KeptOpen ==
    ASSUME ScreenOK, ModalsOK, NEW m \in ToSet(Modals), IsOpen(m), NEW s, Show(Open(m, s)),
           StateOK(m, s), ItemShown(m, s)
    PROVE  ScreenOK' /\ ModalsOK'
BY OpenedOK, StayOK DEF Show

LEMMA PlainKeysOK ==
    ASSUME ScreenOK, ModalsOK, Quit \/ Refresh \/ Help \/ ShowSection \/ EnterOnCampaign
    PROVE  ScreenOK' /\ ModalsOK'
<1>0. Free
  BY DEF Quit, Refresh, Help, ShowSection, EnterOnCampaign, Unobstructed
<1>1. CASE Quit
  <2>1. CASE section = "settings"
    <3>1. /\ section' = "dashboard" /\ UNCHANGED <<stage, data, tab, sel>>
          /\ modal' = AllClosed
      BY <1>0, <1>1, <2>1 DEF Quit, Free
    <3>2. "dashboard" \in Sections
      <4>1. Ordered # << >> /\ Ordered \in Seq({"dashboard"} \cup DOMAIN Offers)
        BY ShellAssumption
      <4>2. 1 \in DOMAIN Ordered
        BY <4>1, EmptySeq
      <4> QED BY <4>2, ShellAssumption DEF Sections, ToSet
    <3> QED BY <3>1, <3>2, ClosedOK DEF ScreenOK
  <2>2. CASE section # "settings"
    <3>1. Show(Open("quitConfirm", [shown |-> TRUE])) /\ "quitConfirm" \in ToSet(Modals)
      BY <1>1, <2>2, ModalNames DEF Quit
    <3>2. StateOK("quitConfirm", [shown |-> TRUE]) /\ ItemShown("quitConfirm", [shown |-> TRUE])
      BY DEF StateOK, ItemShown
    <3> QED BY <1>0, <3>1, <3>2, OtherOpens
  <2> QED BY <2>1, <2>2
<1>2. CASE Refresh
  BY <1>2, RedrawOK DEF Refresh
<1>3. CASE Help
  <2>1. Show(Open("glossary", [shown |-> TRUE])) /\ "glossary" \in ToSet(Modals)
    BY <1>3, ModalNames DEF Help
  <2>2. StateOK("glossary", [shown |-> TRUE]) /\ ItemShown("glossary", [shown |-> TRUE])
    BY DEF StateOK, ItemShown
  <2> QED BY <1>0, <2>1, <2>2, OtherOpens
<1>4. CASE ShowSection
  <2>1. PICK s \in Sections : Navigate(s, "")
    BY <1>4 DEF ShowSection
  <2>2. SelectionOK(sel', data)
    BY <2>1, NavigatedSelects DEF ScreenOK, Navigate
  <2>3. UNCHANGED <<stage, data, tab>> /\ modal' = AllClosed /\ section' = s
    BY <1>0, <1>4, <2>1 DEF ShowSection, Navigate, Free
  <2> QED BY <2>2, <2>3, ClosedOK DEF ScreenOK
<1>5. CASE EnterOnCampaign
  <2>1. Answer(modal)
    BY <1>5 DEF EnterOnCampaign
  <2> QED BY <2>1, AnswerOK
<1> QED BY <1>1, <1>2, <1>3, <1>4, <1>5

LEMMA QuestionKeysOK ==
    ASSUME ScreenOK, ModalsOK, QuitConfirmKey \/ GlossaryKey \/ ConfirmKey \/ InputKey
    PROVE  ScreenOK' /\ ModalsOK'
<1>1. CASE QuitConfirmKey
  <2>1. IsOpen("quitConfirm") /\ "quitConfirm" \in ToSet(Modals)
    BY <1>1, ReceivesIsOpen, ModalNames DEF QuitConfirmKey
  <2>2. CASE stage' = "ended" /\ UNCHANGED <<data, section, tab, sel, modal>>
    BY <2>2, KeptOK DEF ScreenOK
  <2>3. CASE Show(Close("quitConfirm"))
    BY <2>1, <2>3, ShowClosedOK
  <2> QED BY <1>1, <2>2, <2>3 DEF QuitConfirmKey
<1>2. CASE GlossaryKey
  <2>1. IsOpen("glossary") /\ "glossary" \in ToSet(Modals)
    BY <1>2, ReceivesIsOpen, ModalNames DEF GlossaryKey
  <2>2. CASE Show(Close("glossary"))
    BY <2>1, <2>2, ShowClosedOK
  <2>3. CASE Redraw
    BY <2>3, RedrawOK
  <2> QED BY <1>2, <2>2, <2>3 DEF GlossaryKey
<1>3. CASE ConfirmKey
  <2>1. IsOpen("confirm") /\ "confirm" \in ToSet(Modals)
    BY <1>3, ReceivesIsOpen, ModalNames DEF ConfirmKey
  <2>2. CASE Show(Close("confirm"))
    BY <2>1, <2>2, ShowClosedOK
  <2>3. CASE Redraw
    BY <2>3, RedrawOK
  <2>4. CASE Answer(Close("confirm"))
    <3>1. Close("confirm") = AllClosed
      BY <2>1, ClosesAll
    <3> QED BY <2>4, <3>1, AnswerOK
  <2> QED BY <1>3, <2>2, <2>3, <2>4 DEF ConfirmKey
<1>4. CASE InputKey
  <2>1. IsOpen("input") /\ "input" \in ToSet(Modals)
    BY <1>4, ReceivesIsOpen, ModalNames DEF InputKey
  <2>2. CASE Show(Close("input"))
    BY <2>1, <2>2, ShowClosedOK
  <2>3. CASE Redraw
    BY <2>3, RedrawOK
  <2>4. CASE Answer(modal)
    BY <2>4, AnswerOK
  <2> QED BY <1>4, <2>2, <2>3, <2>4 DEF InputKey
<1> QED BY <1>1, <1>2, <1>3, <1>4

\* A save of a note loads the lists under the editor, which stays open.
LEMMA EditorKeyOK ==
    ASSUME ScreenOK, ModalsOK, EditorKey
    PROVE  ScreenOK' /\ ModalsOK'
<1>1. IsOpen("editor") /\ "editor" \in ToSet(Modals)
  BY ReceivesIsOpen, ModalNames DEF EditorKey
<1>2. CASE Show(Close("editor"))
  BY <1>1, <1>2, ShowClosedOK
<1>3. CASE Answer(modal)
  BY <1>3, AnswerOK
<1>4. ASSUME NEW key \in Items["notes"], Loaded("notes", key), UNCHANGED modal
      PROVE  ScreenOK' /\ ModalsOK'
  <2>1. ASSUME NEW m \in ToSet(Modals), IsOpen(m)
        PROVE  m = "editor"
    BY <1>1, <2>1 DEF ModalsOK
  <2>3. "notes" \in Sections
    BY <1>1 DEF ModalsOK, StateOK
  <2>2. ModalsOK'
    <3>1. modal' = modal
      BY <1>4
    <3>2. modal' = [m \in ToSet(Modals) |-> modal'[m]]
      BY <3>1 DEF ModalsOK
    <3>3. \A m, n \in ToSet(Modals) : IsOpen(m)' /\ IsOpen(n)' => m = n
      BY <3>1 DEF ModalsOK, IsOpen
    <3>4. \A m \in ToSet(Modals) : IsOpen(m)' => StateOK(m, modal[m])' /\ ItemShown(m, modal[m])'
      <4>1. ASSUME NEW m \in ToSet(Modals), IsOpen(m)'
            PROVE  StateOK(m, modal[m])' /\ ItemShown(m, modal[m])'
        <5>1. m = "editor"
          BY <2>1, <3>1, <4>1 DEF IsOpen
        <5> QED BY <2>3, <5>1 DEF StateOK, ItemShown
      <4> QED BY <4>1
    <3> QED BY <3>2, <3>3, <3>4 DEF ModalsOK, IsOpen
  <2> QED BY <1>4, <2>2, <2>3, LoadedOK
<1> QED BY <1>2, <1>3, <1>4 DEF EditorKey

LEMMA SearchableSections ==
    /\ Len(searchable) \in Nat
    /\ \A i \in 1..Len(searchable) : searchable[i] \in Sections
<1>1. Ordered \in Seq({"dashboard"} \cup DOMAIN Offers) /\ Ordered # << >>
  BY ShellAssumption
<1>2. /\ searchable \in Seq({"dashboard"} \cup DOMAIN Offers)
      /\ Len(searchable) = Len(Ordered) - 1
      /\ \A i \in 1..Len(searchable) : searchable[i] = Ordered[i + 1]
  BY <1>1, HeadTailProperties DEF searchable
<1>3. Len(Ordered) \in Nat /\ DOMAIN Ordered = 1..Len(Ordered)
  BY <1>1
<1>4. \A i \in 1..Len(searchable) : i + 1 \in DOMAIN Ordered
  BY <1>2, <1>3
<1>5. \A i \in 1..Len(searchable) : searchable[i] \in ToSet(Ordered)
  BY <1>2, <1>4 DEF ToSet
<1> QED BY <1>2, <1>5 DEF Sections

LEMMA SearchKeyOK ==
    ASSUME ScreenOK, ModalsOK, SearchKey
    PROVE  ScreenOK' /\ ModalsOK'
<1> DEFINE n == Len(searchable)
           filter == modal["search"].filter
<1>1. IsOpen("search") /\ "search" \in ToSet(Modals)
  BY ReceivesIsOpen, ModalNames DEF SearchKey
<1>2. n \in Nat /\ filter \in 0..n
  BY <1>1, SearchableSections DEF ModalsOK, StateOK
<1>3. ASSUME NEW delta \in {1, n}, Show(Open("search", [filter |-> (filter + delta) % (n + 1)]))
      PROVE  ScreenOK' /\ ModalsOK'
  <2> DEFINE s == [filter |-> (filter + delta) % (n + 1)]
  <2>1. (filter + delta) % (n + 1) \in 0..n
    <3> DEFINE i == filter + delta
               k == n + 1
    <3>1. i \in Int /\ k \in Nat /\ k > 0 /\ n = k - 1
      BY <1>2
    <3> HIDE DEF i, k
    <3>2. i % k \in 0..k - 1
      BY <3>1, Remainder
    <3> QED BY <3>1, <3>2 DEF i, k
  <2>2. StateOK("search", s) /\ ItemShown("search", s)
    BY <2>1 DEF StateOK, ItemShown
  <2> HIDE DEF s
  <2>3. Show(Open("search", s))
    BY <1>3 DEF s
  <2> QED BY <1>1, <2>2, <2>3, KeptOpen
<1>4. CASE Show(Close("search"))
  BY <1>1, <1>4, ShowClosedOK
<1>5. CASE Redraw
  BY <1>5, RedrawOK
<1>6. ASSUME NEW i \in IF filter = 0 THEN 1..n ELSE {filter}, NEW key,
             Navigate(searchable[i], key), modal' = Close("search"), UNCHANGED <<stage, data, tab>>
      PROVE  ScreenOK' /\ ModalsOK'
  <2>1. i \in 1..n
    BY <1>2
  <2>2. searchable[i] \in Sections
    BY <2>1, SearchableSections
  <2>3. SelectionOK(sel', data)
    BY <1>6, NavigatedSelects DEF ScreenOK, Navigate
  <2>4. modal' = AllClosed
    BY <1>1, <1>6, ClosesAll
  <2> QED BY <1>6, <2>2, <2>3, <2>4, ClosedOK DEF ScreenOK, Navigate
<1> QED BY <1>3, <1>4, <1>5, <1>6 DEF SearchKey

LedgerViews == [detail : BOOLEAN, rows : Nat, index : Int, previousSection : Sections]

LEMMA LedgerViewKept ==
    ASSUME ScreenOK, ModalsOK, IsOpen("ledgerView"), NEW w \in LedgerViews,
           Show(Open("ledgerView", w))
    PROVE  ScreenOK' /\ ModalsOK'
<1>1. StateOK("ledgerView", w) /\ ItemShown("ledgerView", w)
  BY DEF StateOK, ItemShown, LedgerViews
<1> QED BY <1>1, KeptOpen, ModalNames

LEMMA MovedInt ==
    ASSUME NEW i \in Int, NEW count \in Nat, NEW delta \in Int
    PROVE  Moved(i, count, delta) \in Int
BY DEF Moved, MaxIndex

LEMMA LedgerViewFields ==
    ASSUME NEW v \in LedgerViews
    PROVE  /\ v.rows \in Nat /\ v.index \in Int /\ v.previousSection \in Sections
           /\ \A b \in BOOLEAN : [v EXCEPT !.detail = b] \in LedgerViews
BY DEF LedgerViews

LEMMA LedgerListKeyOK ==
    ASSUME ScreenOK, ModalsOK, LedgerListKey
    PROVE  ScreenOK' /\ ModalsOK'
<1> DEFINE v == modal["ledgerView"]
           Turn(w) == Show(Open("ledgerView", w))
<1>1. IsOpen("ledgerView") /\ "ledgerView" \in ToSet(Modals)
  BY ReceivesIsOpen, ModalNames DEF LedgerListKey
<1>2. v \in LedgerViews
  BY <1>1 DEF ModalsOK, StateOK, LedgerViews
<1>3. /\ \/ \E delta \in {-10, -1, 10} : Turn([v EXCEPT !.index = Moved(@, v.rows, delta)])
         \/ v.index < v.rows - 1 /\ Turn([v EXCEPT !.index = @ + 1])
         \/ \E i \in {0, v.rows - 1} : i >= 0 /\ Turn([v EXCEPT !.index = i])
         \/ \E count \in 0..MaxLedgerRows :
              Turn([v EXCEPT !.rows = count,
                             !.index = IF count = 0 THEN 0 ELSE Moved(@, count, 0)])
         \/ /\ v.rows > 0 /\ v.index < v.rows
            /\ Turn([v EXCEPT !.detail = TRUE])
         \/ /\ modal' = Close("ledgerView") /\ section' = v.previousSection
            /\ UNCHANGED <<stage, data, tab, sel>>
  BY DEF LedgerListKey
<1>4. ASSUME NEW w \in LedgerViews, Turn(w)
      PROVE  ScreenOK' /\ ModalsOK'
  BY <1>1, <1>4, LedgerViewKept
<1>5. CASE /\ modal' = Close("ledgerView") /\ section' = v.previousSection
           /\ UNCHANGED <<stage, data, tab, sel>>
  <2>1. modal' = AllClosed
    BY <1>1, <1>5, ClosesAll
  <2>2. v.previousSection \in Sections
    BY <1>2, LedgerViewFields
  <2> QED BY <1>5, <2>1, <2>2, ClosedOK DEF ScreenOK
<1> HIDE DEF v, Turn
<1>6. v.rows \in Nat /\ v.index \in Int
  BY <1>2, LedgerViewFields
<1>7. ASSUME NEW delta \in {-10, -1, 10}
      PROVE  [v EXCEPT !.index = Moved(@, v.rows, delta)] \in LedgerViews
  <2>1. delta \in Int /\ v.index \in Int /\ v.rows \in Nat
    BY <1>6
  <2>2. Moved(v.index, v.rows, delta) \in Int
    BY <2>1, MovedInt
  <2> QED BY <1>2, <2>2 DEF LedgerViews
<1>8. [v EXCEPT !.index = @ + 1] \in LedgerViews
  <2>1. v.index + 1 \in Int
    BY <1>6
  <2> QED BY <1>2, <2>1 DEF LedgerViews
<1>9. \A i \in {0, v.rows - 1} : [v EXCEPT !.index = i] \in LedgerViews
  <2>1. \A i \in {0, v.rows - 1} : i \in Int
    BY <1>6
  <2> QED BY <1>2, <2>1 DEF LedgerViews
<1>10. ASSUME NEW count \in 0..MaxLedgerRows
       PROVE  [v EXCEPT !.rows = count,
                        !.index = IF count = 0 THEN 0 ELSE Moved(@, count, 0)] \in LedgerViews
  <2>1. count \in Nat
    BY ShellAssumption
  <2>2. v.index \in Int /\ 0 \in Int
    BY <1>6
  <2>3. Moved(v.index, count, 0) \in Int
    BY <2>1, <2>2, MovedInt
  <2> QED BY <1>2, <2>1, <2>2, <2>3 DEF LedgerViews
<1>11. [v EXCEPT !.detail = TRUE] \in LedgerViews
  BY <1>2, LedgerViewFields
<1> QED BY <1>3, <1>4, <1>5, <1>7, <1>8, <1>9, <1>10, <1>11

LEMMA LedgerOtherKeysOK ==
    ASSUME ScreenOK, ModalsOK, LedgerDetailKey \/ LedgerCommandKey
    PROVE  ScreenOK' /\ ModalsOK'
<1>1. CASE LedgerDetailKey
  <2> DEFINE v == modal["ledgerView"]
  <2>1. IsOpen("ledgerView") /\ "ledgerView" \in ToSet(Modals)
    BY <1>1, ReceivesIsOpen, ModalNames DEF LedgerDetailKey
  <2>2. v \in LedgerViews
    BY <2>1 DEF ModalsOK, StateOK, LedgerViews
  <2>3. [v EXCEPT !.detail = FALSE] \in LedgerViews
    BY <2>2, LedgerViewFields
  <2> QED BY <1>1, <2>1, <2>3, LedgerViewKept DEF LedgerDetailKey
<1>2. CASE LedgerCommandKey
  BY <1>2, RedrawOK, AnswerOK DEF LedgerCommandKey
<1> QED BY <1>1, <1>2

Pickers == [focus : {"name", "type"}, type : DOMAIN Types]

LEMMA PickerKept ==
    ASSUME ScreenOK, ModalsOK, IsOpen("codexPicker"), NEW q \in Pickers,
           Show(Open("codexPicker", q))
    PROVE  ScreenOK' /\ ModalsOK'
<1>1. StateOK("codexPicker", q) /\ ItemShown("codexPicker", q)
  BY DEF StateOK, ItemShown, Pickers
<1> QED BY <1>1, KeptOpen, ModalNames

LEMMA PickerParts ==
    ASSUME NEW p \in Pickers
    PROVE  p.focus \in {"name", "type"} /\ p.type \in DOMAIN Types
BY DEF Pickers

LEMMA CodexPickerKeyOK ==
    ASSUME ScreenOK, ModalsOK, CodexPickerKey
    PROVE  ScreenOK' /\ ModalsOK'
<1> DEFINE p == modal["codexPicker"]
           Turn(q) == Show(Open("codexPicker", q))
<1>1. IsOpen("codexPicker") /\ "codexPicker" \in ToSet(Modals)
  BY ReceivesIsOpen, ModalNames DEF CodexPickerKey
<1>2. p \in Pickers
  BY <1>1 DEF ModalsOK, StateOK, Pickers
<1>3. /\ \/ Turn([p EXCEPT !.focus = IF @ = "name" THEN "type" ELSE "name"])
         \/ p.focus = "type" /\ p.type > 1 /\ Turn([p EXCEPT !.type = @ - 1])
         \/ p.focus = "type" /\ p.type < Len(Types) /\ Turn([p EXCEPT !.type = @ + 1])
         \/ /\ p.focus = "type"
            /\ Show([Close("codexPicker") EXCEPT !["compose"] =
                        NewCompose("codex", Types[p.type], "", 0)])
         \/ Show(Close("codexPicker"))
         \/ Redraw
  BY DEF CodexPickerKey
<1>4. ASSUME NEW q \in Pickers, Turn(q)
      PROVE  ScreenOK' /\ ModalsOK'
  BY <1>1, <1>4, PickerKept
<1>5. CASE Show(Close("codexPicker"))
  BY <1>1, <1>5, ShowClosedOK
<1>6. CASE Redraw
  BY <1>6, RedrawOK
<1>7. /\ Types \in Seq(DOMAIN CodexForms) /\ DOMAIN Types = 1..Len(Types) /\ Len(Types) \in Nat
      /\ p.type \in DOMAIN Types
  <2>1. p.type \in DOMAIN Types
    BY <1>2, PickerParts
  <2> QED BY <2>1, ShellAssumption
<1>8. CASE Show([Close("codexPicker") EXCEPT !["compose"] =
                    NewCompose("codex", Types[p.type], "", 0)])
  <2> DEFINE form == Types[p.type]
             f == NewCompose("codex", form, "", 0)
  <2>1. Close("codexPicker") = AllClosed /\ "compose" \in ToSet(Modals)
    BY <1>1, ClosesAll, ModalNames
  <2>2. form \in DOMAIN CodexForms
    BY <1>7
  <2>3. form # "" /\ "codex" \in Modes /\ "codex" \notin DOMAIN Columns
    BY <2>2, ModeNames DEF Modes
  <2>4. modal' = [AllClosed EXCEPT !["compose"] = f] /\ Stay
    BY <1>8, <2>1 DEF Show
  <2> HIDE DEF form
  <2>5. f \in Forms /\ f.mode = "codex" /\ f.item = "" /\ f.lines = 0 /\ f.index = 0
    BY <2>2, <2>3 DEF NewCompose, Forms
  <2> HIDE DEF f
  <2>6. FormOK(f)
    BY <2>3, <2>5, NewFormOK DEF HasLines
  <2>7. StateOK("compose", f) /\ f.item = ""
    BY <2>5, <2>6 DEF StateOK
  <2>8. /\ modal'["compose"] = f
        /\ \A m \in ToSet(Modals) \ {"compose"} : modal'[m] = Closed
        /\ modal' = [m \in ToSet(Modals) |-> modal'[m]]
    BY <2>1, <2>4 DEF AllClosed
  <2>9. StateOK("compose", modal["compose"])' /\ ItemShown("compose", modal["compose"])'
    BY <2>7, <2>8 DEF StateOK, ItemShown
  <2>10. ModalsOK'
    BY <2>8, <2>9 DEF ModalsOK, IsOpen
  <2> QED BY <2>4, <2>10, StayOK
<1> HIDE DEF p, Turn
<1>9. [p EXCEPT !.focus = IF @ = "name" THEN "type" ELSE "name"] \in Pickers
  BY <1>2 DEF Pickers
<1>10. p.type > 1 => [p EXCEPT !.type = @ - 1] \in Pickers
  <2>1. p.type > 1 => p.type - 1 \in DOMAIN Types
    BY <1>7
  <2> QED BY <1>2, <2>1 DEF Pickers
<1>11. p.type < Len(Types) => [p EXCEPT !.type = @ + 1] \in Pickers
  <2>1. p.type < Len(Types) => p.type + 1 \in DOMAIN Types
    BY <1>7
  <2> QED BY <1>2, <2>1 DEF Pickers
<1> QED BY <1>3, <1>4, <1>5, <1>6, <1>8, <1>9, <1>10, <1>11

LEMMA FormKept ==
    ASSUME ScreenOK, ModalsOK, IsOpen("compose"), NEW g, FormOK(g), g.item = modal["compose"].item,
           Show(Open("compose", g))
    PROVE  ScreenOK' /\ ModalsOK'
<1>1. ItemShown("compose", modal["compose"])
  BY ModalNames DEF ModalsOK
<1>2. StateOK("compose", g) /\ ItemShown("compose", g)
  BY <1>1 DEF StateOK, ItemShown
<1> QED BY <1>2, KeptOpen, ModalNames

LEMMA FormKeysOK ==
    ASSUME ScreenOK, ModalsOK, ComposeKey \/ ComposePickerKey \/ ComposeCommandKey
    PROVE  ScreenOK' /\ ModalsOK'
<1> DEFINE f == modal["compose"]
<1>1. IsOpen("compose") /\ "compose" \in ToSet(Modals)
  BY ReceivesIsOpen, ModalNames DEF ComposeKey, ComposePickerKey, ComposeCommandKey
<1>2. FormOK(f)
  BY <1>1 DEF ModalsOK, StateOK
<1>3. CASE ComposeKey
  <2>1. PICK g \in {composeAdvance(f, 1), composeAdvance(f, -1), AddLine(f), RemoveLine(f)} :
          Show(Open("compose", g))
    BY <1>3 DEF ComposeKey
  <2> HIDE DEF f
  <2>2. FormOK(g)
    BY <1>2, <2>1, AdvanceOK, AddLineOK, RemoveLineOK
  <2>3. g.item = f.item
    BY <1>2, <2>1, KeysKeepItem
  <2> QED BY <1>1, <2>1, <2>2, <2>3, FormKept DEF f
<1>4. CASE ComposePickerKey
  <2> DEFINE g == [f EXCEPT !.picking = ~@]
  <2>1. Show(Open("compose", g))
    BY <1>4 DEF ComposePickerKey
  <2> HIDE DEF f
  <2>2. f.picking \in BOOLEAN
    BY <1>2, FormFields DEF FormOK
  <2>3. FormOK(g) /\ g.item = f.item
    BY <1>2, <2>2, PickingOK, KeysKeepItem
  <2> HIDE DEF g
  <2> QED BY <1>1, <2>1, <2>3, FormKept DEF f
<1>5. CASE ComposeCommandKey
  <2>1. CASE Answer(modal)
    BY <2>1, AnswerOK
  <2>2. CASE Show(Close("compose"))
    BY <1>1, <2>2, ShowClosedOK
  <2>3. CASE Redraw
    BY <2>3, RedrawOK
  <2> QED BY <1>5, <2>1, <2>2, <2>3 DEF ComposeCommandKey
<1> QED BY <1>3, <1>4, <1>5

----------------------------------------
(* The invariant holds.                                                    *)

ShellInv == ScreenOK /\ ModalsOK

LEMMA ShellStarts == ShellInit => ShellInv
<1> SUFFICES ASSUME ShellInit PROVE ShellInv
  OBVIOUS
<1>1. SelectionOK(sel, data)
  <2> DEFINE s == [l \in Lists |-> [index |-> 0, key |-> ""]]
  <2>1. sel = [l \in Lists |-> Reconciled(data[l], s[l])]
    BY DEF ShellInit
  <2> HIDE DEF s
  <2> QED BY <2>1, ReconciledAll DEF ShellInit
<1>2. section \in Sections /\ tab \in DOMAIN Tabs
  <2>1. 1 \in DOMAIN Tabs /\ 1 \in DOMAIN Ordered
    BY ShellAssumption, EmptySeq
  <2> QED BY <2>1, ShellAssumption DEF ShellInit, Sections, ToSet
<1> QED BY <1>1, <1>2, FreeOK DEF ShellInit, ShellInv, ScreenOK, Free

LEMMA ShellSteps == ShellInv /\ [ShellNext]_shellVars => ShellInv'
<1> SUFFICES ASSUME ScreenOK, ModalsOK, [ShellNext]_shellVars
             PROVE  ScreenOK' /\ ModalsOK'
  BY DEF ShellInv
<1>1. CASE UNCHANGED shellVars
  BY <1>1, StayOK, KeptOK DEF shellVars, Stay
<1>2. CASE Quit \/ Refresh \/ Help \/ ShowSection \/ EnterOnCampaign
  BY <1>2, PlainKeysOK
<1>3. CASE NextSection
  BY <1>3, SectionsAround
<1>4. CASE MoveKey \/ Wheel
  BY <1>4, MoveKeyOK, WheelOK
<1>5. CASE openAction
  BY <1>5, OpenActionOK
<1>6. CASE openCompose \/ openNewNote \/ openCodexPicker \/ openSearch \/ openLedgerView
  BY <1>6, OpeningOK
<1>7. CASE QuitConfirmKey \/ GlossaryKey \/ ConfirmKey \/ InputKey
  BY <1>7, QuestionKeysOK
<1>8. CASE EditorKey \/ SearchKey
  BY <1>8, EditorKeyOK, SearchKeyOK
<1>9. CASE LedgerListKey \/ LedgerDetailKey \/ LedgerCommandKey
  BY <1>9, LedgerListKeyOK, LedgerOtherKeysOK
<1>10. CASE CodexPickerKey
  BY <1>10, CodexPickerKeyOK
<1>11. CASE ComposeKey \/ ComposePickerKey \/ ComposeCommandKey
  BY <1>11, FormKeysOK
<1>12. CASE Disconnect
  BY <1>12, DisconnectedOK DEF Disconnect
<1>13. CASE LastKey
  BY <1>13, KeptOK DEF LastKey, ScreenOK
<1> QED BY <1>1, <1>2, <1>3, <1>4, <1>5, <1>6, <1>7, <1>8, <1>9, <1>10, <1>11, <1>12, <1>13
     DEF ShellNext

LEMMA ShellInvariant == ShellSpec => []ShellInv
BY ShellStarts, ShellSteps, PTL DEF ShellSpec

\* In every state the selection of a list is an item of it, at its place, and
\* the cursor of an open form is on a field or a line that there is: handlers
\* index the lists and the lines of a form without asking.
THEOREM ShellTypeCorrect == ShellSpec => []ShellTypeOK
<1>1. ShellInv => ShellTypeOK
  <2> SUFFICES ASSUME ScreenOK, ModalsOK PROVE ShellTypeOK
    BY DEF ShellInv
  <2>1. DOMAIN sel = Lists /\ DOMAIN modal = ToSet(Modals)
    BY DEF ScreenOK, SelectionOK, ModalsOK
  <2>2. \A l \in Lists :
          IF data[l] = << >> THEN sel[l] = [index |-> 0, key |-> ""]
          ELSE sel[l].index \in DOMAIN data[l] /\ data[l][sel[l].index] = sel[l].key
    BY DEF ScreenOK, SelectionOK, Selects
  <2>3. FormCursorInForm
    <3> SUFFICES ASSUME IsOpen("compose") PROVE FormCursorInForm
      BY DEF FormCursorInForm
    <3>1. FormOK(modal["compose"])
      BY ModalNames DEF ModalsOK, StateOK
    <3> QED BY <3>1, FormCursor DEF FormCursorInForm, FormOK
  <2> QED BY <2>1, <2>2, <2>3 DEF ShellTypeOK, ScreenOK
<1> QED BY <1>1, ShellInvariant, PTL

\* One thing at a time is open, and what is asked about an item is asked about
\* the item the list shows as selected, whatever the wheel, an answer or
\* another client did since it was asked.
THEOREM ModalOfSelectedItem == ShellSpec => []ModalIsOfSelectedItem
<1>1. ShellInv => ModalIsOfSelectedItem
  <2> SUFFICES ASSUME ScreenOK, ModalsOK, NEW m \in ToSet(Modals), IsOpen(m)
               PROVE  /\ modal = [AllClosed EXCEPT ![m] = modal[m]]
                      /\ m \in {"confirm", "input", "compose"} =>
                           \/ modal[m].item = ""
                           \/ listSection \in Lists /\ modal[m].item = sel[listSection].key
    BY DEF ShellInv, ModalIsOfSelectedItem
  <2>1. modal = [AllClosed EXCEPT ![m] = modal[m]]
    BY OneOpen
  <2>2. ItemShown(m, modal[m])
    BY DEF ModalsOK
  <2> QED BY <2>1, <2>2 DEF ItemShown
<1> QED BY <1>1, ShellInvariant, PTL

\* The key that was selected is selected where it is listed.
LEMMA ReconciledKeeps ==
    ASSUME NEW S, NEW items \in Seq(S), NEW s, s.key \in ToSet(items)
    PROVE  Reconciled(items, s).key = s.key
<1>1. PICK i \in DOMAIN items : items[i] = s.key
  BY DEF ToSet
<1>2. items # << >>
  BY <1>1
<1> QED BY <1>1, <1>2 DEF Reconciled

LEMMA LoadedFollows ==
    ASSUME ScreenOK, NEW to, NEW key, Loaded(to, key),
           NEW l \in Lists, l # section' \/ key = "", sel[l].key \in ToSet(data'[l])
    PROVE  sel'[l].key = sel[l].key
<1>1. PICK d \in Snapshots :
        /\ data' = d /\ section' = to
        /\ sel' = Navigated([k \in Lists |-> Reconciled(d[k], sel[k])], d, to, key)
  BY DEF Loaded
<1> DEFINE q == [k \in Lists |-> Reconciled(d[k], sel[k])]
<1>2. q[l] = Reconciled(d[l], sel[l])
  OBVIOUS
<1>3. d[l] \in Seq(Items[l])
  BY SnapshotLists
<1>4. q[l].key = sel[l].key
  BY <1>1, <1>2, <1>3, ReconciledKeeps
<1> HIDE DEF q
<1>5. sel' = Navigated(q, d, to, key)
  BY <1>1 DEF q
<1>6. CASE l # to \/ to \notin Lists
  BY <1>1, <1>4, <1>5, <1>6 DEF Navigated, q
<1>7. CASE l = to /\ key = ""
  <2> DEFINE s == [index |-> q[l].index, key |-> q[l].key]
  <2>1. s.key \in ToSet(d[l])
    BY <1>1, <1>4
  <2>2. Reconciled(d[l], s).key = s.key
    BY <1>3, <2>1, ReconciledKeeps
  <2> HIDE DEF s
  <2>3. sel' = [q EXCEPT ![l] = Reconciled(d[l], s)]
    BY <1>5, <1>7 DEF Navigated, s
  <2>4. sel'[l] = Reconciled(d[l], s)
    BY <2>3 DEF q
  <2> QED BY <1>4, <2>2, <2>4 DEF s
<1> QED BY <1>1, <1>6, <1>7

\* Only an answer, a reload and a save of a note change the lists.
LEMMA OnlyLoadsChange ==
    ASSUME ShellNext, data' # data
    PROVE  \E to, key : Loaded(to, key)
<1> DEFINE L == \E to, key : Loaded(to, key)
<1> SUFFICES L
  OBVIOUS
<1>1. ASSUME NEW to, NEW key, Reload(to, key) \/ Loaded(to, key) PROVE L
  BY <1>1 DEF Reload
<1>2. ASSUME NEW after, Answer(after) PROVE L
  BY <1>1, <1>2 DEF Answer, Show, Stay, SetDisconnected
<1>3. ASSUME Redraw PROVE L
  BY <1>1, <1>3 DEF Redraw, SetDisconnected
<1>4. ASSUME NEW after, Show(after) PROVE FALSE
  BY <1>4 DEF Show, Stay
<1>5. ASSUME NEW delta, moveSelection(delta) PROVE FALSE
  BY <1>5 DEF moveSelection
<1> HIDE DEF L
<1>6. CASE \/ Quit \/ Refresh \/ Help \/ NextSection \/ ShowSection \/ MoveKey \/ Wheel
           \/ EnterOnCampaign
  <2>1. CASE Quit
    BY <1>4, <2>1 DEF Quit
  <2>2. CASE Refresh
    BY <1>3, <2>2 DEF Refresh
  <2>3. CASE Help
    BY <1>4, <2>3 DEF Help
  <2>4. CASE NextSection
    BY <2>4 DEF NextSection
  <2>5. CASE ShowSection
    BY <2>5 DEF ShowSection
  <2>6. CASE MoveKey
    BY <1>5, <2>6 DEF MoveKey
  <2>7. CASE Wheel
    BY <1>5, <2>7 DEF Wheel
  <2>8. CASE EnterOnCampaign
    BY <1>2, <2>8 DEF EnterOnCampaign
  <2> QED BY <1>6, <2>1, <2>2, <2>3, <2>4, <2>5, <2>6, <2>7, <2>8
<1>7. CASE \/ openCompose \/ openNewNote \/ openCodexPicker \/ openAction \/ openSearch
           \/ openLedgerView
  <2>1. ~openAction
    <3> SUFFICES ASSUME openAction PROVE FALSE
      OBVIOUS
    <3>1. PICK mode \in Offers[listSection] :
            CASE mode \in {"confirm", "input"} ->
                   Show(Open(mode, [item |-> sel[listSection].key]))
              [] mode = "notes" -> Show(Open("editor", [item |-> sel[listSection].key]))
              [] OTHER -> \E f \in ItemForms(mode, sel[listSection].key) : Show(Open("compose", f))
      BY DEF openAction
    <3>2. CASE mode \in {"confirm", "input"}
      BY <1>4, <3>1, <3>2
    <3>3. CASE mode = "notes"
      BY <1>4, <3>1, <3>3
    <3>4. CASE mode \notin {"confirm", "input", "notes"}
      BY <1>4, <3>1, <3>4
    <3> QED BY <3>2, <3>3, <3>4
  <2> QED BY <1>4, <1>7, <2>1
        DEF openCompose, openNewNote, openCodexPicker, openSearch, openLedgerView
<1>8. CASE QuitConfirmKey \/ GlossaryKey \/ ConfirmKey \/ InputKey \/ EditorKey \/ SearchKey
  <2>1. CASE QuitConfirmKey
    BY <1>4, <2>1 DEF QuitConfirmKey
  <2>2. CASE GlossaryKey
    BY <1>3, <1>4, <2>2 DEF GlossaryKey
  <2>3. CASE ConfirmKey
    BY <1>2, <1>3, <1>4, <2>3 DEF ConfirmKey
  <2>4. CASE InputKey
    BY <1>2, <1>3, <1>4, <2>4 DEF InputKey
  <2>5. CASE EditorKey
    BY <1>1, <1>2, <1>4, <2>5 DEF EditorKey
  <2>6. CASE SearchKey
    BY <1>3, <1>4, <2>6 DEF SearchKey
  <2> QED BY <1>8, <2>1, <2>2, <2>3, <2>4, <2>5, <2>6
<1>9. CASE LedgerListKey \/ LedgerDetailKey \/ LedgerCommandKey \/ CodexPickerKey
  <2>1. CASE LedgerListKey
    BY <1>4, <2>1 DEF LedgerListKey
  <2>2. CASE LedgerDetailKey
    BY <1>4, <2>2 DEF LedgerDetailKey
  <2>3. CASE LedgerCommandKey
    BY <1>2, <1>3, <2>3 DEF LedgerCommandKey
  <2>4. CASE CodexPickerKey
    BY <1>3, <1>4, <2>4 DEF CodexPickerKey
  <2> QED BY <1>9, <2>1, <2>2, <2>3, <2>4
<1>10. CASE ComposeKey \/ ComposePickerKey \/ ComposeCommandKey
  <2>1. CASE ComposeKey
    BY <1>4, <2>1 DEF ComposeKey
  <2>2. CASE ComposePickerKey
    BY <1>4, <2>2 DEF ComposePickerKey
  <2>3. CASE ComposeCommandKey
    BY <1>2, <1>3, <1>4, <2>3 DEF ComposeCommandKey
  <2> QED BY <1>10, <2>1, <2>2, <2>3
<1>11. CASE Disconnect \/ LastKey
  BY <1>11 DEF Disconnect, LastKey, SetDisconnected
<1> QED BY <1>6, <1>7, <1>8, <1>9, <1>10, <1>11 DEF ShellNext

\* No new snapshot moves a selection off an item that is still listed, unless the
\* answer itself names an item of the list it goes to: another client's insertions
\* and deletions never make a command be of the neighbour.
THEOREM SelectionsFollow == ShellSpec => SelectionFollows
<1> DEFINE Follows ==
      \A l \in Lists :
        /\ data' # data /\ sel[l].key \in ToSet(data'[l])
        /\ l # section' \/ Loaded(section, "")
        => sel'[l].key = sel[l].key
<1>1. ShellInv /\ [ShellNext]_shellVars => [Follows]_shellVars
  <2> SUFFICES ASSUME ScreenOK, ShellNext, NEW l \in Lists, data' # data,
                      sel[l].key \in ToSet(data'[l]), l # section' \/ Loaded(section, "")
               PROVE  sel'[l].key = sel[l].key
    BY DEF ShellInv
  <2> QED BY OnlyLoadsChange, LoadedFollows
<1> QED BY <1>1, ShellInvariant, PTL DEF ShellSpec, SelectionFollows

===============================================================================
