-------------------------------- MODULE Server --------------------------------
(***************************************************************************)
(* The server's accept loop, one goroutine and one reader goroutine per    *)
(* connection, shutdown, and the clients at the other end.                 *)
(*                                                                         *)
(* A connection carries frames in order until it breaks; frames that had   *)
(* not arrived by then are lost.  A client has one call outstanding: its   *)
(* commands and its pings take turns.  Successive requests of a connection *)
(* bear the tags 0 and 1 in turn, which no frame really has: they are here *)
(* to tell a reply to one request from a reply to the one before.          *)
(***************************************************************************)
EXTENDS Naturals, Sequences, SequencesExt

CONSTANT Connections  \* the most connections there can be

VARIABLES
    main,       \* where ListenAndServe is
    cancelled,  \* ctx.Done is closed
    listening,  \* the listener is open
    phase,      \* where handleConnection is, for each connection
    reader,     \* where the connection's reader goroutine is
    held,       \* what the reader goroutine wants to send, while it does
    reads,      \* the channel from the reader to handleConnection
    current,    \* the request handleConnection works on, while it does
    executed,   \* whether the request the client waits for has taken effect
    up,         \* whether the connection is open at both ends
    inbox,      \* frames on the way to the server
    outbox,     \* frames on the way to the client
    client,     \* where the client is
    request,    \* the client's last request
    pinging     \* whether the client's ping goroutine goes on

server == <<main, cancelled, listening, phase, reader, held, reads, current>>
network == <<up, inbox, outbox>>
vars == <<server, network, executed, client, request, pinging>>

Msg(type, tag) == [type |-> type, tag |-> tag]

Requests == [type : {"command", "ping"}, tag : {0, 1}]
Frames == Requests \cup [type : {"auth", "other"}, tag : {0}]
Eof == Msg("eof", 0)
Answers == [type : {"reply"}, tag : {0, 1}] \cup [type : {"welcome", "refused", "bye"}, tag : {0}]

-------------------------------------------------------------------------------
(* The network.                                                            *)

\* What is written to a broken connection is lost; a later read tells.
Delivered(k, frames, new) == IF up[k] THEN frames[k] \o new ELSE frames[k]

Write(k, frame) == inbox' = [inbox EXCEPT ![k] = Delivered(k, inbox, <<frame>>)]
Send(k, answer) == outbox' = [outbox EXCEPT ![k] = Delivered(k, outbox, <<answer>>)]

\* handleConnection returns and closes the connection, perhaps after a last
\* answer.  Closed with frames unread, a connection is reset, and answers that
\* have not been read may be lost.
CloseAfter(k, answers) ==
    /\ phase' = [phase EXCEPT ![k] = "closed"]
    /\ up' = [up EXCEPT ![k] = FALSE]
    /\ LET sent == Delivered(k, outbox, answers)
       IN  \E left \in IF inbox[k] = <<>> THEN {sent} ELSE Prefixes(sent) :
              outbox' = [outbox EXCEPT ![k] = left]
    /\ inbox' = [inbox EXCEPT ![k] = <<>>]

\* The connection breaks, or the client goes away for good.
Break(k) ==
    /\ up[k]
    /\ up' = [up EXCEPT ![k] = FALSE]
    /\ \E left \in Prefixes(inbox[k]) : inbox' = [inbox EXCEPT ![k] = left]
    /\ \E left \in Prefixes(outbox[k]) : outbox' = [outbox EXCEPT ![k] = left]
    /\ client' \in {client, [client EXCEPT ![k] = "gone"]}
    /\ UNCHANGED <<server, executed, request, pinging>>

-------------------------------------------------------------------------------
(* ListenAndServe.                                                         *)

\* An interrupt; a goroutine closes the listener when it sees it, and the kernel
\* drops the connections nobody has accepted.
Cancel ==
    /\ main # "stopped" /\ ~cancelled
    /\ cancelled' = TRUE
    /\ UNCHANGED <<main, listening, phase, reader, held, reads, current, network, executed, client, request, pinging>>

Drop(ks) ==
    /\ phase' = [k \in Connections |-> IF k \in ks THEN "closed" ELSE phase[k]]
    /\ up' = [k \in Connections |-> up[k] /\ k \notin ks]
    /\ inbox' = [k \in Connections |-> IF k \in ks THEN <<>> ELSE inbox[k]]

Backlog == {k \in Connections : phase[k] = "backlog"}

CloseListener ==
    /\ cancelled /\ listening
    /\ listening' = FALSE
    /\ Drop(Backlog)
    /\ UNCHANGED <<main, cancelled, reader, held, reads, current, outbox, executed, client, request, pinging>>

Accept(k) ==
    /\ main = "accepting" /\ listening
    /\ phase[k] = "backlog"
    /\ phase' = [phase EXCEPT ![k] = "first"]
    /\ UNCHANGED <<main, cancelled, listening, reader, held, reads, current, network, executed, client, request, pinging>>

\* Accept returns an error: the listener was closed, or the system ran out of
\* something.  In the second case the listener stays open and nobody accepts.
StopAccepting ==
    /\ main = "accepting"
    /\ main' = "draining"
    /\ UNCHANGED <<cancelled, listening, phase, reader, held, reads, current, network, executed, client, request, pinging>>

\* The handlers that wg.Wait waits for.
Active == {k \in Connections : phase[k] \in {"first", "serving", "handling", "replying"}}

\* All handlers have returned: so does ListenAndServe, and the program ends.
Stop ==
    /\ main = "draining"
    /\ Active = {}
    /\ main' = "stopped"
    /\ listening' = FALSE
    /\ Drop(Backlog)
    /\ UNCHANGED <<cancelled, reader, held, reads, current, outbox, executed, client, request, pinging>>

-------------------------------------------------------------------------------
(* handleConnection.                                                       *)

\* Variants, each named for a bug, stand before the definitions they vary and are
\* used nowhere: they are the mistakes that the properties must notice.

\* A read that fails is tried again.
ReadFirstAgain(k) ==
    /\ phase[k] = "first"
    /\ inbox[k] # <<>> /\ Head(inbox[k]).type = "auth"
    /\ inbox' = [inbox EXCEPT ![k] = Tail(@)]
    /\ Send(k, Msg("welcome", 0))
    /\ phase' = [phase EXCEPT ![k] = "serving"]
    /\ reader' = [reader EXCEPT ![k] = "reading"]
    /\ UNCHANGED <<main, cancelled, listening, held, reads, current, up, executed, client, request, pinging>>

\* The first message is awaited without a deadline.
ReadFirst(k) ==
    /\ phase[k] = "first"
    /\ \/ /\ inbox[k] # <<>> /\ Head(inbox[k]).type = "auth"
          /\ inbox' = [inbox EXCEPT ![k] = Tail(@)]
          /\ Send(k, Msg("welcome", 0))
          /\ phase' = [phase EXCEPT ![k] = "serving"]
          /\ reader' = [reader EXCEPT ![k] = "reading"]
          /\ UNCHANGED up
       \/ /\ inbox[k] # <<>> /\ Head(inbox[k]).type # "auth"
          /\ CloseAfter(k, <<Msg("refused", 0)>>)
          /\ UNCHANGED reader
       \/ /\ inbox[k] = <<>> /\ ~up[k]
          /\ CloseAfter(k, <<>>)
          /\ UNCHANGED reader
    /\ UNCHANGED <<main, cancelled, listening, held, reads, current, executed, client, request, pinging>>

\* The reader goroutine.  It outlives handleConnection, and its read fails when
\* the connection is closed at either end.
ReadFrame(k) ==
    /\ reader[k] = "reading"
    /\ \/ /\ inbox[k] # <<>>
          /\ held' = [held EXCEPT ![k] = Head(inbox[k])]
          /\ inbox' = [inbox EXCEPT ![k] = Tail(@)]
       \/ /\ inbox[k] = <<>> /\ ~up[k]
          /\ held' = [held EXCEPT ![k] = Eof]
          /\ UNCHANGED inbox
    /\ reader' = [reader EXCEPT ![k] = "sending"]
    /\ UNCHANGED <<main, cancelled, listening, phase, reads, current, up, outbox, executed, client, request, pinging>>

\* The channel holds one result.
SendRead(k) ==
    /\ reader[k] = "sending"
    /\ reads[k] = <<>>
    /\ reads' = [reads EXCEPT ![k] = <<held[k]>>]
    /\ held' = [held EXCEPT ![k] = Eof]
    /\ reader' = [reader EXCEPT ![k] = IF held[k] = Eof THEN "ended" ELSE "reading"]
    /\ UNCHANGED <<main, cancelled, listening, phase, current, network, executed, client, request, pinging>>

\* The select: shutdown and a request may both be there, and either may win.
SelectDone(k) ==
    /\ phase[k] = "serving" /\ cancelled
    /\ CloseAfter(k, <<Msg("bye", 0)>>)
    /\ UNCHANGED <<main, cancelled, listening, reader, held, reads, current, executed, client, request, pinging>>

SelectRead(k) ==
    /\ phase[k] = "serving" /\ reads[k] # <<>>
    /\ reads' = [reads EXCEPT ![k] = <<>>]
    /\ IF reads[k] = <<Eof>>
       THEN CloseAfter(k, <<>>) /\ UNCHANGED current
       ELSE /\ phase' = [phase EXCEPT ![k] = "handling"]
            /\ current' = [current EXCEPT ![k] = Head(reads[k])]
            /\ UNCHANGED network
    /\ UNCHANGED <<main, cancelled, listening, reader, held, executed, client, request, pinging>>

\* The handler runs: a command takes effect or fails, a ping does nothing.
Handle(k) ==
    /\ phase[k] = "handling"
    /\ phase' = [phase EXCEPT ![k] = "replying"]
    /\ \/ UNCHANGED executed
       \/ /\ current[k].type = "command"
          /\ executed' = [executed EXCEPT ![k] = client[k] = "waiting" /\ current[k] = request[k]]
    /\ UNCHANGED <<main, cancelled, listening, reader, held, reads, current, network, client, request, pinging>>

Answered(k) == Msg("reply", current[k].tag)

\* After a cancellation the handler's response is dropped.
ReplyUnlessCancelled(k) ==
    /\ phase[k] = "replying"
    /\ current' = [current EXCEPT ![k] = Eof]
    /\ IF cancelled
       THEN CloseAfter(k, <<Msg("bye", 0)>>)
       ELSE /\ Send(k, Answered(k))
            /\ phase' = [phase EXCEPT ![k] = "serving"]
            /\ UNCHANGED <<up, inbox>>
    /\ UNCHANGED <<main, cancelled, listening, reader, held, reads, executed, client, request, pinging>>

\* A response that cannot be written is logged and the loop goes on.
ReplyOrGoOn(k) ==
    /\ phase[k] = "replying"
    /\ current' = [current EXCEPT ![k] = Eof]
    /\ Send(k, Answered(k)) \/ UNCHANGED outbox
    /\ phase' = [phase EXCEPT ![k] = "serving"]
    /\ UNCHANGED <<main, cancelled, listening, reader, held, reads, up, inbox, executed, client, request, pinging>>

\* The response is written.  That fails when it is larger than a frame may be,
\* or may fail on a broken connection, and then the connection is closed.
Reply(k) ==
    /\ phase[k] = "replying"
    /\ current' = [current EXCEPT ![k] = Eof]
    /\ \/ /\ Send(k, Answered(k))
          /\ phase' = [phase EXCEPT ![k] = "serving"]
          /\ UNCHANGED <<up, inbox>>
       \/ CloseAfter(k, <<>>)
    /\ UNCHANGED <<main, cancelled, listening, reader, held, reads, executed, client, request, pinging>>

-------------------------------------------------------------------------------
(* The client.                                                             *)

\* The kernel answers for a listener whether or not anybody accepts.
Dial(k) ==
    /\ client[k] = "away" /\ listening
    /\ client' = [client EXCEPT ![k] = "dialled"]
    /\ phase' = [phase EXCEPT ![k] = "backlog"]
    /\ up' = [up EXCEPT ![k] = TRUE]
    /\ UNCHANGED <<main, cancelled, listening, reader, held, reads, current, inbox, outbox, executed, request, pinging>>

\* Another program, or a client with a wrong token or version, is refused.
SendFirst(k) ==
    /\ client[k] = "dialled"
    /\ \E type \in {"auth", "other"} : Write(k, Msg(type, 0))
    /\ client' = [client EXCEPT ![k] = "greeting"]
    /\ UNCHANGED <<server, up, outbox, executed, request, pinging>>

ReceiveGreeting(k) ==
    /\ client[k] = "greeting"
    /\ \/ /\ outbox[k] # <<>>
          /\ outbox' = [outbox EXCEPT ![k] = Tail(@)]
          /\ client' = [client EXCEPT ![k] =
                IF Head(outbox[k]).type = "welcome" THEN "ready" ELSE "gone"]
       \/ /\ outbox[k] = <<>> /\ ~up[k]
          /\ client' = [client EXCEPT ![k] = "gone"]
          /\ UNCHANGED outbox
    /\ UNCHANGED <<server, up, inbox, executed, request, pinging>>

\* Calls do not wait for each other.
CallWithoutMutex(k, type) ==
    /\ client[k] \in {"ready", "waiting"}
    /\ type = "ping" => pinging[k]
    /\ client' = [client EXCEPT ![k] = "waiting"]
    /\ request' = [request EXCEPT ![k] = Msg(type, 1 - @.tag)]
    /\ Write(k, request'[k])
    /\ UNCHANGED <<server, up, outbox, executed, pinging>>

\* Call holds a mutex from the request to its response.
Call(k, type) ==
    /\ client[k] = "ready"
    /\ type = "ping" => pinging[k]
    /\ client' = [client EXCEPT ![k] = "waiting"]
    /\ request' = [request EXCEPT ![k] = Msg(type, 1 - @.tag)]
    /\ Write(k, request'[k])
    /\ UNCHANGED <<server, up, outbox, executed, pinging>>

\* The terminal goes on.
GoOn(k) == client' = [client EXCEPT ![k] = "ready"] /\ UNCHANGED pinging

\* The terminal is told that the connection is lost.  A command's error comes to its
\* loop by itself.  The ping goroutine posts an event, which is dropped where the
\* queue is full (the ticks of the animation come while the loop waits for a
\* command), and ends: nobody posts again.
Notice(k) ==
    /\ \/ client' = [client EXCEPT ![k] = "disconnected"]
       \/ request[k].type = "ping" /\ client' = [client EXCEPT ![k] = "ready"]
    /\ pinging' = [pinging EXCEPT ![k] = @ /\ request[k].type # "ping"]

\* Only the shutdown notice is taken for a disconnection.
ReceiveTrustingNotice(k) ==
    /\ client[k] = "waiting"
    /\ \/ /\ outbox[k] # <<>>
          /\ outbox' = [outbox EXCEPT ![k] = Tail(@)]
          /\ IF Head(outbox[k]).type = "bye" THEN Notice(k) ELSE GoOn(k)
       \/ /\ outbox[k] = <<>> /\ ~up[k]
          /\ GoOn(k)
          /\ UNCHANGED outbox
    /\ executed' = [executed EXCEPT ![k] = FALSE]
    /\ UNCHANGED <<server, up, inbox, request>>

\* The shutdown notice disconnects the terminal.  So does a failed read, but only
\* that of a ping: the error of a command begins with other words, and the
\* terminal shows it and goes on.
Receive(k) ==
    /\ client[k] = "waiting"
    /\ \/ /\ outbox[k] # <<>>
          /\ outbox' = [outbox EXCEPT ![k] = Tail(@)]
          /\ IF Head(outbox[k]).type = "bye" THEN Notice(k) ELSE GoOn(k)
       \/ /\ outbox[k] = <<>> /\ ~up[k]
          /\ IF request[k].type = "ping" THEN Notice(k) ELSE GoOn(k)
          /\ UNCHANGED outbox
    /\ executed' = [executed EXCEPT ![k] = FALSE]
    /\ UNCHANGED <<server, up, inbox, request>>

-------------------------------------------------------------------------------

Init ==
    /\ main = "accepting" /\ cancelled = FALSE /\ listening = TRUE
    /\ phase = [k \in Connections |-> "none"]
    /\ reader = [k \in Connections |-> "off"]
    /\ held = [k \in Connections |-> Eof]
    /\ current = [k \in Connections |-> Eof]
    /\ reads = [k \in Connections |-> <<>>]
    /\ executed = [k \in Connections |-> FALSE]
    /\ up = [k \in Connections |-> FALSE]
    /\ inbox = [k \in Connections |-> <<>>]
    /\ outbox = [k \in Connections |-> <<>>]
    /\ client = [k \in Connections |-> "away"]
    /\ request = [k \in Connections |-> Msg("ping", 0)]
    /\ pinging = [k \in Connections |-> TRUE]

Select(k) == SelectDone(k) \/ SelectRead(k)

ConnectionStep(k) == ReadFirst(k) \/ Select(k) \/ Handle(k) \/ Reply(k)

ReaderStep(k) == ReadFrame(k) \/ SendRead(k)

ClientStep(k) ==
    \/ Dial(k) \/ SendFirst(k) \/ ReceiveGreeting(k) \/ Receive(k)
    \/ \E type \in {"command", "ping"} : Call(k, type)

\* When the program has ended its goroutines take no more steps.
Next ==
    \/ Cancel \/ CloseListener \/ StopAccepting \/ Stop
    \/ \E k \in Connections :
          \/ Accept(k) \/ Break(k) \/ ClientStep(k)
          \/ main # "stopped" /\ (ConnectionStep(k) \/ ReaderStep(k))

Running(A) == main # "stopped" /\ A

\* The Go scheduler runs every goroutine that can run, and calls that are made
\* return; a select that can go two ways goes each way some time, since it picks
\* at random.  A client's Dial sends the first message at once, its Call reads as
\* soon as it has written, and its ping goroutine pings every other second while it
\* goes on.  Nothing is assumed of the users, of Accept while the listener is open,
\* or of the network.
Fairness ==
    /\ WF_vars(CloseListener)
    /\ WF_vars(StopAccepting /\ ~listening)
    /\ WF_vars(Stop)
    /\ \A k \in Connections :
          /\ WF_vars(Running(ReadFirst(k)))
          /\ WF_vars(Running(Select(k)))
          /\ SF_vars(Running(SelectDone(k)))
          /\ WF_vars(Running(Handle(k)))
          /\ WF_vars(Running(Reply(k)))
          /\ WF_vars(Running(ReadFrame(k)))
          /\ WF_vars(Running(SendRead(k)))
          /\ WF_vars(SendFirst(k))
          /\ WF_vars(ReceiveGreeting(k))
          /\ WF_vars(Receive(k))
          /\ SF_vars(Call(k, "ping"))

Spec == Init /\ [][Next]_vars /\ Fairness

-------------------------------------------------------------------------------
(* What must hold.                                                         *)

\* The frames in flight are few: a client has one request on the way, and the
\* server at most a reply and a shutdown notice.
TypeOK ==
    /\ main \in {"accepting", "draining", "stopped"}
    /\ cancelled \in BOOLEAN /\ listening \in BOOLEAN
    /\ phase \in [Connections -> {"none", "backlog", "first", "serving", "handling", "replying", "closed"}]
    /\ reader \in [Connections -> {"off", "reading", "sending", "ended"}]
    /\ held \in [Connections -> Requests \cup {Eof}]
    /\ current \in [Connections -> Requests \cup {Eof}]
    /\ reads \in [Connections -> BoundedSeq(Requests \cup {Eof}, 1)]
    /\ inbox \in [Connections -> BoundedSeq(Frames, 1)]
    /\ outbox \in [Connections -> BoundedSeq(Answers, 2)]
    /\ executed \in [Connections -> BOOLEAN]
    /\ up \in [Connections -> BOOLEAN]
    /\ client \in [Connections ->
          {"away", "dialled", "greeting", "ready", "waiting", "disconnected", "gone"}]
    /\ request \in [Connections -> Requests]
    /\ pinging \in [Connections -> BOOLEAN]

\* What a client reads while it waits is the answer to the request it waits for;
\* and a client that is told of a shutdown instead knows that its request did
\* not take effect, so sending it again elsewhere is safe: the select takes a
\* request and runs it to its reply, or refuses it.
AnswersFit ==
    \A k \in Connections : client[k] = "waiting" /\ outbox[k] # <<>> =>
        /\ Head(outbox[k]).type \in {"reply", "bye"}
        /\ Head(outbox[k]).type = "reply" => Head(outbox[k]).tag = request[k].tag
        /\ Head(outbox[k]).type = "bye" => ~executed[k]

\* After an interrupt the server stops.  Handlers end because clients send their
\* first message or go away: the code waits for that without a deadline.
ShutdownCompletes == cancelled ~> main = "stopped"

\* A call returns, with its reply, a shutdown notice or an error, whatever the
\* server, other connections and the network do, if a broken connection is
\* noticed: Call has no deadline of its own.
CallsReturn == \A k \in Connections : client[k] = "waiting" ~> client[k] # "waiting"

\* When the server is gone, a ping of every terminal that was connected finds out,
\* also where a command has failed on the broken connection before.  The terminal
\* shows it, unless the ping's one event was dropped.
PingFindsDisconnection ==
    \A k \in Connections :
        main = "stopped" /\ client[k] \in {"ready", "waiting"}
            ~> client[k] \in {"disconnected", "gone"} \/ ~pinging[k]

===============================================================================
