----------------------------- MODULE ElectrumServer -----------------------------
(* The Electrum RPC server (electrum/server.rs) and the main loop that feeds *)
(* and stops it: the acceptor's channel, the rpc thread that spawns one peer *)
(* thread per client, the reader thread of each peer, the bounded channel    *)
(* between them, the notification thread and the shutdown.                   *)
(*                                                                           *)
(* Abstractions.  What a client can subscribe to is a set of topics, the     *)
(* best header and some script hashes; the value of a topic (a header, a     *)
(* status hash) is a version number.  A request is what it does to the       *)
(* connection: requests that only read (balance, history, merkle) are one    *)
(* "read", and a batch is one request.  A status is computed from the        *)
(* confirmed history and then the mempool's, read under two locks: if the    *)
(* script changed in between it is the old one, the new one, or neither.     *)
(* The socket of a client that stopped reading takes nothing more; one that  *)
(* reads takes everything.  Requests to the daemon return (module            *)
(* DaemonRpc).  The threads of ended peers that the rpc thread joins when it *)
(* accepts the next one have no further effect.                              *)
EXTENDS Naturals, Sequences, FiniteSets

CONSTANTS Clients, Header, Scripts, None,
          Torn,         \* a status that the script has at no version
          ChannelSize,  \* 10 in the code
          MaxVersion,   \* bound: changes of one topic
          MaxRequests,  \* bound: lines that all clients together send
          MaxPeriodic   \* bound: notifications waiting for the notifier

ASSUME TopicsAssumption == Header \notin Scripts
ASSUME NoneAssumption ==
    /\ None \notin Clients /\ None \notin Nat
    /\ None \notin [topic : Scripts, version : Nat]
ASSUME TornAssumption == Torn \notin Nat /\ Torn # None
ASSUME SizesAssumption ==
    /\ ChannelSize \in Nat \ {0} /\ MaxVersion \in Nat
    /\ MaxRequests \in Nat /\ MaxPeriodic \in Nat \ {0}

Topics == {Header} \cup Scripts

VARIABLES
    now,       \* the version of each topic in the index and the mempool view
    main,      \* the main thread: update, mempool, notify, joining, stopped
    periodic,  \* Periodic notifications that are queued
    exit,      \* Exit is queued behind them
    accepted,  \* connections the rpc thread has not received, or None
    rpc,       \* the rpc thread: accept, closing, join, ended
    toClose,   \* senders the rpc thread has not sent Done to
    senders,   \* the senders the notifier knows
    client,    \* a client: away, reading, stalled, gone
    lines,     \* lines that all clients have sent
    chan,      \* the channel between the reader and the peer thread
    reader,    \* the reader thread: none, read, send, done, ended
    line,      \* the request the reader is about to send
    peer,      \* the peer thread
    todo,      \* scripts whose status the update has not compared
    half,      \* the script whose confirmed history the peer thread has read,
               \* with its version then, or None
    told,      \* last_header_entry and status_hashes, None: not subscribed
    batch,     \* values that the peer thread has not written
    seen       \* the last version of each topic that was written

mainVars == <<now, main, periodic>>
acceptVars == <<accepted, rpc, toClose, senders>>
clientVars == <<client, lines>>
readerVars == <<reader, line>>
peerVars == <<peer, told, todo, half, batch, seen>>
vars == <<mainVars, exit, acceptVars, clientVars, chan, readerVars, peerVars>>

ServingStates == {"recv", "status", "broadcast", "update", "write"}

Versions == 0..MaxVersion
Statuses == Versions \cup {Torn}
Request == [kind : {"subscribe"}, topic : Topics]
             \cup [kind : {"unsubscribe"}, topic : Scripts]
             \cup [kind : {"broadcast", "read", "tooLarge"}]
Periodic == [kind |-> "periodic"]
Done == [kind |-> "done"]
Message == Request \cup {Periodic, Done}
Value == [topic : Topics, version : Statuses]
Reply == [kind |-> "reply"]

TypeOK ==
    /\ now \in [Topics -> Versions]
    /\ main \in {"update", "mempool", "notify", "joining", "stopped"}
    /\ periodic \in 0..MaxPeriodic
    /\ exit \in BOOLEAN
    /\ accepted \in Seq(Clients \cup {None})
    /\ rpc \in {"accept", "closing", "join", "ended"}
    /\ toClose \subseteq Clients
    /\ senders \subseteq Clients
    /\ client \in [Clients -> {"away", "reading", "stalled", "gone"}]
    /\ lines \in 0..MaxRequests
    /\ chan \in [Clients -> Seq(Message)]
    /\ reader \in [Clients -> {"none", "read", "send", "done", "ended"}]
    /\ line \in [Clients -> Request \cup {None}]
    /\ peer \in [Clients -> {"none", "ended"} \cup ServingStates \cup {"closing", "join"}]
    /\ todo \in [Clients -> SUBSET Scripts]
    /\ half \in [Clients -> [topic : Scripts, version : Versions] \cup {None}]
    /\ told \in [Clients -> [Topics -> Statuses \cup {None}]]
    /\ batch \in [Clients -> Seq(Value \cup {Reply})]
    /\ seen \in [Clients -> [Topics -> Statuses \cup {None}]]

Init ==
    /\ now = [t \in Topics |-> 0]
    /\ main = "update" /\ periodic = 0 /\ exit = FALSE
    /\ accepted = <<>> /\ rpc = "accept" /\ toClose = {} /\ senders = {}
    /\ client = [c \in Clients |-> "away"] /\ lines = 0
    /\ chan = [c \in Clients |-> <<>>]
    /\ reader = [c \in Clients |-> "none"]
    /\ line = [c \in Clients |-> None]
    /\ peer = [c \in Clients |-> "none"]
    /\ todo = [c \in Clients |-> {}]
    /\ half = [c \in Clients |-> None]
    /\ told = [c \in Clients |-> [t \in Topics |-> None]]
    /\ batch = [c \in Clients |-> <<>>]
    /\ seen = [c \in Clients |-> [t \in Topics |-> None]]

Running == main # "stopped"

(* handle_replies owns the receiver: when it returns the channel is closed.  *)
Serving(c) == peer[c] \in ServingStates
Room(c) == Len(chan[c]) < ChannelSize
Push(c, message) == chan' = [chan EXCEPT ![c] = Append(@, message)]
TrySend(cs, message) ==
    chan' = [c \in Clients |-> IF c \in cs /\ Serving(c) /\ Room(c)
                               THEN Append(chan[c], message) ELSE chan[c]]

-----------------------------------------------------------------------------
(* The main loop.                                                            *)

Moves(topics) ==
    \E changed \in SUBSET topics :
       /\ \A t \in changed : now[t] < MaxVersion
       /\ now' = [t \in Topics |-> now[t] + (IF t \in changed THEN 1 ELSE 0)]

(* The index, and then the mempool view: what a block confirms is in both    *)
(* until the second step, so a script it touches changes twice.              *)
Update ==
    /\ \/ main = "update" /\ main' = "mempool" /\ Moves(Topics)
       \/ main = "mempool" /\ main' = "notify" /\ Moves(Scripts)
    /\ UNCHANGED <<periodic, exit, acceptVars, clientVars, chan, readerVars, peerVars>>

Notify ==
    /\ main = "notify" /\ periodic < MaxPeriodic
    /\ periodic' = periodic + 1
    /\ main' = "update"
    /\ UNCHANGED <<now, exit, acceptVars, clientVars, chan, readerVars, peerVars>>

(* A signal, or an error of the update: RPC::drop sends Exit and joins.      *)
Drop ==
    /\ main \in {"update", "mempool"}
    /\ exit' = TRUE
    /\ main' = "joining"
    /\ UNCHANGED <<now, periodic, acceptVars, clientVars, chan, readerVars, peerVars>>

Joined ==
    /\ main = "joining" /\ rpc = "ended"
    /\ main' = "stopped"
    /\ UNCHANGED <<now, periodic, exit, acceptVars, clientVars, chan, readerVars, peerVars>>

-----------------------------------------------------------------------------
(* The notification thread.  The rpc thread holds the senders' lock while it *)
(* closes the connections.                                                   *)

\* Mutant: any error of try_send drops the client.
RetainSent == {c \in senders : Serving(c) /\ Room(c)}

Retain == {c \in senders : Serving(c)}

NotifyClients ==
    /\ Running /\ periodic > 0 /\ rpc # "closing"
    /\ periodic' = periodic - 1
    /\ TrySend(senders, Periodic)
    /\ senders' = Retain
    /\ UNCHANGED <<now, main, exit, accepted, rpc, toClose, clientVars, readerVars, peerVars>>

NotifyExit ==
    /\ Running /\ periodic = 0 /\ exit /\ rpc # "closing"
    /\ exit' = FALSE
    /\ accepted' = Append(accepted, None)
    /\ UNCHANGED <<mainVars, rpc, toClose, senders, clientVars, chan, readerVars, peerVars>>

-----------------------------------------------------------------------------
(* The acceptor and the rpc thread.                                          *)

Accept(c) ==
    /\ Running /\ client[c] = "away" /\ rpc # "ended"
    /\ client' = [client EXCEPT ![c] = "reading"]
    /\ accepted' = Append(accepted, c)
    /\ UNCHANGED <<mainVars, exit, rpc, toClose, senders, lines, chan, readerVars, peerVars>>

(* The channel, the connection with no subscription, the peer thread and its *)
(* reader thread are created.                                                *)
Spawn ==
    /\ Running /\ rpc = "accept" /\ accepted # <<>> /\ Head(accepted) # None
    /\ LET c == Head(accepted) IN
          /\ senders' = senders \cup {c}
          /\ chan' = [chan EXCEPT ![c] = <<>>]
          /\ peer' = [peer EXCEPT ![c] = "recv"]
          /\ reader' = [reader EXCEPT ![c] = "read"]
          /\ told' = [told EXCEPT ![c] = [t \in Topics |-> None]]
          /\ half' = [half EXCEPT ![c] = None]
          /\ batch' = [batch EXCEPT ![c] = <<>>]
    /\ accepted' = Tail(accepted)
    /\ UNCHANGED <<mainVars, exit, rpc, toClose, clientVars, line, todo, seen>>

StopAccepting ==
    /\ Running /\ rpc = "accept" /\ accepted # <<>> /\ Head(accepted) = None
    /\ accepted' = Tail(accepted)
    /\ rpc' = "closing"
    /\ toClose' = senders
    /\ UNCHANGED <<mainVars, exit, senders, clientVars, chan, readerVars, peerVars>>

\* Mutant: Done is given up when the channel is full.
SendDoneTry(c) ==
    /\ Running /\ rpc = "closing" /\ c \in toClose
    /\ TrySend({c}, Done)
    /\ toClose' = toClose \ {c}
    /\ UNCHANGED <<mainVars, exit, accepted, rpc, senders, clientVars, readerVars, peerVars>>

(* A blocking send, with the senders' lock held.                             *)
SendDone(c) ==
    /\ Running /\ rpc = "closing" /\ c \in toClose
    /\ \/ Serving(c) /\ Room(c) /\ Push(c, Done)
       \/ ~Serving(c) /\ UNCHANGED chan
    /\ toClose' = toClose \ {c}
    /\ UNCHANGED <<mainVars, exit, accepted, rpc, senders, clientVars, readerVars, peerVars>>

Closed ==
    /\ Running /\ rpc = "closing" /\ toClose = {}
    /\ rpc' = "join"
    /\ UNCHANGED <<mainVars, exit, accepted, toClose, senders, clientVars, chan,
                   readerVars, peerVars>>

\* Mutant: the rpc thread ends without waiting for the peer threads.
JoinNothing ==
    /\ Running /\ rpc = "join"
    /\ rpc' = "ended"
    /\ UNCHANGED <<mainVars, exit, accepted, toClose, senders, clientVars, chan,
                   readerVars, peerVars>>

JoinPeers ==
    /\ Running /\ rpc = "join"
    /\ \A c \in Clients : peer[c] \in {"none", "ended"}
    /\ rpc' = "ended"
    /\ UNCHANGED <<mainVars, exit, accepted, toClose, senders, clientVars, chan,
                   readerVars, peerVars>>

-----------------------------------------------------------------------------
(* A reader thread.                                                          *)

(* A line: a request, or one that ends the thread (not UTF-8, perhaps TLS).  *)
ReadLine(c) ==
    /\ Running /\ reader[c] = "read" /\ client[c] \in {"reading", "stalled"}
    /\ peer[c] \notin {"join", "ended"} /\ lines < MaxRequests
    /\ lines' = lines + 1
    /\ \/ /\ reader' = [reader EXCEPT ![c] = "done"]
          /\ UNCHANGED line
       \/ /\ \E r \in Request : line' = [line EXCEPT ![c] = r]
          /\ reader' = [reader EXCEPT ![c] = "send"]
    /\ UNCHANGED <<mainVars, exit, acceptVars, client, chan, peerVars>>

(* The end of the stream: the client left, or the peer thread shut it down.  *)
ReadEnd(c) ==
    /\ Running /\ reader[c] = "read"
    /\ client[c] = "gone" \/ peer[c] = "join"
    /\ reader' = [reader EXCEPT ![c] = "done"]
    /\ UNCHANGED <<mainVars, exit, acceptVars, clientVars, chan, line, peerVars>>

(* A blocking send, which fails once the receiver is dropped.                *)
ReaderSend(c) ==
    /\ Running /\ reader[c] = "send"
    /\ \/ /\ Serving(c) /\ Room(c)
          /\ Push(c, line[c])
          /\ reader' = [reader EXCEPT ![c] = "read"]
       \/ /\ ~Serving(c)
          /\ reader' = [reader EXCEPT ![c] = "done"]
          /\ UNCHANGED chan
    /\ line' = [line EXCEPT ![c] = None]
    /\ UNCHANGED <<mainVars, exit, acceptVars, clientVars, peerVars>>

\* Mutant: the last thing sent is what the line buffer holds.
ReaderDoneSendsLine(c) ==
    /\ Running /\ reader[c] = "done"
    /\ \/ Serving(c) /\ Room(c) /\ Push(c, line[c])
       \/ ~Serving(c) /\ UNCHANGED chan
    /\ reader' = [reader EXCEPT ![c] = "ended"]
    /\ UNCHANGED <<mainVars, exit, acceptVars, clientVars, line, peerVars>>

ReaderDone(c) ==
    /\ Running /\ reader[c] = "done"
    /\ \/ Serving(c) /\ Room(c) /\ Push(c, Done)
       \/ ~Serving(c) /\ UNCHANGED chan
    /\ reader' = [reader EXCEPT ![c] = "ended"]
    /\ UNCHANGED <<mainVars, exit, acceptVars, clientVars, line, peerVars>>

-----------------------------------------------------------------------------
(* A peer thread.                                                            *)

Receives(c, kind) ==
    /\ Running /\ peer[c] = "recv" /\ chan[c] # <<>>
    /\ Head(chan[c]).kind = kind
Received(c) == chan' = [chan EXCEPT ![c] = Tail(@)]
Go(c, state) == peer' = [peer EXCEPT ![c] = state]
Write(c, values) == batch' = [batch EXCEPT ![c] = values] /\ Go(c, "write")
Changed(c, t, version) == told' = [told EXCEPT ![c][t] = version]
Replied(c) == Write(c, <<Reply>>)

(* The reply to a subscription is the value of its topic.                    *)
Subscribe(c) ==
    /\ Receives(c, "subscribe") /\ Head(chan[c]).topic = Header
    /\ Received(c)
    /\ Changed(c, Header, now[Header])
    /\ Write(c, <<[topic |-> Header, version |-> now[Header]]>>)
    /\ UNCHANGED <<mainVars, exit, acceptVars, clientVars, readerVars, todo, half, seen>>

\* The confirmed history is read.
ReadChain(c, s) == half' = [half EXCEPT ![c] = [topic |-> s, version |-> now[s]]]

\* Then the mempool's.
Status(c) ==
    LET version == half[c].version
        latest == now[half[c].topic]
    IN  IF latest = version THEN {version} ELSE {version, latest, Torn}

SubscribeScript(c) ==
    /\ Receives(c, "subscribe")
    /\ Received(c)
    /\ \E s \in Scripts : s = Head(chan[c]).topic /\ ReadChain(c, s)
    /\ Go(c, "status")
    /\ UNCHANGED <<mainVars, exit, acceptVars, clientVars, readerVars, told, todo,
                   batch, seen>>

(* A script with too many transactions is refused.                           *)
Subscribed(c) ==
    /\ Running /\ peer[c] = "status"
    /\ LET s == half[c].topic IN
          \/ \E status \in Status(c) :
                /\ Changed(c, s, status)
                /\ Write(c, <<[topic |-> s, version |-> status]>>)
          \/ /\ Replied(c)
             /\ UNCHANGED told
    /\ half' = [half EXCEPT ![c] = None]
    /\ UNCHANGED <<mainVars, exit, acceptVars, clientVars, chan, readerVars, todo, seen>>

Unsubscribe(c) ==
    /\ Receives(c, "unsubscribe")
    /\ Received(c)
    /\ Changed(c, Head(chan[c]).topic, None)
    /\ Replied(c)
    /\ UNCHANGED <<mainVars, exit, acceptVars, clientVars, readerVars, todo, half, seen>>

(* Query::broadcast_raw: the transaction enters the mempool view, unless the *)
(* daemon refuses it.                                                        *)
Broadcast(c) ==
    /\ Receives(c, "broadcast")
    /\ Received(c)
    /\ \/ /\ now' \in {now} \cup {[now EXCEPT ![s] = @ + 1] :
                                    s \in {s \in Scripts : now[s] < MaxVersion}}
          /\ Go(c, "broadcast")
          /\ UNCHANGED batch
       \/ /\ Replied(c)
          /\ UNCHANGED now
    /\ UNCHANGED <<main, periodic, exit, acceptVars, clientVars, readerVars, told, todo,
                   half, seen>>

(* Then the connection asks itself for an update, if its channel has room:   *)
(* the reader may have filled it meanwhile.                                  *)
AskForUpdate(c) ==
    /\ Running /\ peer[c] = "broadcast"
    /\ TrySend({c}, Periodic)
    /\ Replied(c)
    /\ UNCHANGED <<mainVars, exit, acceptVars, clientVars, readerVars, told, todo, half, seen>>

Read(c) ==
    /\ Receives(c, "read")
    /\ Received(c)
    /\ Replied(c)
    /\ UNCHANGED <<mainVars, exit, acceptVars, clientVars, readerVars, told, todo, half, seen>>

(* A batch that is too large, or Done: handle_replies returns.               *)
Finish(c) ==
    /\ Receives(c, "tooLarge") \/ Receives(c, "done")
    /\ Received(c)
    /\ Go(c, "closing")
    /\ UNCHANGED <<mainVars, exit, acceptVars, clientVars, readerVars, told, todo, half,
                   batch, seen>>

(* update_subscriptions compares the header first, then the scripts one at a *)
(* time; what changed is recorded at once and written at the end.            *)
UpdateHeader(c) ==
    /\ Receives(c, "periodic")
    /\ Received(c)
    /\ \/ /\ told[c][Header] \in {None, now[Header]}
          /\ UNCHANGED <<told, batch>>
       \/ /\ told[c][Header] \notin {None, now[Header]}
          /\ Changed(c, Header, now[Header])
          /\ batch' = [batch EXCEPT ![c] = <<[topic |-> Header, version |-> now[Header]]>>]
    /\ todo' = [todo EXCEPT ![c] = {s \in Scripts : told[c][s] # None}]
    /\ Go(c, "update")
    /\ UNCHANGED <<mainVars, exit, acceptVars, clientVars, readerVars, half, seen>>

ReadScript(c) ==
    /\ Running /\ peer[c] = "update" /\ half[c] = None
    /\ \E s \in todo[c] : ReadChain(c, s)
    /\ UNCHANGED <<mainVars, exit, acceptVars, clientVars, chan, readerVars, peer, told, todo,
                   batch, seen>>

\* Mutant: the confirmed history that was read serves the next comparison.
UpdateScriptKeepsHalf(c) ==
    /\ Running /\ peer[c] = "update" /\ half[c] # None
    /\ \E status \in Status(c) :
          LET s == half[c].topic IN
             /\ todo' = [todo EXCEPT ![c] = @ \ {s}]
             /\ Changed(c, s, status)
             /\ batch' = [batch EXCEPT ![c] =
                             IF told[c][s] = status THEN @
                             ELSE Append(@, [topic |-> s, version |-> status])]
    /\ UNCHANGED <<mainVars, exit, acceptVars, clientVars, chan, readerVars, peer, half, seen>>

UpdateScript(c) ==
    /\ Running /\ peer[c] = "update" /\ half[c] # None
    /\ \E status \in Status(c) :
          LET s == half[c].topic IN
             /\ todo' = [todo EXCEPT ![c] = @ \ {s}]
             /\ Changed(c, s, status)
             /\ batch' = [batch EXCEPT ![c] =
                             IF told[c][s] = status THEN @
                             ELSE Append(@, [topic |-> s, version |-> status])]
    /\ half' = [half EXCEPT ![c] = None]
    /\ UNCHANGED <<mainVars, exit, acceptVars, clientVars, chan, readerVars, peer, seen>>

\* Mutant: an update that fails does not end the connection.
UpdateSkipped(c) ==
    /\ Running /\ peer[c] = "update" /\ half[c] # None
    /\ todo' = [todo EXCEPT ![c] = {}]
    /\ half' = [half EXCEPT ![c] = None]
    /\ batch' = [batch EXCEPT ![c] = <<>>]
    /\ Go(c, "recv")
    /\ UNCHANGED <<mainVars, exit, acceptVars, clientVars, chan, readerVars, told, seen>>

(* A script that has too many transactions now: nothing is written, and the  *)
(* error ends the connection.                                                *)
UpdateFails(c) ==
    /\ Running /\ peer[c] = "update" /\ half[c] # None
    /\ todo' = [todo EXCEPT ![c] = {}]
    /\ half' = [half EXCEPT ![c] = None]
    /\ batch' = [batch EXCEPT ![c] = <<>>]
    /\ Go(c, "closing")
    /\ UNCHANGED <<mainVars, exit, acceptVars, clientVars, chan, readerVars, told, seen>>

Updated(c) ==
    /\ Running /\ peer[c] = "update" /\ todo[c] = {}
    /\ Go(c, IF batch[c] = <<>> THEN "recv" ELSE "write")
    /\ UNCHANGED <<mainVars, exit, acceptVars, clientVars, chan, readerVars, told, todo, half,
                   batch, seen>>

(* write_all blocks while the client does not read.                          *)
WriteValue(c) ==
    /\ Running /\ peer[c] = "write" /\ client[c] \in {"reading", "gone"}
    /\ LET value == Head(batch[c]) IN
          seen' = IF value = Reply THEN seen
                  ELSE [seen EXCEPT ![c][value.topic] = value.version]
    /\ batch' = [batch EXCEPT ![c] = Tail(@)]
    /\ Go(c, IF Len(batch[c]) = 1 THEN "recv" ELSE "write")
    /\ UNCHANGED <<mainVars, exit, acceptVars, clientVars, chan, readerVars, told, todo, half>>

WriteFails(c) ==
    /\ Running /\ peer[c] = "write" /\ client[c] = "gone"
    /\ batch' = [batch EXCEPT ![c] = <<>>]
    /\ Go(c, "closing")
    /\ UNCHANGED <<mainVars, exit, acceptVars, clientVars, chan, readerVars, told, todo,
                   half, seen>>

\* Mutant: the reader thread is joined before the stream is shut down.
ShutdownAfterReader(c) ==
    /\ Running /\ peer[c] = "closing" /\ reader[c] = "ended"
    /\ Go(c, "join")
    /\ UNCHANGED <<mainVars, exit, acceptVars, clientVars, chan, readerVars, told, todo, half,
                   batch, seen>>

(* The stream is shut down, which ends the reader's read, then the reader is *)
(* joined.                                                                   *)
Shutdown(c) ==
    /\ Running /\ peer[c] = "closing"
    /\ Go(c, "join")
    /\ UNCHANGED <<mainVars, exit, acceptVars, clientVars, chan, readerVars, told, todo, half,
                   batch, seen>>

JoinReader(c) ==
    /\ Running /\ peer[c] = "join" /\ reader[c] = "ended"
    /\ Go(c, "ended")
    /\ UNCHANGED <<mainVars, exit, acceptVars, clientVars, chan, readerVars, told, todo, half,
                   batch, seen>>

-----------------------------------------------------------------------------
(* The clients.                                                              *)

Client(c, from, to) ==
    /\ Running /\ client[c] = from
    /\ client' = [client EXCEPT ![c] = to]
    /\ UNCHANGED <<mainVars, exit, acceptVars, lines, chan, readerVars, peerVars>>

Stall(c) == Client(c, "reading", "stalled")
Resume(c) == Client(c, "stalled", "reading")
Leave(c) == Client(c, "reading", "gone") \/ Client(c, "stalled", "gone")

-----------------------------------------------------------------------------
Main == Update \/ Notify \/ Drop \/ Joined
Notifier == NotifyClients \/ NotifyExit
Rpc == Spawn \/ StopAccepting \/ (\E c \in Clients : SendDone(c)) \/ Closed \/ JoinPeers
Reader(c) == ReadEnd(c) \/ ReaderSend(c) \/ ReaderDone(c)
Peer(c) == \/ Subscribe(c) \/ SubscribeScript(c) \/ Subscribed(c) \/ Unsubscribe(c)
           \/ Broadcast(c) \/ AskForUpdate(c) \/ Read(c)
           \/ Finish(c) \/ UpdateHeader(c) \/ ReadScript(c) \/ UpdateScript(c)
           \/ UpdateFails(c) \/ Updated(c)
           \/ WriteValue(c) \/ WriteFails(c) \/ Shutdown(c) \/ JoinReader(c)

Next == \/ Main \/ Notifier \/ Rpc
        \/ \E c \in Clients : \/ Accept(c) \/ ReadLine(c) \/ Reader(c) \/ Peer(c)
                              \/ Stall(c) \/ Resume(c) \/ Leave(c)

Spec == Init /\ [][Next]_vars

(* The threads run.  Whether the main loop is told to stop, and whether the  *)
(* clients send or leave, is up to them.  A peer that is blocked in a write  *)
(* goes on when its client reads again and again.                            *)
Fairness ==
    /\ WF_vars(Update \/ Notify \/ Joined)
    /\ WF_vars(Notifier) /\ WF_vars(Rpc)
    /\ \A c \in Clients : WF_vars(Reader(c)) /\ SF_vars(Peer(c))

FairSpec == Spec /\ Fairness

-----------------------------------------------------------------------------
(* What the server thinks that a subscriber knows is what was written to it, *)
(* once what is still to be written is: a change is compared with that only  *)
(* once, so one that is recorded and not written is never announced.         *)
Unwritten(c, t) ==
    {i \in DOMAIN batch[c] : batch[c][i] # Reply /\ batch[c][i].topic = t}

ToldIsWritten ==
    \A c \in Clients : \A t \in Topics :
       Serving(c) /\ told[c][t] # None =>
          IF Unwritten(c, t) = {}
          THEN seen[c][t] = told[c][t]
          ELSE \A i \in Unwritten(c, t) : batch[c][i].version = told[c][t]

(* When the main thread has stopped every connection that was accepted is    *)
(* shut down and its two threads have ended.                                 *)
NobodyOutlivesServer ==
    main = "stopped" =>
       \A c \in Clients : /\ peer[c] \in {"none", "ended"}
                          /\ reader[c] \in {"none", "ended"}

(* Shutting down, no thread waits for something that no other thread will do *)
(* (RPC::start): the rpc thread, that accepts, for an end of the connections *)
(* that nobody queued; the rpc thread, that sends Done, for a channel that   *)
(* nobody empties; a peer thread that it joins for a message that was never  *)
(* sent, or for a reader that is blocked itself.  Only a client that stopped *)
(* reading holds a peer thread up.                                           *)
ReaderGoes(c) ==
    \/ reader[c] = "read" /\ (client[c] = "gone" \/ peer[c] = "join")
    \/ reader[c] \in {"send", "done"} /\ (~Serving(c) \/ Room(c))

PeerGoes(c) ==
    \/ peer[c] \in {"status", "broadcast", "update", "closing"}
    \/ peer[c] = "recv" /\ chan[c] # <<>>
    \/ peer[c] = "write" /\ client[c] # "stalled"
    \/ peer[c] = "join" /\ reader[c] = "ended"

Stuck(c) ==
    /\ ~PeerGoes(c)
    /\ ~(peer[c] = "write" /\ client[c] = "stalled")
    /\ ~(peer[c] = "join" /\ ReaderGoes(c))

ShutdownNotStuck ==
    main = "joining" =>
       /\ rpc = "accept" => exit \/ \E i \in DOMAIN accepted : accepted[i] = None
       /\ rpc = "closing" =>
             \A c \in toClose : Serving(c) => Room(c) \/ ~Stuck(c)
       /\ rpc = "join" =>
             \A c \in Clients : peer[c] \notin {"none", "ended"} => ~Stuck(c)

(* A client is never sent an older header or status after a newer one        *)
(* (update_subscriptions, blockchain_scripthash_subscribe), although a       *)
(* status is read in two steps and written in a third, and its subscription  *)
(* may be renewed in between.                                                *)
SeenInOrder ==
    [][\A c \in Clients : \A t \in Topics :
          seen[c][t] \in Nat /\ seen'[c][t] \in Nat => seen[c][t] <= seen'[c][t]]_vars

(* A client that keeps its connection and reads is told of every change of a *)
(* topic that it subscribed to, although an update is dropped when its       *)
(* channel is full.                                                          *)
Announced ==
    \A c \in Clients : \A t \in Topics :
       (Serving(c) /\ seen[c][t] # now[t] /\ told[c][t] # None) ~>
          (\/ told[c][t] = None \/ seen[c][t] = now[t]
           \/ ~Serving(c) \/ client[c] # "reading" \/ main \in {"joining", "stopped"})

(* The server stops when it is dropped, whatever its threads wait for, unless *)
(* a client stops reading for good.                                          *)
ShutdownEnds ==
    (\A c \in Clients : []<>(client[c] # "stalled")) =>
       ((main = "joining") ~> (main = "stopped"))
=============================================================================
