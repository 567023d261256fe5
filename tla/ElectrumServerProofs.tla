------------------------- MODULE ElectrumServerProofs -------------------------
(***************************************************************************)
(* Theorems about the Electrum server for any clients, scripts, channel    *)
(* size and bounds.                                                        *)
(***************************************************************************)
EXTENDS ElectrumServer, TLAPS

\* What a reader is about to send is a request.
LineInv == \A c \in Clients : reader[c] = "send" => line[c] \in Request

\* Nothing is left to write when the next message is received, and a script
\* that is still to be compared has no value among those to write.
BatchInv ==
    \A c \in Clients :
       /\ peer[c] \in {"recv", "status", "broadcast"} => batch[c] = <<>>
       /\ peer[c] \in {"recv", "broadcast", "write"} => half[c] = None
       /\ peer[c] = "status" => half[c] # None
       /\ peer[c] = "update" /\ half[c] # None => half[c].topic \in todo[c]
       /\ peer[c] = "update" => \A s \in todo[c] : Unwritten(c, s) = {}
       /\ peer[c] = "write" => batch[c] # <<>>

\* A thread that has ended is not needed by one that goes on.
EndInv ==
    /\ main = "stopped" => rpc = "ended"
    /\ rpc = "ended" => \A c \in Clients : peer[c] \in {"none", "ended"}
    /\ \A c \in Clients : /\ peer[c] = "none" => reader[c] = "none"
                          /\ peer[c] = "ended" => reader[c] = "ended"

IInv == TypeOK /\ LineInv /\ BatchInv /\ ToldIsWritten /\ EndInv

LEMMA Zero == 0 \in Versions
BY SizesAssumption DEF Versions

\* Sequences.
LEMMA Extended ==
    ASSUME NEW S, NEW s \in Seq(S)
    PROVE  /\ <<>> \in Seq(S)
           /\ \A e \in S : Append(s, e) \in Seq(S) /\ <<e>> \in Seq(S)
           /\ s # <<>> => Head(s) \in S /\ Tail(s) \in Seq(S)
OBVIOUS

LEMMA LastOne ==
    ASSUME NEW S, NEW s \in Seq(S), s # <<>>
    PROVE  Len(s) = 1 <=> Tail(s) = <<>>
<1>1. Len(Tail(s)) = Len(s) - 1 /\ Tail(s) \in Seq(S) /\ Len(s) \in Nat
  OBVIOUS
<1>2. \A q \in Seq(S) : q = <<>> <=> Len(q) = 0
  OBVIOUS
<1>3. Len(s) = 1 <=> Len(Tail(s)) = 0
  BY <1>1
<1>4. Tail(s) = <<>> <=> Len(Tail(s)) = 0
  BY <1>1, <1>2
<1> QED
  BY <1>3, <1>4

LEMMA Messages ==
    /\ Periodic \in Message /\ Done \in Message /\ Request \subseteq Message
    /\ \A m \in Message : /\ m.kind = "subscribe" => m.topic \in Topics
                          /\ m.kind = "unsubscribe" => m.topic \in Scripts
BY DEF Message, Request, Periodic, Done

LEMMA Values ==
    /\ \A t \in Topics, v \in Statuses : [topic |-> t, version |-> v] \in Value
    /\ \A v \in Value : v.topic \in Topics /\ v.version \in Statuses
    /\ Versions \subseteq Statuses /\ None \notin Statuses
BY NoneAssumption, TornAssumption DEF Value, Statuses, Versions

LEMMA Chans ==
    ASSUME TypeOK, NEW c \in Clients
    PROVE  /\ <<>> \in Seq(Message)
           /\ \A e \in Message : Append(chan[c], e) \in Seq(Message)
           /\ chan[c] # <<>> => Head(chan[c]) \in Message /\ Tail(chan[c]) \in Seq(Message)
BY Extended DEF TypeOK

LEMMA Batches ==
    ASSUME TypeOK, NEW c \in Clients
    PROVE  /\ <<>> \in Seq(Value \cup {Reply})
           /\ \A e \in Value \cup {Reply} :
                 Append(batch[c], e) \in Seq(Value \cup {Reply}) /\ <<e>> \in Seq(Value \cup {Reply})
           /\ batch[c] # <<>> => /\ Head(batch[c]) \in Value \cup {Reply}
                                 /\ Tail(batch[c]) \in Seq(Value \cup {Reply})
BY Extended DEF TypeOK

LEMMA Pushed ==
    ASSUME TypeOK, NEW c \in Clients, NEW message \in Message, Push(c, message)
    PROVE  chan' \in [Clients -> Seq(Message)]
<1>1. Append(chan[c], message) \in Seq(Message)
  BY Chans
<1> QED
  BY <1>1 DEF TypeOK, Push

LEMMA Tolds ==
    ASSUME TypeOK, NEW c \in Clients, NEW t \in Topics, NEW version \in Statuses \cup {None},
           Changed(c, t, version) \/ UNCHANGED told
    PROVE  told' \in [Clients -> [Topics -> Statuses \cup {None}]]
<1>1. [told[c] EXCEPT ![t] = version] \in [Topics -> Statuses \cup {None}]
  BY DEF TypeOK
<1>2. told' = [told EXCEPT ![c] = [told[c] EXCEPT ![t] = version]] \/ told' = told
  BY DEF Changed
<1> QED
  BY <1>1, <1>2 DEF TypeOK

LEMMA StatusTypes ==
    ASSUME TypeOK, NEW c \in Clients, half[c] # None
    PROVE  /\ half[c].topic \in Scripts /\ half[c].topic \in Topics
           /\ \A status \in Status(c) :
                 /\ status \in Statuses /\ status # None
                 /\ [topic |-> half[c].topic, version |-> status] \in Value
<1>1. half[c] \in [topic : Scripts, version : Versions]
  BY DEF TypeOK
<1>2. half[c].topic \in Scripts /\ half[c].topic \in Topics /\ half[c].version \in Versions
  BY <1>1 DEF Topics
<1>3. now[half[c].topic] \in Versions
  BY <1>2 DEF TypeOK
<1>4. \A status \in Status(c) : status \in Statuses
  BY <1>2, <1>3 DEF Status, Statuses
<1> QED
  BY <1>2, <1>4, Values

LEMMA Queue ==
    ASSUME TypeOK
    PROVE  /\ \A e \in Clients \cup {None} : Append(accepted, e) \in Seq(Clients \cup {None})
           /\ accepted # <<>> => /\ Head(accepted) \in Clients \cup {None}
                                 /\ Tail(accepted) \in Seq(Clients \cup {None})
BY Extended DEF TypeOK

LEMMA InitInv == Init => IInv
<1> SUFFICES ASSUME Init PROVE IInv
  OBVIOUS
<1>1. TypeOK
  <2>1. <<>> \in Seq(Message) /\ <<>> \in Seq(Value \cup {Reply}) /\ <<>> \in Seq(Clients \cup {None})
    OBVIOUS
  <2>2. 0 \in 0..MaxRequests /\ 0 \in 0..MaxPeriodic
    BY SizesAssumption
  <2> QED
    BY <2>1, <2>2, Zero DEF Init, TypeOK
<1>2. LineInv
  BY DEF Init, LineInv
<1>3. BatchInv
  BY DEF Init, BatchInv
<1>4. ToldIsWritten
  BY DEF Init, ToldIsWritten
<1>5. EndInv
  BY DEF Init, EndInv
<1> QED
  BY <1>1, <1>2, <1>3, <1>4, <1>5 DEF IInv

-----------------------------------------------------------------------------
LEMMA TypeMain ==
    ASSUME TypeOK, LineInv, Main \/ Notifier \/ Rpc
    PROVE  TypeOK'
<1> USE DEF mainVars, acceptVars, clientVars, readerVars, peerVars
<1>1. CASE Update
  <2>1. now' \in [Topics -> Versions]
    <3>1. PICK changed \in SUBSET Topics :
             /\ \A t \in changed : now[t] < MaxVersion
             /\ now' = [t \in Topics |-> now[t] + (IF t \in changed THEN 1 ELSE 0)]
      BY <1>1 DEF Update, Moves, Topics
    <3>2. \A t \in Topics : now[t] \in Versions
      BY DEF TypeOK
    <3>3. \A t \in Topics : now[t] + (IF t \in changed THEN 1 ELSE 0) \in Versions
      BY <3>1, <3>2, SizesAssumption DEF Versions
    <3> QED
      BY <3>1, <3>3
  <2> QED
    BY <1>1, <2>1 DEF TypeOK, Update
<1>2. CASE Notify
  BY <1>2, SizesAssumption DEF TypeOK, Notify
<1>3. CASE Drop
  BY <1>3 DEF TypeOK, Drop
<1>4. CASE Joined
  BY <1>4 DEF TypeOK, Joined
<1>5. CASE NotifyClients
  <2>1. chan' \in [Clients -> Seq(Message)]
    BY <1>5, Chans, Messages DEF TypeOK, NotifyClients, TrySend
  <2>2. periodic' \in 0..MaxPeriodic /\ senders' \subseteq Clients
    BY <1>5, SizesAssumption DEF TypeOK, NotifyClients, Retain
  <2> QED
    BY <1>5, <2>1, <2>2 DEF TypeOK, NotifyClients
<1>6. CASE NotifyExit
  BY <1>6, Queue DEF TypeOK, NotifyExit
<1>7. CASE Spawn
  <2>1. Head(accepted) \in Clients /\ accepted' \in Seq(Clients \cup {None})
    BY <1>7, Queue DEF Spawn
  <2>2. <<>> \in Seq(Message) /\ <<>> \in Seq(Value \cup {Reply})
    OBVIOUS
  <2>3. chan' \in [Clients -> Seq(Message)] /\ batch' \in [Clients -> Seq(Value \cup {Reply})]
    BY <1>7, <2>1, <2>2 DEF TypeOK, Spawn
  <2> QED
    BY <1>7, <2>1, <2>3 DEF TypeOK, Spawn, ServingStates
<1>8. CASE StopAccepting
  BY <1>8, Queue DEF TypeOK, StopAccepting
<1>9. CASE Closed
  BY <1>9 DEF TypeOK, Closed
<1>10. CASE JoinPeers
  BY <1>10 DEF TypeOK, JoinPeers
<1>11. CASE \E c \in Clients : SendDone(c)
  <2> PICK c \in Clients : SendDone(c)
    BY <1>11
  <2>1. chan' \in [Clients -> Seq(Message)]
    BY Pushed, Messages DEF TypeOK, SendDone
  <2> QED
    BY <2>1 DEF TypeOK, SendDone
<1> QED
  BY <1>1, <1>2, <1>3, <1>4, <1>5, <1>6, <1>7, <1>8, <1>9, <1>10, <1>11 DEF Main,
      Notifier, Rpc

LEMMA TypeClient ==
    ASSUME TypeOK, LineInv, NEW c \in Clients,
           \/ Accept(c) \/ ReadLine(c) \/ Reader(c) \/ Stall(c) \/ Resume(c) \/ Leave(c)
    PROVE  TypeOK'
<1> USE DEF mainVars, acceptVars, clientVars, readerVars, peerVars
<1>1. CASE Accept(c)
  BY <1>1, Queue DEF TypeOK, Accept
<1>2. CASE ReadLine(c)
  <2>1. lines' \in 0..MaxRequests
    BY <1>2, SizesAssumption DEF TypeOK, ReadLine
  <2>2. line' \in [Clients -> Request \cup {None}]
    <3>1. line' = line \/ \E r \in Request : line' = [line EXCEPT ![c] = r]
      BY <1>2 DEF ReadLine
    <3> QED
      BY <3>1 DEF TypeOK
  <2> QED
    BY <1>2, <2>1, <2>2 DEF TypeOK, ReadLine
<1>3. CASE ReadEnd(c)
  BY <1>3 DEF TypeOK, ReadEnd, Client
<1>4. CASE ReaderSend(c)
  <2>1. chan' \in [Clients -> Seq(Message)]
    BY <1>4, Pushed, Messages DEF TypeOK, LineInv, ReaderSend
  <2> QED
    BY <1>4, <2>1 DEF TypeOK, ReaderSend
<1>5. CASE ReaderDone(c)
  <2>1. chan' \in [Clients -> Seq(Message)]
    BY <1>5, Pushed, Messages DEF TypeOK, LineInv, ReaderDone
  <2> QED
    BY <1>5, <2>1 DEF TypeOK, ReaderDone
<1>6. CASE Stall(c)
  BY <1>6 DEF TypeOK, Stall, Client
<1>7. CASE Resume(c)
  BY <1>7 DEF TypeOK, Resume, Client
<1>8. CASE Leave(c)
  BY <1>8 DEF TypeOK, Leave, Client
<1> QED
  BY <1>1, <1>2, <1>3, <1>4, <1>5, <1>6, <1>7, <1>8 DEF Reader

LEMMA TypePeer ==
    ASSUME TypeOK, BatchInv, NEW c \in Clients, Peer(c)
    PROVE  TypeOK'
<1> USE DEF mainVars, acceptVars, clientVars, readerVars, peerVars
<1>1. CASE Subscribe(c)
  <2>1. chan' \in [Clients -> Seq(Message)]
    BY <1>1, Chans DEF TypeOK, Subscribe, Receives, Received
  <2>2. now[Header] \in Statuses /\ Header \in Topics
    BY Values DEF TypeOK, Topics
  <2>3. <<[topic |-> Header, version |-> now[Header]]>> \in Seq(Value \cup {Reply})
    BY <2>2, Batches, Values
  <2>4. batch' \in [Clients -> Seq(Value \cup {Reply})]
    BY <1>1, <2>3 DEF TypeOK, Subscribe, Write
  <2>5. told' \in [Clients -> [Topics -> Statuses \cup {None}]]
    BY <1>1, <2>2, Tolds DEF Subscribe
  <2> QED
    BY <1>1, <2>1, <2>4, <2>5 DEF TypeOK, Subscribe, Receives, Write, Go, ServingStates
<1>15. CASE SubscribeScript(c)
  <2>1. chan' \in [Clients -> Seq(Message)]
    BY <1>15, Chans DEF TypeOK, SubscribeScript, Receives, Received
  <2>2. half' \in [Clients -> [topic : Scripts, version : Versions] \cup {None}]
    BY <1>15 DEF TypeOK, SubscribeScript, ReadChain, Topics
  <2> QED
    BY <1>15, <2>1, <2>2 DEF TypeOK, SubscribeScript, Receives, Go, ServingStates
<1>16. CASE Subscribed(c)
  <2>1. /\ half[c].topic \in Topics
        /\ \A status \in Status(c) :
              /\ status \in Statuses
              /\ <<[topic |-> half[c].topic, version |-> status]>> \in Seq(Value \cup {Reply})
    BY <1>16, StatusTypes, Batches DEF Subscribed, BatchInv
  <2>2. batch' \in [Clients -> Seq(Value \cup {Reply})]
    <3>1. \E values \in Seq(Value \cup {Reply}) : batch' = [batch EXCEPT ![c] = values]
      <4>1. <<Reply>> \in Seq(Value \cup {Reply})
        BY Batches
      <4> QED
        BY <1>16, <2>1, <4>1 DEF Subscribed, Write, Replied
    <3> QED
      BY <3>1 DEF TypeOK
  <2>3. told' \in [Clients -> [Topics -> Statuses \cup {None}]]
    BY <1>16, <2>1, Tolds DEF Subscribed
  <2>4. half' \in [Clients -> [topic : Scripts, version : Versions] \cup {None}]
    BY <1>16 DEF TypeOK, Subscribed
  <2> QED
    BY <1>16, <2>2, <2>3, <2>4 DEF TypeOK, Subscribed, Write, Replied, Go, ServingStates
<1>17. CASE ReadScript(c)
  <2>1. half' \in [Clients -> [topic : Scripts, version : Versions] \cup {None}]
    BY <1>17 DEF TypeOK, ReadScript, ReadChain, Topics
  <2> QED
    BY <1>17, <2>1 DEF TypeOK, ReadScript
<1>2. CASE Unsubscribe(c)
  <2>1. chan' \in [Clients -> Seq(Message)]
    BY <1>2, Chans, Messages DEF TypeOK, Unsubscribe, Receives, Received, Changed,
        Write, Replied, Go
  <2>2. batch' \in [Clients -> Seq(Value \cup {Reply})]
    BY <1>2, Batches, Values DEF TypeOK, Unsubscribe, Receives, Received, Changed,
        Write, Replied, Go, BatchInv, Topics
  <2>3. told' \in [Clients -> [Topics -> Statuses \cup {None}]]
    BY <1>2, Chans, Messages DEF TypeOK, Unsubscribe, Receives, Received, Changed,
        Write, Replied, Go, Topics
  <2> QED
    BY <1>2, <2>1, <2>2, <2>3 DEF TypeOK, Unsubscribe, Receives, Received, Changed,
        Write, Replied, Go, ServingStates
<1>3. CASE Broadcast(c)
  <2>1. chan' \in [Clients -> Seq(Message)]
    BY <1>3, Chans, Messages DEF TypeOK, Broadcast, Receives, Received, Write, Replied, Go
  <2>2. <<Reply>> \in Seq(Value \cup {Reply})
    BY <1>3, Batches
  <2>3. batch' \in [Clients -> Seq(Value \cup {Reply})]
    BY <1>3, <2>2 DEF TypeOK, Broadcast, Write, Replied
  <2>4. \A s \in Scripts : now[s] < MaxVersion => [now EXCEPT ![s] = @ + 1] \in [Topics -> Versions]
    BY <1>3, SizesAssumption DEF TypeOK, Versions, Topics
  <2>5. now' = now \/ \E s \in Scripts : now[s] < MaxVersion /\ now' = [now EXCEPT ![s] = @ + 1]
    BY <1>3 DEF Broadcast
  <2>6. now' \in [Topics -> Versions]
    BY <1>3, <2>4, <2>5 DEF TypeOK
  <2> QED
    BY <1>3, <2>1, <2>2, <2>3, <2>4, <2>5, <2>6 DEF TypeOK, Broadcast, Receives,
        Received, Write, Replied, Go, ServingStates
<1>4. CASE AskForUpdate(c)
  <2>1. chan' \in [Clients -> Seq(Message)]
    BY <1>4, Chans, Messages DEF TypeOK, AskForUpdate, TrySend, Write, Replied, Go
  <2>2. batch' \in [Clients -> Seq(Value \cup {Reply})]
    BY <1>4, Batches, Values DEF TypeOK, AskForUpdate, TrySend, Write, Replied, Go,
        BatchInv, Topics
  <2> QED
    BY <1>4, <2>1, <2>2 DEF TypeOK, AskForUpdate, TrySend, Write, Replied, Go, ServingStates
<1>5. CASE Read(c)
  <2>1. chan' \in [Clients -> Seq(Message)]
    BY <1>5, Chans, Messages DEF TypeOK, Read, Receives, Received, Write, Replied, Go
  <2>2. batch' \in [Clients -> Seq(Value \cup {Reply})]
    BY <1>5, Batches, Values DEF TypeOK, Read, Receives, Received, Write, Replied, Go,
        BatchInv, Topics
  <2> QED
    BY <1>5, <2>1, <2>2 DEF TypeOK, Read, Receives, Received, Write, Replied, Go,
        ServingStates
<1>6. CASE Finish(c)
  <2>1. chan' \in [Clients -> Seq(Message)]
    BY <1>6, Chans, Messages DEF TypeOK, Finish, Receives, Received, Go
  <2> QED
    BY <1>6, <2>1 DEF TypeOK, Finish, Receives, Received, Go, ServingStates
<1>7. CASE UpdateHeader(c)
  <2>1. chan' \in [Clients -> Seq(Message)]
    BY <1>7, Chans, Messages DEF TypeOK, UpdateHeader, Receives, Received, Changed, Go
  <2>2. now[Header] \in Statuses /\ Header \in Topics
    BY <1>7, Values DEF TypeOK, Topics
  <2>3. <<[topic |-> Header, version |-> now[Header]]>> \in Seq(Value \cup {Reply})
    BY <1>7, <2>2, Batches, Values
  <2>4. batch' \in [Clients -> Seq(Value \cup {Reply})]
    BY <1>7, <2>3 DEF TypeOK, UpdateHeader
  <2>5. Changed(c, Header, now[Header]) \/ UNCHANGED told
    BY <1>7 DEF UpdateHeader
  <2>6. told' \in [Clients -> [Topics -> Statuses \cup {None}]]
    BY <1>7, <2>2, <2>5, Tolds
  <2> QED
    BY <1>7, <2>1, <2>2, <2>3, <2>4, <2>5, <2>6 DEF TypeOK, UpdateHeader, Receives,
        Received, Changed, Go, ServingStates
<1>8. CASE UpdateScript(c)
  <2> DEFINE s == half[c].topic
  <2>1. PICK status \in Status(c) :
           /\ todo' = [todo EXCEPT ![c] = @ \ {s}]
           /\ Changed(c, s, status)
           /\ batch' = [batch EXCEPT ![c] =
                           IF told[c][s] = status THEN @
                           ELSE Append(@, [topic |-> s, version |-> status])]
    BY <1>8 DEF UpdateScript
  <2>2. /\ s \in Topics /\ status \in Statuses
        /\ [topic |-> s, version |-> status] \in Value
    BY <1>8, StatusTypes DEF UpdateScript
  <2>3. batch' \in [Clients -> Seq(Value \cup {Reply})]
    <3>1. Append(batch[c], [topic |-> s, version |-> status]) \in Seq(Value \cup {Reply})
      BY <2>2, Batches
    <3>2. batch[c] \in Seq(Value \cup {Reply})
      BY DEF TypeOK
    <3> QED
      BY <2>1, <3>1, <3>2 DEF TypeOK
  <2>4. told' \in [Clients -> [Topics -> Statuses \cup {None}]]
    BY <2>1, <2>2, Tolds
  <2>5. half' \in [Clients -> [topic : Scripts, version : Versions] \cup {None}]
    BY <1>8 DEF TypeOK, UpdateScript
  <2>6. todo' \in [Clients -> SUBSET Scripts]
    BY <2>1 DEF TypeOK
  <2> QED
    BY <1>8, <2>3, <2>4, <2>5, <2>6 DEF TypeOK, UpdateScript
<1>9. CASE UpdateFails(c)
  <2>1. batch' \in [Clients -> Seq(Value \cup {Reply})]
    BY <1>9, Batches, Values DEF TypeOK, UpdateFails, Go, BatchInv, Topics
  <2> QED
    BY <1>9, <2>1 DEF TypeOK, UpdateFails, Go, ServingStates
<1>10. CASE Updated(c)
  BY <1>10 DEF TypeOK, Updated, Go, ServingStates
<1>11. CASE WriteValue(c)
  <2>1. batch' \in [Clients -> Seq(Value \cup {Reply})]
    BY <1>11, Batches, Values DEF TypeOK, WriteValue, Go, BatchInv, Topics
  <2>2. seen' \in [Clients -> [Topics -> Statuses \cup {None}]]
    BY <1>11, Batches, Values DEF TypeOK, BatchInv, WriteValue
  <2> QED
    BY <1>11, <2>1, <2>2 DEF TypeOK, WriteValue, Go, ServingStates
<1>12. CASE WriteFails(c)
  <2>1. batch' \in [Clients -> Seq(Value \cup {Reply})]
    BY <1>12, Batches, Values DEF TypeOK, WriteFails, Go, BatchInv, Topics
  <2> QED
    BY <1>12, <2>1 DEF TypeOK, WriteFails, Go, ServingStates
<1>13. CASE Shutdown(c)
  BY <1>13 DEF TypeOK, Shutdown, Go, ServingStates
<1>14. CASE JoinReader(c)
  BY <1>14 DEF TypeOK, JoinReader, Go, ServingStates
<1> QED
  BY <1>1, <1>2, <1>3, <1>4, <1>5, <1>6, <1>7, <1>8, <1>9, <1>10, <1>11, <1>12, <1>13,
      <1>14, <1>15, <1>16, <1>17 DEF Peer

-----------------------------------------------------------------------------
\* The invariants of one connection.
BatchFor(c) ==
    /\ peer[c] \in {"recv", "status", "broadcast"} => batch[c] = <<>>
    /\ peer[c] \in {"recv", "broadcast", "write"} => half[c] = None
    /\ peer[c] = "status" => half[c] # None
    /\ peer[c] = "update" /\ half[c] # None => half[c].topic \in todo[c]
    /\ peer[c] = "update" => \A s \in todo[c] : Unwritten(c, s) = {}
    /\ peer[c] = "write" => batch[c] # <<>>
WrittenFor(c) ==
    \A t \in Topics :
       Serving(c) /\ told[c][t] # None =>
          IF Unwritten(c, t) = {}
          THEN seen[c][t] = told[c][t]
          ELSE \A i \in Unwritten(c, t) : batch[c][i].version = told[c][t]
ConnFor(c) == BatchFor(c) /\ WrittenFor(c)

LEMMA ByConnection ==
    /\ BatchInv /\ ToldIsWritten <=> \A c \in Clients : ConnFor(c)
    /\ (BatchInv /\ ToldIsWritten)' <=> \A c \in Clients : ConnFor(c)'
BY DEF BatchInv, ToldIsWritten, BatchFor, WrittenFor, ConnFor

\* A connection whose variables stay, stays as it is.
Same(c) == /\ peer'[c] = peer[c] /\ todo'[c] = todo[c] /\ told'[c] = told[c]
           /\ half'[c] = half[c]
           /\ batch'[c] = batch[c] /\ seen'[c] = seen[c]

LEMMA SameConnection ==
    ASSUME NEW c \in Clients, ConnFor(c), Same(c)
    PROVE  ConnFor(c)'
BY DEF Same, ConnFor, BatchFor, WrittenFor, Unwritten, Serving

LEMMA OneConnection ==
    ASSUME NEW c \in Clients, BatchInv, ToldIsWritten, ConnFor(c)',
           \A d \in Clients \ {c} : Same(d)
    PROVE  (BatchInv /\ ToldIsWritten)'
BY ByConnection, SameConnection

\* A thread that no longer serves, and one that serves a new connection.
LEMMA NotServing ==
    ASSUME NEW c \in Clients, ~Serving(c)'
    PROVE  ConnFor(c)'
BY DEF ConnFor, BatchFor, WrittenFor, Serving, ServingStates

\* The values to write of a batch of one.
LEMMA OneValue ==
    ASSUME NEW c \in Clients, NEW e \in Value \cup {Reply}, batch'[c] = <<e>>
    PROVE  /\ batch'[c] # <<>>
           /\ \A t : Unwritten(c, t)' = IF e # Reply /\ e.topic = t THEN {1} ELSE {}
           /\ batch'[c][1] = e
BY DEF Unwritten

LEMMA NoValue ==
    /\ \A c \in Clients : \A t : batch[c] = <<>> => Unwritten(c, t) = {}
    /\ \A c \in Clients : \A t : batch'[c] = <<>> => Unwritten(c, t)' = {}
BY DEF Unwritten

\* What a connection that receives a message knows.
LEMMA Receiving ==
    ASSUME NEW c \in Clients, ConnFor(c), peer[c] \in {"recv", "status", "broadcast"}
    PROVE  /\ Serving(c) /\ batch[c] = <<>>
           /\ \A t \in Topics : told[c][t] # None => seen[c][t] = told[c][t]
BY NoValue DEF ConnFor, BatchFor, WrittenFor, Serving, ServingStates

LEMMA HalfRead ==
    ASSUME NEW c \in Clients, ConnFor(c)
    PROVE  peer[c] \in {"recv", "broadcast", "write"} => half[c] = None
BY DEF ConnFor, BatchFor

LEMMA ReplyOnly ==
    ASSUME NEW c \in Clients, ConnFor(c), peer[c] \in {"recv", "status", "broadcast"},
           peer'[c] = "write", batch'[c] = <<Reply>>, half'[c] = None, seen'[c] = seen[c],
           \A t \in Topics : told'[c][t] \in {told[c][t], None}
    PROVE  ConnFor(c)'
<1>1. batch'[c] # <<>> /\ \A t : Unwritten(c, t)' = {}
  BY OneValue
<1>2. \A t \in Topics : told'[c][t] # None => seen'[c][t] = told'[c][t]
  BY Receiving
<1> QED
  BY <1>1, <1>2 DEF ConnFor, BatchFor, WrittenFor

\* The value of one topic is recorded and is all that is to be written.
LEMMA OneTold ==
    ASSUME TypeOK, NEW c \in Clients, ConnFor(c), peer[c] \in {"recv", "status"},
           NEW t \in Topics, NEW version \in Statuses, Changed(c, t, version),
           peer'[c] = "write", batch'[c] = <<[topic |-> t, version |-> version]>>,
           seen'[c] = seen[c], half'[c] = None
    PROVE  ConnFor(c)'
<1> DEFINE e == [topic |-> t, version |-> version]
<1>1. e \in Value /\ e # Reply /\ e.topic = t /\ e.version = version
  BY Values DEF Reply
<1>2. \A u \in Topics : told'[c][u] = IF u = t THEN version ELSE told[c][u]
  BY DEF Changed, TypeOK
<1>3. /\ batch'[c] # <<>> /\ batch'[c][1] = e
      /\ \A u : Unwritten(c, u)' = IF t = u THEN {1} ELSE {}
  BY <1>1, OneValue
<1>4. \A u \in Topics : told[c][u] # None => seen[c][u] = told[c][u]
  BY Receiving
<1> QED
  BY <1>1, <1>2, <1>3, <1>4 DEF ConnFor, BatchFor, WrittenFor

\* A peer thread changes its own connection only.
LEMMA PeerAlone ==
    ASSUME TypeOK, NEW c \in Clients, Peer(c)
    PROVE  \A d \in Clients \ {c} : Same(d)
BY DEF Peer, Same, TypeOK, Subscribe, SubscribeScript, Subscribed, ReadScript, ReadChain,
       Unsubscribe, Broadcast, AskForUpdate, Read, Finish,
       UpdateHeader, UpdateScript, UpdateFails, Updated, WriteValue, WriteFails, Shutdown,
       JoinReader, Go, Write, Changed, Replied, peerVars

LEMMA PeerKeeps ==
    ASSUME TypeOK, BatchInv, ToldIsWritten, NEW c \in Clients, Peer(c)
    PROVE  (BatchInv /\ ToldIsWritten)'
<1> USE DEF peerVars
<1>0. ConnFor(c)
  BY ByConnection
<1>a. \A d \in Clients \ {c} : Same(d)
  BY PeerAlone
<1>1. CASE Subscribe(c)
  <2>1. Header \in Topics /\ now[Header] \in Statuses
    BY Values DEF TypeOK, Topics
  <2>2. ConnFor(c)'
    <3>1. /\ peer[c] = "recv" /\ peer'[c] = "write" /\ seen'[c] = seen[c] /\ half' = half
          /\ batch'[c] = <<[topic |-> Header, version |-> now[Header]]>>
          /\ Changed(c, Header, now[Header])
      BY <1>1 DEF Subscribe, Receives, Write, Go, TypeOK
    <3>2. half'[c] = None
      BY <3>1, <1>0, HalfRead
    <3> QED
      BY <3>1, <3>2, <1>0, <2>1, OneTold
  <2> QED
    BY <2>2, <1>a, OneConnection
<1>11. CASE SubscribeScript(c)
  <2>1. /\ peer[c] = "recv" /\ peer'[c] = "status" /\ half'[c] # None
        /\ UNCHANGED <<told, batch, seen>>
    <3>1. PICK s \in Scripts : half' = [half EXCEPT ![c] = [topic |-> s, version |-> now[s]]]
      BY <1>11 DEF SubscribeScript, ReadChain
    <3>2. now[s] \in Nat
      BY DEF TypeOK, Topics, Versions
    <3>3. half'[c] # None
      BY <3>1, <3>2, NoneAssumption DEF TypeOK
    <3> QED
      BY <1>11, <3>3 DEF SubscribeScript, Receives, Go, TypeOK
  <2>2. ConnFor(c)'
    <3>1. /\ peer'[c] = "status" /\ half'[c] # None /\ batch[c] = <<>>
          /\ \A t \in Topics : told[c][t] # None => seen[c][t] = told[c][t]
      BY <2>1, <1>0, Receiving
    <3>2. BatchFor(c)'
      BY <3>1, <2>1 DEF BatchFor
    <3>3. WrittenFor(c)'
      BY <3>1, <2>1, NoValue DEF WrittenFor
    <3> QED
      BY <3>2, <3>3 DEF ConnFor
  <2> QED
    BY <2>2, <1>a, OneConnection
<1>12. CASE Subscribed(c)
  <2>1. peer[c] = "status" /\ half[c] # None /\ seen' = seen /\ half'[c] = None
    BY <1>12 DEF Subscribed, BatchInv, TypeOK
  <2>2. CASE Replied(c) /\ UNCHANGED told
    <3>a. peer'[c] = "write" /\ batch'[c] = <<Reply>>
      BY <2>2 DEF Replied, Write, Go, TypeOK
    <3>1. ConnFor(c)'
      BY <2>1, <2>2, <3>a, <1>0, ReplyOnly
    <3> QED
      BY <3>1, <1>a, OneConnection
  <2>3. ASSUME NEW status \in Status(c),
               Changed(c, half[c].topic, status),
               Write(c, <<[topic |-> half[c].topic, version |-> status]>>)
        PROVE  (BatchInv /\ ToldIsWritten)'
    <3>1. half[c].topic \in Topics /\ status \in Statuses
      BY <2>1, StatusTypes
    <3>2. ConnFor(c)'
      <4>1. /\ peer'[c] = "write"
            /\ batch'[c] = <<[topic |-> half[c].topic, version |-> status]>>
        BY <2>3 DEF Write, Go, TypeOK
      <4> QED
        BY <2>1, <2>3, <3>1, <4>1, <1>0, OneTold
    <3> QED
      BY <3>2, <1>a, OneConnection
  <2> QED
    BY <1>12, <2>2, <2>3 DEF Subscribed
<1>13. CASE ReadScript(c)
  <2>1. /\ peer[c] = "update" /\ half'[c].topic \in todo[c]
        /\ UNCHANGED <<peer, told, todo, batch, seen>>
    BY <1>13 DEF ReadScript, ReadChain, TypeOK
  <2>2. ConnFor(c)'
    BY <2>1, <1>0 DEF ConnFor, BatchFor, WrittenFor, Unwritten, Serving
  <2> QED
    BY <2>2, <1>a, OneConnection
<1>2. CASE Unsubscribe(c)
  <2>1. \A t \in Topics : told'[c][t] \in {told[c][t], None}
    <3>1. Head(chan[c]).topic \in Topics
      BY <1>2, Chans, Messages DEF Unsubscribe, Receives, Topics
    <3> QED
      BY <1>2, <3>1 DEF Unsubscribe, Changed, TypeOK
  <2>2. ConnFor(c)'
    <3>1. /\ peer[c] = "recv" /\ peer'[c] = "write" /\ batch'[c] = <<Reply>>
          /\ seen'[c] = seen[c] /\ half' = half
      BY <1>2 DEF Unsubscribe, Receives, Replied, Write, Go, TypeOK
    <3>2. half'[c] = None
      BY <3>1, <1>0, HalfRead
    <3> QED
      BY <3>1, <3>2, <2>1, <1>0, ReplyOnly
  <2> QED
    BY <2>2, <1>a, OneConnection
<1>3. CASE Broadcast(c)
  <2>0. peer[c] = "recv" /\ UNCHANGED <<told, todo, half, seen>> /\ half'[c] = None
    <3>1. peer[c] = "recv" /\ UNCHANGED <<told, todo, half, seen>>
      BY <1>3 DEF Broadcast, Receives
    <3> QED
      BY <3>1, <1>0, HalfRead
  <2>1. CASE Go(c, "broadcast") /\ UNCHANGED batch
    <3>1. ConnFor(c)'
      <4>1. /\ peer'[c] = "broadcast" /\ batch'[c] = <<>> /\ batch[c] = <<>>
            /\ \A t \in Topics : told[c][t] # None => seen[c][t] = told[c][t]
        BY <2>0, <2>1, <1>0, Receiving DEF Go, TypeOK
      <4>2. BatchFor(c)'
        BY <4>1, <2>0 DEF BatchFor
      <4>3. WrittenFor(c)'
        BY <4>1, <2>0, NoValue DEF WrittenFor
      <4> QED
        BY <4>2, <4>3 DEF ConnFor
    <3> QED
      BY <3>1, <1>a, OneConnection
  <2>2. CASE Replied(c)
    <3>1. peer'[c] = "write" /\ batch'[c] = <<Reply>>
      BY <2>2 DEF Replied, Write, Go, TypeOK
    <3>2. ConnFor(c)'
      BY <2>0, <3>1, <1>0, ReplyOnly
    <3> QED
      BY <3>2, <1>a, OneConnection
  <2> QED
    BY <1>3, <2>1, <2>2 DEF Broadcast
<1>4. CASE AskForUpdate(c)
  <2>1. /\ peer[c] \in {"recv", "broadcast"} /\ peer'[c] = "write" /\ batch'[c] = <<Reply>>
        /\ UNCHANGED <<told, seen, half>>
    BY <1>4 DEF AskForUpdate, Replied, Write, Go, TypeOK
  <2>2. half'[c] = None
    BY <2>1, <1>0, HalfRead
  <2>3. ConnFor(c)'
    BY <2>1, <2>2, <1>0, ReplyOnly
  <2> QED
    BY <2>3, <1>a, OneConnection
<1>5. CASE Read(c)
  <2>1. /\ peer[c] \in {"recv", "broadcast"} /\ peer'[c] = "write" /\ batch'[c] = <<Reply>>
        /\ UNCHANGED <<told, seen, half>>
    BY <1>5 DEF Read, Receives, Replied, Write, Go, TypeOK
  <2>2. half'[c] = None
    BY <2>1, <1>0, HalfRead
  <2>3. ConnFor(c)'
    BY <2>1, <2>2, <1>0, ReplyOnly
  <2> QED
    BY <2>3, <1>a, OneConnection
<1>6. CASE Finish(c) \/ UpdateFails(c) \/ WriteFails(c) \/ Shutdown(c) \/ JoinReader(c)
  <2>1. ~Serving(c)'
    BY <1>6 DEF Finish, UpdateFails, WriteFails, Shutdown, JoinReader, Go, TypeOK,
        Serving, ServingStates
  <2> QED
    BY <2>1, <1>a, NotServing, OneConnection
<1>7. CASE UpdateHeader(c)
  <2> DEFINE e == [topic |-> Header, version |-> now[Header]]
  <2>0. /\ Header \in Topics /\ e \in Value /\ e # Reply
        /\ peer[c] = "recv" /\ peer'[c] = "update" /\ seen'[c] = seen[c]
        /\ todo'[c] \subseteq Scripts /\ half'[c] = None
    <3>1. Header \in Topics /\ now[Header] \in Versions
      BY DEF Topics, TypeOK
    <3>2. peer[c] = "recv" /\ half' = half
      BY <1>7 DEF UpdateHeader, Receives
    <3>3. half'[c] = None
      BY <3>2, <1>0, HalfRead
    <3> QED
      BY <1>7, <3>1, <3>3, Values DEF UpdateHeader, Receives, Reply, Go, TypeOK
  <2>1. batch[c] = <<>> /\ \A u \in Topics : told[c][u] # None => seen[c][u] = told[c][u]
    BY <1>0, <2>0, Receiving
  <2>2. CASE UNCHANGED <<told, batch>>
    <3>1. ConnFor(c)'
      BY <2>0, <2>1, <2>2, NoValue DEF ConnFor, BatchFor, WrittenFor
    <3> QED
      BY <3>1, <1>a, OneConnection
  <2>3. CASE Changed(c, Header, now[Header]) /\ batch' = [batch EXCEPT ![c] = <<e>>]
    <3>1. batch'[c] = <<e>>
      BY <2>3 DEF TypeOK
    <3>2. \A u \in Topics : told'[c][u] = IF u = Header THEN now[Header] ELSE told[c][u]
      BY <2>3 DEF Changed, TypeOK
    <3>3. batch'[c][1] = e /\ \A u : Unwritten(c, u)' = IF Header = u THEN {1} ELSE {}
      BY <3>1, <2>0, OneValue
    <3>4. \A u \in Topics : u # Header => Unwritten(c, u)' = {} /\ told'[c][u] = told[c][u]
      BY <3>2, <3>3
    <3>5. Unwritten(c, Header)' = {1} /\ told'[c][Header] = now[Header]
          /\ batch'[c][1].version = now[Header]
      BY <2>0, <3>2, <3>3
    <3>6. WrittenFor(c)'
      BY <2>0, <2>1, <3>4, <3>5 DEF WrittenFor
    <3>7. \A u \in todo'[c] : u \in Topics /\ u # Header
      BY <2>0, TopicsAssumption DEF Topics
    <3>8. BatchFor(c)'
      BY <2>0, <3>4, <3>7 DEF BatchFor
    <3> QED
      BY <3>6, <3>8, <1>a, OneConnection DEF ConnFor
  <2> QED
    BY <1>7, <2>2, <2>3 DEF UpdateHeader
<1>8. CASE UpdateScript(c)
  <2> PICK s \in Topics : s = half[c].topic
    BY <1>8, StatusTypes DEF UpdateScript
  <2>a. PICK status \in Status(c) :
           /\ todo' = [todo EXCEPT ![c] = @ \ {s}]
           /\ Changed(c, s, status)
           /\ batch' = [batch EXCEPT ![c] =
                           IF told[c][s] = status THEN @
                           ELSE Append(@, [topic |-> s, version |-> status])]
    BY <1>8 DEF UpdateScript
  <2> DEFINE e == [topic |-> s, version |-> status]
  <2>0. /\ s \in Topics /\ e \in Value /\ e # Reply /\ status # None
        /\ e.topic = s /\ e.version = status /\ half'[c] = None
        /\ peer[c] = "update" /\ peer'[c] = "update" /\ seen'[c] = seen[c] /\ Serving(c)
        /\ todo'[c] = todo[c] \ {s} /\ s \in todo[c]
    <3>1. /\ s \in Topics /\ status # None /\ e \in Value
          /\ peer[c] = "update" /\ half[c] # None
      BY <1>8, StatusTypes DEF UpdateScript
    <3> QED
      BY <1>8, <2>a, <3>1 DEF UpdateScript, Reply, TypeOK, Serving, ServingStates, BatchInv
  <2>1. \A u \in Topics : told'[c][u] = IF u = s THEN status ELSE told[c][u]
    BY <2>a, <2>0 DEF Changed, TypeOK
  <2>2. Unwritten(c, s) = {} /\ \A u \in todo[c] : Unwritten(c, u) = {}
    BY <1>0, <2>0 DEF ConnFor, BatchFor
  <2>3. CASE told[c][s] = status
    <3>1. batch'[c] = batch[c]
      BY <2>a, <2>3 DEF TypeOK
    <3>2. \A u : Unwritten(c, u)' = Unwritten(c, u)
      BY <3>1 DEF Unwritten
    <3>3. ConnFor(c)'
      BY <1>0, <2>0, <2>1, <2>2, <2>3, <3>1, <3>2 DEF ConnFor, BatchFor, WrittenFor
    <3> QED
      BY <3>3, <1>a, OneConnection
  <2>4. CASE told[c][s] # status
    <3>1. batch'[c] = Append(batch[c], e) /\ batch[c] \in Seq(Value \cup {Reply})
      BY <2>a, <2>4 DEF TypeOK
    <3> HIDE DEF e
    <3>2. \A i \in DOMAIN batch[c] : i \in DOMAIN batch'[c] /\ batch'[c][i] = batch[c][i]
      BY <3>1
    <3>3. /\ DOMAIN batch'[c] = DOMAIN batch[c] \cup {Len(batch[c]) + 1}
          /\ batch'[c][Len(batch[c]) + 1] = e
      BY <3>1
    <3>4. \A u : u # s => Unwritten(c, u)' = Unwritten(c, u)
      <4>1. e.topic = s
        BY <2>0
      <4> QED
        BY <3>2, <3>3, <4>1 DEF Unwritten
    <3>5. Unwritten(c, s)' = {Len(batch[c]) + 1}
      BY <2>0, <2>2, <3>2, <3>3 DEF Unwritten
    <3>6. \A u \in Topics : u # s => \A i \in Unwritten(c, u) : batch'[c][i] = batch[c][i]
      BY <3>2 DEF Unwritten
    <3>7. BatchFor(c)'
      BY <2>0, <2>2, <3>4 DEF BatchFor
    <3>8. WrittenFor(c)'
      <4>1. Unwritten(c, s)' # {} /\ \A i \in Unwritten(c, s)' : batch'[c][i].version = status
        BY <2>0, <3>3, <3>5
      <4>2. ASSUME NEW u \in Topics, u # s, told[c][u] # None
            PROVE  IF Unwritten(c, u)' = {}
                   THEN seen'[c][u] = told[c][u]
                   ELSE \A i \in Unwritten(c, u)' : batch'[c][i].version = told[c][u]
        <5>1. IF Unwritten(c, u) = {}
              THEN seen[c][u] = told[c][u]
              ELSE \A i \in Unwritten(c, u) : batch[c][i].version = told[c][u]
          BY <1>0, <2>0, <4>2 DEF ConnFor, WrittenFor
        <5> QED
          BY <5>1, <4>2, <2>0, <3>4, <3>6
      <4> QED
        BY <2>1, <4>1, <4>2 DEF WrittenFor
    <3> QED
      BY <3>7, <3>8, <1>a, OneConnection DEF ConnFor
  <2> QED
    BY <2>3, <2>4
<1>9. CASE Updated(c)
  <2>1. /\ peer'[c] = (IF batch[c] = <<>> THEN "recv" ELSE "write") /\ Serving(c)
        /\ told'[c] = told[c] /\ seen'[c] = seen[c] /\ batch'[c] = batch[c]
        /\ half'[c] = half[c] /\ peer[c] = "update" /\ todo[c] = {}
    BY <1>9 DEF Updated, Go, TypeOK, Serving, ServingStates
  <2>2. \A t : Unwritten(c, t)' = Unwritten(c, t)
    BY <2>1 DEF Unwritten
  <2>3. ConnFor(c)'
    <3>1. half'[c] = None
      BY <1>0, <2>1 DEF ConnFor, BatchFor
    <3>2. BatchFor(c)'
      BY <2>1, <3>1 DEF BatchFor
    <3>3. WrittenFor(c)'
      BY <1>0, <2>1, <2>2 DEF ConnFor, WrittenFor
    <3> QED
      BY <3>2, <3>3 DEF ConnFor
  <2> QED
    BY <2>3, <1>a, OneConnection
<1>10. CASE WriteValue(c)
  <2> DEFINE e == Head(batch[c])
  <2>0. /\ peer[c] = "write" /\ Serving(c) /\ batch[c] # <<>> /\ batch[c] \in Seq(Value \cup {Reply})
        /\ batch'[c] = Tail(batch[c]) /\ told'[c] = told[c]
        /\ peer'[c] = (IF Len(batch[c]) = 1 THEN "recv" ELSE "write")
    BY <1>10 DEF WriteValue, Go, TypeOK, Serving, ServingStates, BatchInv
  <2>1. \A i \in DOMAIN batch'[c] : i + 1 \in DOMAIN batch[c] /\ batch'[c][i] = batch[c][i + 1]
    BY <2>0
  <2>2. \A i \in DOMAIN batch[c] : i = 1 \/ (i - 1 \in DOMAIN batch'[c] /\ batch'[c][i - 1] = batch[c][i])
    BY <2>0
  <2>3. 1 \in DOMAIN batch[c] /\ batch[c][1] = e /\ e \in Value \cup {Reply}
    BY <2>0
  <2>4. \A t \in Topics : seen'[c][t] = IF e # Reply /\ e.topic = t THEN e.version ELSE seen[c][t]
    BY <1>10, <2>3, Values DEF WriteValue, TypeOK
  <2>5. ASSUME NEW t \in Topics, told[c][t] # None, Unwritten(c, t)' = {}
        PROVE  seen'[c][t] = told[c][t]
    <3>1. CASE e # Reply /\ e.topic = t
      <4>1. 1 \in Unwritten(c, t)
        BY <3>1, <2>3 DEF Unwritten
      <4>2. e.version = told[c][t]
        BY <4>1, <1>0, <2>0, <2>3, <2>5 DEF ConnFor, WrittenFor
      <4> QED
        BY <4>2, <3>1, <2>4
    <3>2. CASE ~(e # Reply /\ e.topic = t)
      <4>1. Unwritten(c, t) = {}
        BY <3>2, <2>2, <2>3, <2>5 DEF Unwritten
      <4>2. seen[c][t] = told[c][t]
        BY <4>1, <1>0, <2>0, <2>5 DEF ConnFor, WrittenFor
      <4> QED
        BY <4>2, <3>2, <2>4
    <3> QED
      BY <3>1, <3>2
  <2>6. ASSUME NEW t \in Topics, told[c][t] # None, NEW i \in Unwritten(c, t)'
        PROVE  batch'[c][i].version = told[c][t]
    <3>1. i + 1 \in Unwritten(c, t) /\ batch'[c][i] = batch[c][i + 1]
      BY <2>1, <2>6 DEF Unwritten
    <3> QED
      BY <3>1, <1>0, <2>0, <2>6 DEF ConnFor, WrittenFor
  <2>7. WrittenFor(c)'
    BY <2>0, <2>5, <2>6 DEF WrittenFor
  <2>8. BatchFor(c)'
    <3>0. half'[c] = None
      BY <1>10, <1>0, HalfRead DEF WriteValue
    <3>1. Len(batch[c]) = 1 => Tail(batch[c]) = <<>>
      BY <2>0, LastOne
    <3>2. Len(batch[c]) # 1 => Tail(batch[c]) # <<>>
      BY <2>0, LastOne
    <3> QED
      BY <2>0, <3>0, <3>1, <3>2 DEF BatchFor
  <2> QED
    BY <2>7, <2>8, <1>a, OneConnection DEF ConnFor
<1> QED
  BY <1>1, <1>2, <1>3, <1>4, <1>5, <1>6, <1>7, <1>8, <1>9, <1>10, <1>11, <1>12,
      <1>13 DEF Peer

\* The other actions leave every connection alone, or start one.
LEMMA OthersKeep ==
    ASSUME TypeOK, BatchInv, ToldIsWritten,
           \/ Main \/ Notifier \/ Rpc \/ UNCHANGED vars
           \/ \E c \in Clients : \/ Accept(c) \/ ReadLine(c) \/ Reader(c)
                                 \/ Stall(c) \/ Resume(c) \/ Leave(c)
    PROVE  (BatchInv /\ ToldIsWritten)'
<1>1. CASE Spawn
  <2>1. PICK c \in Clients : c = Head(accepted)
    BY <1>1, Queue DEF Spawn
  <2>2. /\ peer'[c] = "recv" /\ batch'[c] = <<>> /\ half'[c] = None
        /\ \A t \in Topics : told'[c][t] = None
        /\ \A d \in Clients \ {c} : Same(d)
    BY <1>1, <2>1 DEF Spawn, TypeOK, Same
  <2>3. ConnFor(c)'
    <3>1. BatchFor(c)'
      BY <2>2 DEF BatchFor
    <3>2. WrittenFor(c)'
      BY <2>2 DEF WrittenFor
    <3> QED
      BY <3>1, <3>2 DEF ConnFor
  <2> QED
    BY <2>1, <2>2, <2>3, OneConnection
<1>2. CASE UNCHANGED peerVars
  <2>1. \A c \in Clients : Same(c)
    BY <1>2 DEF peerVars, Same
  <2> QED
    BY <2>1, ByConnection, SameConnection
<1>3. Main \/ Notifier \/ Rpc => Spawn \/ UNCHANGED peerVars
  BY DEF Main, Update, Notify, Drop, Joined, Notifier, NotifyClients, NotifyExit, Rpc,
         StopAccepting, SendDone, Closed, JoinPeers
<1>4. ASSUME NEW c \in Clients,
             \/ Accept(c) \/ ReadLine(c) \/ Reader(c) \/ Stall(c) \/ Resume(c) \/ Leave(c)
      PROVE  UNCHANGED peerVars
  BY <1>4 DEF Accept, ReadLine, Reader, ReadEnd, ReaderSend, ReaderDone, Stall, Resume,
      Leave,
              Client
<1> QED
  BY <1>1, <1>2, <1>3, <1>4 DEF vars

-----------------------------------------------------------------------------
LEMMA LineKeeps ==
    ASSUME TypeOK, LineInv, [Next]_vars
    PROVE  LineInv'
<1> USE DEF readerVars
<1>1. CASE Spawn
  <2>1. Head(accepted) \in Clients
    BY <1>1, Queue DEF Spawn
  <2> QED
    BY <1>1, <2>1 DEF Spawn, LineInv, TypeOK
<1>2. CASE UNCHANGED readerVars
  BY <1>2 DEF LineInv
<1>3. Main \/ Notifier \/ Rpc => Spawn \/ UNCHANGED readerVars
  BY DEF Main, Update, Notify, Drop, Joined, Notifier, NotifyClients, NotifyExit, Rpc,
         StopAccepting, SendDone, Closed, JoinPeers
<1>4. ASSUME NEW c \in Clients,
             Accept(c) \/ Peer(c) \/ Stall(c) \/ Resume(c) \/ Leave(c)
      PROVE  UNCHANGED readerVars
  BY <1>4 DEF Accept, Stall, Resume, Leave, Client, Peer, Subscribe, SubscribeScript,
      Subscribed,
              ReadScript, Unsubscribe, Broadcast, AskForUpdate, Read, Finish, UpdateHeader, UpdateScript, UpdateFails, Updated,
              WriteValue, WriteFails, Shutdown, JoinReader
<1>5. ASSUME NEW c \in Clients, ReadLine(c) PROVE LineInv'
  <2>1. CASE \E r \in Request : line' = [line EXCEPT ![c] = r]
             /\ reader' = [reader EXCEPT ![c] = "send"]
    BY <2>1 DEF LineInv, TypeOK
  <2>2. CASE reader' = [reader EXCEPT ![c] = "done"] /\ UNCHANGED line
    BY <2>2 DEF LineInv, TypeOK
  <2> QED
    BY <1>5, <2>1, <2>2 DEF ReadLine
<1>6. ASSUME NEW c \in Clients, Reader(c) PROVE LineInv'
  BY <1>6 DEF LineInv, TypeOK, Reader, ReadEnd, ReaderSend, ReaderDone
<1> QED
  BY <1>1, <1>2, <1>3, <1>4, <1>5, <1>6 DEF Next, vars

LEMMA EndKeeps ==
    ASSUME TypeOK, EndInv, [Next]_vars
    PROVE  EndInv'
<1> USE DEF mainVars, acceptVars, clientVars, readerVars, peerVars
<1>1. CASE Main \/ Notifier \/ UNCHANGED vars
  BY <1>1 DEF vars, Main, Update, Notify, Drop, Joined, Notifier, NotifyClients,
      NotifyExit, EndInv
<1>2. CASE Spawn
  <2>1. Head(accepted) \in Clients
    BY <1>2, Queue DEF Spawn
  <2>2. main # "stopped" /\ rpc = "accept" /\ UNCHANGED <<main, rpc>>
    BY <1>2 DEF Spawn, Running
  <2> QED
    BY <1>2, <2>1, <2>2 DEF Spawn, EndInv, TypeOK
<1>3. CASE StopAccepting \/ (\E c \in Clients : SendDone(c)) \/ Closed \/ JoinPeers
  BY <1>3 DEF StopAccepting, SendDone, Closed, JoinPeers, EndInv, Running
<1>4. ASSUME NEW c \in Clients, Accept(c) \/ Stall(c) \/ Resume(c) \/ Leave(c) PROVE EndInv'
  BY <1>4 DEF Accept, Stall, Resume, Leave, Client, EndInv
<1>5. ASSUME NEW c \in Clients, ReadLine(c) \/ Reader(c) PROVE EndInv'
  <2>1. /\ reader[c] \notin {"none", "ended"} /\ UNCHANGED <<main, rpc, peer>>
        /\ \A d \in Clients \ {c} : reader'[d] = reader[d]
    BY <1>5 DEF ReadLine, Reader, ReadEnd, ReaderSend, ReaderDone, TypeOK
  <2> QED
    BY <2>1 DEF EndInv
<1>6. ASSUME NEW c \in Clients, Peer(c) PROVE EndInv'
  <2>1. /\ peer[c] \notin {"none", "ended"} /\ UNCHANGED <<main, rpc, reader>>
        /\ \A d \in Clients \ {c} : peer'[d] = peer[d]
        /\ peer'[c] # "none"
        /\ peer'[c] = "ended" => reader[c] = "ended"
    BY <1>6 DEF Peer, Subscribe, SubscribeScript, Subscribed, ReadScript, Unsubscribe,
                Broadcast, AskForUpdate, Read, Finish,
                UpdateHeader, UpdateScript, UpdateFails, Updated, WriteValue, WriteFails, Shutdown,
                JoinReader, Receives, Go, Write, Replied, TypeOK
  <2> QED
    BY <2>1 DEF EndInv
<1> QED
  BY <1>1, <1>2, <1>3, <1>4, <1>5, <1>6 DEF Next, Rpc

LEMMA NextInv == IInv /\ [Next]_vars => IInv'
<1> SUFFICES ASSUME IInv, [Next]_vars PROVE IInv'
  OBVIOUS
<1>0. TypeOK /\ LineInv /\ BatchInv /\ ToldIsWritten /\ EndInv
  BY DEF IInv
<1>1. TypeOK'
  <2>1. CASE UNCHANGED vars
    BY <1>0, <2>1 DEF TypeOK, vars, mainVars, acceptVars, clientVars, readerVars, peerVars
  <2> QED
    BY <1>0, <2>1, TypeMain, TypeClient, TypePeer DEF Next
<1>2. LineInv' /\ EndInv'
  BY <1>0, LineKeeps, EndKeeps
<1>3. (BatchInv /\ ToldIsWritten)'
  BY <1>0, PeerKeeps, OthersKeep DEF Next
<1> QED
  BY <1>1, <1>2, <1>3 DEF IInv

LEMMA Invariance == Spec => []IInv
BY InitInv, NextInv, PTL DEF Spec

-----------------------------------------------------------------------------
\* The variables have their types.
THEOREM TypeCorrect == Spec => []TypeOK
<1>1. IInv => TypeOK
  BY DEF IInv
<1> QED
  BY <1>1, Invariance, PTL

\* What a connection records as told to its client was written, or is about
\* to be (update_subscriptions, send_values).
THEOREM ToldAlwaysWritten == Spec => []ToldIsWritten
<1>1. IInv => ToldIsWritten
  BY DEF IInv
<1> QED
  BY <1>1, Invariance, PTL

\* Once the main thread has dropped the server no thread of a connection is
\* left (RPC::drop).
THEOREM NobodyLeft == Spec => []NobodyOutlivesServer
<1>1. IInv => NobodyOutlivesServer
  BY DEF IInv, EndInv, NobodyOutlivesServer
<1> QED
  BY <1>1, Invariance, PTL

-----------------------------------------------------------------------------
(* Shutdown: what the threads wait for is there.                             *)

DoneIn(c) == \E i \in DOMAIN chan[c] : chan[c][i] = Done

\* The end of the connections is on its way to the rpc thread; the notifier
\* knows every connection that is served, until Done is sent to it; a peer
\* thread has a reader.
WaitInv ==
    /\ main = "joining" /\ rpc = "accept" =>
          exit \/ \E i \in DOMAIN accepted : accepted[i] = None
    /\ rpc = "accept" => \A c \in Clients : Serving(c) => c \in senders
    /\ rpc = "join" => toClose = {}
    /\ rpc \in {"closing", "join"} =>
          \A c \in Clients \ toClose : Serving(c) => DoneIn(c)
    /\ \A c \in Clients : reader[c] = "none" => peer[c] = "none"

\* Done stays in a channel that is served.
LEMMA DoneSurvives ==
    ASSUME NEW c \in Clients, chan[c] \in Seq(Message), DoneIn(c),
           \/ chan'[c] = chan[c]
           \/ \E m \in Message : chan'[c] = Append(chan[c], m)
           \/ chan[c] # <<>> /\ chan'[c] = Tail(chan[c]) /\ Head(chan[c]) # Done
    PROVE  DoneIn(c)'
<1> PICK i \in DOMAIN chan[c] : chan[c][i] = Done
  BY DEF DoneIn
<1>1. CASE chan'[c] = chan[c]
  BY <1>1 DEF DoneIn
<1>2. CASE \E m \in Message : chan'[c] = Append(chan[c], m)
  <2>1. i \in DOMAIN chan'[c] /\ chan'[c][i] = Done
    BY <1>2
  <2> QED
    BY <2>1 DEF DoneIn
<1>3. CASE chan[c] # <<>> /\ chan'[c] = Tail(chan[c]) /\ Head(chan[c]) # Done
  <2>1. i # 1
    BY <1>3
  <2>2. i - 1 \in DOMAIN chan'[c] /\ chan'[c][i - 1] = Done
    BY <1>3, <2>1
  <2> QED
    BY <2>2 DEF DoneIn
<1> QED
  BY <1>1, <1>2, <1>3

LEMMA DonePushed ==
    ASSUME TypeOK, NEW c \in Clients, Push(c, Done)
    PROVE  DoneIn(c)'
<1>1. chan'[c] = Append(chan[c], Done) /\ chan[c] \in Seq(Message)
  BY DEF Push, TypeOK
<1>2. Len(chan[c]) + 1 \in DOMAIN chan'[c] /\ chan'[c][Len(chan[c]) + 1] = Done
  BY <1>1
<1> QED
  BY <1>2 DEF DoneIn

\* What a step does to a connection: its channel is left alone, gets a message
\* or loses its first one, which is Done only if the connection ends.
ChannelStep(c) ==
    /\ Serving(c)' => Serving(c)
    /\ \/ chan'[c] = chan[c]
       \/ \E m \in Message : chan'[c] = Append(chan[c], m)
       \/ chan[c] # <<>> /\ chan'[c] = Tail(chan[c]) /\ Head(chan[c]) # Done
       \/ ~Serving(c)'
    /\ reader[c] # "none" => reader'[c] # "none"
    /\ peer'[c] = "none" <=> peer[c] = "none"

LEMMA ReaderChannel ==
    ASSUME TypeOK, LineInv, NEW c \in Clients,
           \/ Accept(c) \/ ReadLine(c) \/ Reader(c) \/ Stall(c) \/ Resume(c) \/ Leave(c)
    PROVE  \A d \in Clients : ChannelStep(d)
<1>1. UNCHANGED peer
  BY DEF Accept, ReadLine, Reader, ReadEnd, ReaderSend, ReaderDone, Stall, Resume, Leave,
         Client, peerVars
<1>2. \A d \in Clients : reader[d] # "none" => reader'[d] # "none"
  BY DEF Accept, ReadLine, Reader, ReadEnd, ReaderSend, ReaderDone, Stall, Resume, Leave,
         Client, readerVars, TypeOK
<1>3. \/ UNCHANGED chan
      \/ \E m \in Message : Push(c, m)
  BY Messages DEF Accept, ReadLine, Reader, ReadEnd, ReaderSend, ReaderDone, Stall, Resume,
         Leave, Client, LineInv
<1>4. ASSUME NEW d \in Clients
      PROVE  chan'[d] = chan[d] \/ \E m \in Message : chan'[d] = Append(chan[d], m)
  BY <1>3 DEF Push, TypeOK
<1> QED
  BY <1>1, <1>2, <1>4 DEF ChannelStep, Serving

LEMMA PeerChannel ==
    ASSUME TypeOK, NEW c \in Clients, Peer(c)
    PROVE  \A d \in Clients : ChannelStep(d)
<1>1. /\ UNCHANGED reader /\ peer[c] \in ServingStates \cup {"closing", "join"}
      /\ \A d \in Clients \ {c} : peer'[d] = peer[d] /\ chan'[d] = chan[d]
      /\ peer'[c] # "none" /\ (Serving(c)' => Serving(c))
  BY DEF Peer, Subscribe, SubscribeScript, Subscribed, ReadScript, Unsubscribe,
         Broadcast, AskForUpdate, Read, Finish, TrySend, Received,
         UpdateHeader, UpdateScript, UpdateFails, Updated, WriteValue, WriteFails, Shutdown,
         JoinReader, Receives, Go, Write, Replied, TypeOK, Serving, ServingStates, readerVars
<1>2. \/ chan'[c] = chan[c]
      \/ \E m \in Message : chan'[c] = Append(chan[c], m)
      \/ chan[c] # <<>> /\ chan'[c] = Tail(chan[c]) /\ Head(chan[c]) # Done
      \/ ~Serving(c)'
  <2>1. CASE Finish(c)
    BY <2>1 DEF Finish, Go, TypeOK, Serving, ServingStates
  <2>2. CASE AskForUpdate(c)
    BY <2>2, Messages DEF AskForUpdate, TrySend, TypeOK
  <2>3. CASE \/ Subscribe(c) \/ SubscribeScript(c) \/ Unsubscribe(c) \/ Broadcast(c)
             \/ Read(c) \/ UpdateHeader(c)
    <3>1. /\ chan[c] # <<>> /\ Received(c)
          /\ Head(chan[c]).kind \in {"subscribe", "unsubscribe", "broadcast", "read", "periodic"}
      BY <2>3 DEF Subscribe, SubscribeScript, Unsubscribe, Broadcast, Read, UpdateHeader,
          Receives
    <3> QED
      BY <3>1 DEF Received, TypeOK, Done
  <2>4. CASE \/ Subscribed(c) \/ ReadScript(c) \/ UpdateScript(c) \/ UpdateFails(c)
             \/ Updated(c) \/ WriteValue(c) \/ WriteFails(c) \/ Shutdown(c)
             \/ JoinReader(c)
    BY <2>4 DEF Subscribed, ReadScript, UpdateScript, UpdateFails, Updated, WriteValue,
        WriteFails, Shutdown, JoinReader
  <2> QED
    BY <2>1, <2>2, <2>3, <2>4 DEF Peer
<1>3. ASSUME NEW d \in Clients \ {c} PROVE ChannelStep(d)
  BY <1>1, <1>3 DEF ChannelStep, Serving
<1>4. ChannelStep(c)
  BY <1>1, <1>2 DEF ChannelStep, ServingStates
<1> QED
  BY <1>3, <1>4

\* A step that leaves the rpc thread where it is.
LEMMA WaitSame ==
    ASSUME TypeOK, WaitInv, \A c \in Clients : ChannelStep(c),
           rpc' = rpc, toClose' = toClose, main' = main, exit' = exit,
           accepted' = accepted \/ \E e \in Clients \cup {None} : accepted' = Append(accepted, e),
           rpc = "accept" => \A c \in senders : Serving(c)' => c \in senders'
    PROVE  WaitInv'
<1>1. main' = "joining" /\ rpc' = "accept" =>
         exit' \/ \E i \in DOMAIN accepted' : accepted'[i] = None
  <2> SUFFICES ASSUME main' = "joining", rpc' = "accept", ~exit'
               PROVE  \E i \in DOMAIN accepted' : accepted'[i] = None
    OBVIOUS
  <2>1. PICK i \in DOMAIN accepted : accepted[i] = None
    BY DEF WaitInv
  <2>2. accepted \in Seq(Clients \cup {None})
    BY DEF TypeOK
  <2>3. i \in DOMAIN accepted' /\ accepted'[i] = None
    BY <2>1, <2>2
  <2> QED
    BY <2>3
<1>2. rpc' = "accept" => \A c \in Clients : Serving(c)' => c \in senders'
  BY DEF WaitInv, ChannelStep
<1>3. rpc' = "join" => toClose' = {}
  BY DEF WaitInv
<1>4. rpc' \in {"closing", "join"} =>
         \A c \in Clients \ toClose' : Serving(c)' => DoneIn(c)'
  <2> SUFFICES ASSUME rpc \in {"closing", "join"}, NEW c \in Clients \ toClose, Serving(c)'
               PROVE  DoneIn(c)'
    OBVIOUS
  <2>1. Serving(c) /\ DoneIn(c)
    BY DEF WaitInv, ChannelStep
  <2> QED
    BY <2>1, DoneSurvives DEF ChannelStep, TypeOK
<1>5. \A c \in Clients : reader'[c] = "none" => peer'[c] = "none"
  BY DEF WaitInv, ChannelStep
<1> QED
  BY <1>1, <1>2, <1>3, <1>4, <1>5 DEF WaitInv

LEMMA WaitKeeps ==
    ASSUME TypeOK, LineInv, WaitInv, [Next]_vars
    PROVE  WaitInv'
<1>1. CASE UNCHANGED vars
  BY <1>1 DEF WaitInv, DoneIn, Serving, vars, mainVars, acceptVars, readerVars, peerVars
<1>2. CASE Update \/ Notify \/ Joined
  BY <1>2 DEF Update, Notify, Joined, WaitInv, DoneIn, Serving, acceptVars, readerVars,
      peerVars
<1>3. CASE Drop
  BY <1>3 DEF Drop, WaitInv, DoneIn, Serving, acceptVars, readerVars, peerVars
<1>4. CASE NotifyClients
  <2>0. Periodic \in Message
    BY Messages
  <2>1. \A c \in Clients : ChannelStep(c)
    BY <1>4, <2>0 DEF NotifyClients, ChannelStep, TrySend, Serving, readerVars, peerVars
  <2>2. \A c \in senders : Serving(c)' => c \in senders'
    BY <1>4 DEF NotifyClients, Retain, Serving, peerVars
  <2> QED
    BY <1>4, <2>1, <2>2, WaitSame DEF NotifyClients
<1>5. CASE NotifyExit
  <2>1. accepted \in Seq(Clients \cup {None})
    BY DEF TypeOK
  <2>2. /\ Len(accepted) + 1 \in DOMAIN accepted'
        /\ accepted'[Len(accepted) + 1] = None
    BY <1>5, <2>1 DEF NotifyExit
  <2> QED
    BY <1>5, <2>2 DEF NotifyExit, WaitInv, DoneIn, Serving, readerVars, peerVars, mainVars
<1>6. CASE Spawn
  <2>1. PICK c \in Clients : c = Head(accepted)
    BY <1>6, Queue DEF Spawn
  <2>2. /\ rpc = "accept" /\ rpc' = "accept" /\ UNCHANGED <<main, exit>>
        /\ senders' = senders \cup {c}
        /\ peer' = [peer EXCEPT ![c] = "recv"] /\ reader' = [reader EXCEPT ![c] = "read"]
    BY <1>6, <2>1 DEF Spawn, mainVars
  <2>3. main' = "joining" => exit' \/ \E i \in DOMAIN accepted' : accepted'[i] = None
    <3> SUFFICES ASSUME main' = "joining", ~exit'
                 PROVE  \E i \in DOMAIN accepted' : accepted'[i] = None
      OBVIOUS
    <3>1. PICK i \in DOMAIN accepted : accepted[i] = None
      BY <2>2 DEF WaitInv
    <3>2. accepted \in Seq(Clients \cup {None}) /\ accepted # <<>>
          /\ Head(accepted) # None /\ accepted' = Tail(accepted)
      BY <1>6 DEF Spawn, TypeOK
    <3>3. i # 1
      BY <3>1, <3>2
    <3>4. i - 1 \in DOMAIN accepted' /\ accepted'[i - 1] = None
      BY <3>1, <3>2, <3>3
    <3> QED
      BY <3>4
  <2>4. \A d \in Clients : Serving(d)' => d \in senders'
    BY <2>2 DEF WaitInv, Serving, TypeOK
  <2>5. \A d \in Clients : reader'[d] = "none" => peer'[d] = "none"
    BY <2>2 DEF WaitInv, TypeOK
  <2> QED
    BY <2>2, <2>3, <2>4, <2>5 DEF WaitInv
<1>7. CASE StopAccepting
  BY <1>7 DEF StopAccepting, WaitInv, Serving, readerVars, peerVars
<1>8. ASSUME NEW c \in Clients, SendDone(c) PROVE WaitInv'
  <2>1. /\ rpc = "closing" /\ rpc' = "closing" /\ toClose' = toClose \ {c}
        /\ UNCHANGED <<peer, reader>>
    BY <1>8 DEF SendDone, peerVars, readerVars
  <2>2. Serving(c)' => DoneIn(c)'
    BY <1>8, <2>1, DonePushed DEF SendDone, Serving
  <2>3. ASSUME NEW d \in Clients \ {c} PROVE DoneIn(d)' <=> DoneIn(d)
    BY <1>8, <2>3 DEF SendDone, Push, DoneIn, TypeOK
  <2>4. \A d \in Clients \ toClose' : Serving(d)' => DoneIn(d)'
    BY <2>1, <2>2, <2>3 DEF WaitInv, Serving
  <2> QED
    BY <2>1, <2>4 DEF WaitInv
<1>9. CASE Closed
  BY <1>9 DEF Closed, WaitInv, DoneIn, Serving, readerVars, peerVars
<1>10. CASE JoinPeers
  BY <1>10 DEF JoinPeers, WaitInv, DoneIn, Serving, readerVars, peerVars
<1>11. ASSUME NEW c \in Clients,
              \/ Accept(c) \/ ReadLine(c) \/ Reader(c) \/ Stall(c) \/ Resume(c) \/ Leave(c)
       PROVE  WaitInv'
  <2>1. \A d \in Clients : ChannelStep(d)
    BY <1>11, ReaderChannel
  <2>2. /\ UNCHANGED <<rpc, toClose, main, exit, senders>>
        /\ accepted' = accepted \/ accepted' = Append(accepted, c)
    BY <1>11 DEF Accept, ReadLine, Reader, ReadEnd, ReaderSend, ReaderDone, Stall, Resume,
        Leave, Client, acceptVars, mainVars
  <2> QED
    BY <2>1, <2>2, WaitSame
<1>12. ASSUME NEW c \in Clients, Peer(c) PROVE WaitInv'
  <2>1. \A d \in Clients : ChannelStep(d)
    BY <1>12, PeerChannel
  <2>2. UNCHANGED <<rpc, toClose, main, exit, accepted, senders>>
    BY <1>12 DEF Peer, Subscribe, SubscribeScript, Subscribed, ReadScript, Unsubscribe,
        Broadcast, AskForUpdate, Read, Finish, UpdateHeader, UpdateScript, UpdateFails,
        Updated, WriteValue, WriteFails, Shutdown, JoinReader, acceptVars, mainVars
  <2> QED
    BY <2>1, <2>2, WaitSame
<1> QED
  BY <1>1, <1>2, <1>3, <1>4, <1>5, <1>6, <1>7, <1>8, <1>9, <1>10, <1>11, <1>12
     DEF Next, Main, Notifier, Rpc

LEMMA Waiting == Spec => []WaitInv
<1>1. Init => WaitInv
  BY DEF Init, WaitInv, Serving, ServingStates
<1>2. IInv /\ WaitInv /\ [Next]_vars => WaitInv'
  BY WaitKeeps DEF IInv
<1> QED
  BY <1>1, <1>2, Invariance, PTL DEF Spec

\* Shutting down, everyone that the main thread waits for can go on, unless its
\* client stopped reading (RPC::start, RPC::drop).
THEOREM ShutdownGoesOn == Spec => []ShutdownNotStuck
<1>1. ASSUME IInv, WaitInv, NEW c \in Clients, Serving(c), chan[c] # <<>> \/ DoneIn(c)
      PROVE  ~Stuck(c)
  <2>1. chan[c] # <<>>
    BY <1>1 DEF DoneIn
  <2>2. client[c] = "stalled" \/ client[c] # "stalled"
    OBVIOUS
  <2> QED
    BY <1>1, <2>1, <2>2 DEF Stuck, PeerGoes, Serving, ServingStates
<1>2. ASSUME IInv, WaitInv PROVE ShutdownNotStuck
  <2> SUFFICES ASSUME main = "joining" PROVE ShutdownNotStuck
    BY DEF ShutdownNotStuck
  <2>1. rpc = "accept" => exit \/ \E i \in DOMAIN accepted : accepted[i] = None
    BY <1>2 DEF WaitInv
  <2>2. ASSUME NEW c \in toClose, Serving(c), ~Room(c) PROVE ~Stuck(c)
    <3>1. c \in Clients /\ chan[c] # <<>>
      BY <1>2, <2>2, SizesAssumption DEF IInv, TypeOK, Room
    <3> QED
      BY <3>1, <1>1, <1>2, <2>2
  <2>3. ASSUME rpc = "join", NEW c \in Clients, peer[c] \notin {"none", "ended"}
        PROVE  ~Stuck(c)
    <3>1. CASE Serving(c)
      <4>1. DoneIn(c)
        BY <1>2, <2>3, <3>1 DEF WaitInv
      <4> QED
        BY <4>1, <1>1, <1>2, <3>1
    <3>2. CASE ~Serving(c)
      <4>1. peer[c] \in {"closing", "join"}
        BY <1>2, <2>3, <3>2 DEF IInv, TypeOK, Serving
      <4>2. reader[c] \in {"read", "send", "done", "ended"}
        BY <1>2, <2>3 DEF WaitInv, IInv, TypeOK
      <4> QED
        BY <3>2, <4>1, <4>2 DEF Stuck, PeerGoes, ReaderGoes
    <3> QED
      BY <3>1, <3>2
  <2> QED
    BY <2>1, <2>2, <2>3 DEF ShutdownNotStuck
<1> QED
  BY <1>2, Invariance, Waiting, PTL

-----------------------------------------------------------------------------
(* The order of what a client sees.                                          *)

\* Versions of a topic, from the oldest to the newest: the one written last,
\* the one recorded as told or read as the confirmed history, the current one.
OrderFor(c) ==
    /\ \A t \in Topics : seen[c][t] \in Nat => seen[c][t] <= now[t]
    /\ \A t \in Topics :
          Serving(c) /\ told[c][t] \in Nat =>
             /\ told[c][t] <= now[t]
             /\ seen[c][t] \in Nat => seen[c][t] <= told[c][t]
    /\ Serving(c) =>
          \A i \in DOMAIN batch[c] :
             batch[c][i] # Reply => told[c][batch[c][i].topic] # None
    /\ half[c] # None =>
          /\ half[c].version <= now[half[c].topic]
          /\ seen[c][half[c].topic] \in Nat => seen[c][half[c].topic] <= half[c].version

OrderInv == \A c \in Clients : OrderFor(c)

\* Versions grow.
Grows == \A t \in Topics : now[t] <= now'[t]

LEMMA NowNumbers == TypeOK => \A t \in Topics : now[t] \in Nat
BY SizesAssumption DEF TypeOK, Versions

LEMMA NowGrows == TypeOK /\ [Next]_vars => Grows
<1> SUFFICES ASSUME TypeOK, [Next]_vars PROVE Grows
  OBVIOUS
<1>1. CASE Update
  <2>1. \E changed \in SUBSET Topics :
           now' = [t \in Topics |-> now[t] + (IF t \in changed THEN 1 ELSE 0)]
    BY <1>1 DEF Update, Moves, Topics
  <2> QED
    BY <2>1, NowNumbers DEF Grows
<1>2. ASSUME NEW c \in Clients, Broadcast(c) PROVE Grows
  <2>1. now' = now \/ \E s \in Scripts : now' = [now EXCEPT ![s] = @ + 1]
    BY <1>2 DEF Broadcast
  <2>2. ASSUME NEW s \in Scripts, now' = [now EXCEPT ![s] = @ + 1] PROVE Grows
    <3>1. \A t \in Topics : now'[t] = IF t = s THEN now[s] + 1 ELSE now[t]
      BY <2>2 DEF TypeOK, Topics
    <3> QED
      BY <3>1, NowNumbers DEF Grows
  <2> QED
    BY <2>1, <2>2, NowNumbers DEF Grows
<1>3. CASE UNCHANGED now
  BY <1>3, NowNumbers DEF Grows
<1>4. Main \/ Notifier \/ Rpc => Update \/ UNCHANGED now
  BY DEF Main, Notify, Drop, Joined, Notifier, NotifyClients, NotifyExit, Rpc, Spawn,
         StopAccepting, SendDone, Closed, JoinPeers, mainVars
<1>5. ASSUME NEW c \in Clients,
             \/ Accept(c) \/ ReadLine(c) \/ Reader(c) \/ Peer(c)
             \/ Stall(c) \/ Resume(c) \/ Leave(c)
      PROVE  Broadcast(c) \/ UNCHANGED now
  BY <1>5 DEF Accept, ReadLine, Reader, ReadEnd, ReaderSend, ReaderDone, Stall, Resume,
      Leave, Client, Peer, Subscribe, SubscribeScript, Subscribed, ReadScript, Unsubscribe,
      AskForUpdate, Read, Finish, UpdateHeader, UpdateScript, UpdateFails, Updated,
      WriteValue, WriteFails, Shutdown, JoinReader, mainVars
<1> QED
  BY <1>1, <1>2, <1>3, <1>4, <1>5 DEF Next, vars, mainVars

\* A history that was read is of a topic.
LEMMA HalfTypes ==
    ASSUME TypeOK, NEW c \in Clients, half[c] # None
    PROVE  half[c].version \in Nat /\ half[c].topic \in Topics
BY SizesAssumption DEF TypeOK, Versions, Topics

\* A connection whose variables stay, whatever becomes of the topics.
LEMMA OrderSame ==
    ASSUME TypeOK, TypeOK', Grows, NEW c \in Clients, OrderFor(c), Same(c)
    PROVE  OrderFor(c)'
<1>1. \A t \in Topics : now[t] \in Nat /\ now'[t] \in Nat /\ now[t] <= now'[t]
  BY NowNumbers DEF Grows, TypeOK, Versions
<1>2. \A t \in Topics : seen'[c][t] \in Nat => seen'[c][t] <= now'[t]
  BY <1>1 DEF OrderFor, Same
<1>3. \A t \in Topics :
          Serving(c)' /\ told'[c][t] \in Nat =>
             /\ told'[c][t] <= now'[t]
             /\ seen'[c][t] \in Nat => seen'[c][t] <= told'[c][t]
  BY <1>1 DEF OrderFor, Same, Serving
<1>4. half'[c] # None =>
          /\ half'[c].version <= now'[half'[c].topic]
          /\ seen'[c][half'[c].topic] \in Nat => seen'[c][half'[c].topic] <= half'[c].version
  <2> SUFFICES ASSUME half[c] # None
               PROVE  /\ half[c].version <= now'[half[c].topic]
                      /\ seen[c][half[c].topic] \in Nat => seen[c][half[c].topic] <= half[c].version
    BY DEF Same
  <2>1. half[c].version \in Nat /\ half[c].topic \in Topics
    BY HalfTypes
  <2> QED
    BY <1>1, <2>1 DEF OrderFor
<1> QED
  BY <1>2, <1>3, <1>4 DEF OrderFor, Same, Serving

\* Nothing is written: one topic may be told anew, not before what was seen.
LEMMA OrderTold ==
    ASSUME TypeOK, TypeOK', Grows, NEW c \in Clients, OrderFor(c), Serving(c),
           seen'[c] = seen[c],
           NEW t \in Topics, NEW status,
           status \in Nat => /\ status <= now[t]
                             /\ seen[c][t] \in Nat => seen[c][t] <= status,
           \A u \in Topics : told'[c][u] \in {told[c][u], None} \/ (u = t /\ told'[c][u] = status),
           \A i \in DOMAIN batch'[c] :
              batch'[c][i] # Reply => told'[c][batch'[c][i].topic] # None,
           half'[c] # None => half' = half
    PROVE  OrderFor(c)'
<1>1. \A u \in Topics : now[u] \in Nat /\ now'[u] \in Nat /\ now[u] <= now'[u]
  BY NowNumbers DEF Grows, TypeOK, Versions
<1>2. \A u \in Topics : seen'[c][u] \in Nat => seen'[c][u] <= now'[u]
  BY <1>1 DEF OrderFor
<1>3. ASSUME NEW u \in Topics, told'[c][u] \in Nat
      PROVE  /\ told'[c][u] <= now'[u]
             /\ seen'[c][u] \in Nat => seen'[c][u] <= told'[c][u]
  <2>1. CASE told'[c][u] = told[c][u]
    BY <1>1, <1>3, <2>1 DEF OrderFor
  <2>2. CASE u = t /\ told'[c][u] = status
    BY <1>1, <1>3, <2>2
  <2> QED
    BY <1>3, <2>1, <2>2, NoneAssumption
<1>4. half'[c] # None =>
          /\ half'[c].version <= now'[half'[c].topic]
          /\ seen'[c][half'[c].topic] \in Nat => seen'[c][half'[c].topic] <= half'[c].version
  <2> SUFFICES ASSUME half'[c] # None
               PROVE  /\ half[c].version <= now'[half[c].topic]
                      /\ seen[c][half[c].topic] \in Nat => seen[c][half[c].topic] <= half[c].version
    OBVIOUS
  <2>1. half[c].version \in Nat /\ half[c].topic \in Topics
    BY HalfTypes
  <2> QED
    BY <1>1, <2>1 DEF OrderFor
<1> QED
  BY <1>2, <1>3, <1>4 DEF OrderFor

\* A status is not older than the history it was computed from.
LEMMA StatusOrder ==
    ASSUME TypeOK, NEW c \in Clients, OrderFor(c), half[c] # None, NEW status \in Status(c)
    PROVE  status \in Nat =>
              /\ status <= now[half[c].topic]
              /\ seen[c][half[c].topic] \in Nat => seen[c][half[c].topic] <= status
<1>1. half[c].topic \in Topics /\ half[c].version \in Nat /\ now[half[c].topic] \in Nat
  BY SizesAssumption DEF TypeOK, Topics, Versions
<1>2. status \in {half[c].version, now[half[c].topic], Torn}
  BY DEF Status
<1> QED
  BY <1>1, <1>2, TornAssumption DEF OrderFor

LEMMA OrderPeer ==
    ASSUME TypeOK, TypeOK', BatchInv, ToldIsWritten, Grows, NEW c \in Clients, OrderFor(c),
           Peer(c)
    PROVE  OrderFor(c)'
<1> USE DEF peerVars
<1>0. ConnFor(c)
  BY ByConnection
<1>n. \A t \in Topics : now[t] \in Nat /\ (seen[c][t] \in Nat => seen[c][t] <= now[t])
  BY NowNumbers DEF OrderFor
<1>h. Header \in Topics
  BY DEF Topics
<1>1. CASE Subscribe(c)
  <2>1. /\ Serving(c) /\ seen'[c] = seen[c] /\ half' = half
        /\ \A u \in Topics : told'[c][u] = IF u = Header THEN now[Header] ELSE told[c][u]
        /\ batch'[c] = <<[topic |-> Header, version |-> now[Header]]>>
    BY <1>1 DEF Subscribe, Receives, Serving, ServingStates, Changed, Write, TypeOK
  <2>2. \A i \in DOMAIN batch'[c] : batch'[c][i].topic = Header
    BY <2>1
  <2>3. told'[c][Header] # None
    BY <2>1, <1>n, <1>h, NoneAssumption
  <2> QED
    BY <2>1, <2>2, <2>3, <1>n, <1>h, OrderTold
<1>2. CASE SubscribeScript(c) \/ ReadScript(c)
  <2>1. PICK s \in Scripts : half' = [half EXCEPT ![c] = [topic |-> s, version |-> now[s]]]
    BY <1>2 DEF SubscribeScript, ReadScript, ReadChain, TypeOK
  <2>2. /\ Serving(c) /\ UNCHANGED <<now, told, batch, seen>> /\ s \in Topics
        /\ half'[c].topic = s /\ half'[c].version = now[s]
    BY <1>2, <2>1 DEF SubscribeScript, ReadScript, Receives, Serving, ServingStates, TypeOK,
        mainVars, Topics
  <2> QED
    BY <2>2, <1>n DEF OrderFor
<1>3. CASE Subscribed(c)
  <2>1. /\ Serving(c) /\ half[c] # None /\ seen'[c] = seen[c] /\ half'[c] = None
        /\ half[c].topic \in Topics
    BY <1>3, StatusTypes DEF Subscribed, BatchInv, TypeOK, Serving, ServingStates
  <2>2. CASE Replied(c) /\ UNCHANGED told
    <3>1. batch'[c] = <<Reply>>
      BY <2>2 DEF Replied, Write, TypeOK
    <3>2. \A i \in DOMAIN batch'[c] : batch'[c][i] = Reply
      BY <3>1
    <3>3. \A u \in Topics : told'[c][u] \in {told[c][u], None}
      BY <2>2
    <3> QED
      BY <2>1, <3>2, <3>3, <1>n, OrderTold
  <2>3. ASSUME NEW status \in Status(c), Changed(c, half[c].topic, status),
               Write(c, <<[topic |-> half[c].topic, version |-> status]>>)
        PROVE  OrderFor(c)'
    <3>1. batch'[c] = <<[topic |-> half[c].topic, version |-> status]>> /\ status # None
      BY <2>1, <2>3, StatusTypes DEF Write, TypeOK
    <3>2. \A u \in Topics : told'[c][u] = IF u = half[c].topic THEN status ELSE told[c][u]
      BY <2>3 DEF Changed, TypeOK
    <3>3. \A i \in DOMAIN batch'[c] : batch'[c][i].topic = half[c].topic
      BY <3>1
    <3>4. told'[c][half[c].topic] # None
      BY <2>1, <3>1, <3>2
    <3>5. status \in Nat =>
             /\ status <= now[half[c].topic]
             /\ seen[c][half[c].topic] \in Nat => seen[c][half[c].topic] <= status
      BY <2>1, StatusOrder
    <3> QED
      BY <2>1, <3>2, <3>3, <3>4, <3>5, OrderTold
  <2> QED
    BY <1>3, <2>2, <2>3 DEF Subscribed
<1>4. CASE Unsubscribe(c) \/ Broadcast(c) \/ AskForUpdate(c) \/ Read(c)
  <2>1. /\ Serving(c) /\ UNCHANGED <<half, seen>>
        /\ batch'[c] = <<Reply>> \/ batch'[c] = <<>>
    BY <1>4, <1>0, Receiving DEF Unsubscribe, Broadcast, AskForUpdate, Read, Receives,
        Serving, ServingStates, Replied, Write, TypeOK
  <2>2. \A i \in DOMAIN batch'[c] : batch'[c][i] = Reply
    BY <2>1
  <2>3. \A u \in Topics : told'[c][u] \in {told[c][u], None}
    <3>1. Unsubscribe(c) => Head(chan[c]).topic \in Topics
      BY Chans, Messages DEF Unsubscribe, Receives, Topics
    <3> QED
      BY <1>4, <3>1 DEF Unsubscribe, Broadcast, AskForUpdate, Read, Changed, TypeOK
  <2> QED
    BY <2>1, <2>2, <2>3, <1>n, <1>h, OrderTold
<1>5. CASE UpdateHeader(c)
  <2>1. /\ Serving(c) /\ UNCHANGED <<half, seen>> /\ batch[c] = <<>>
    BY <1>5, <1>0, Receiving DEF UpdateHeader, Receives, Serving, ServingStates
  <2>2. CASE UNCHANGED <<told, batch>>
    <3>1. \A u \in Topics : told'[c][u] \in {told[c][u], None}
      BY <2>2
    <3>2. DOMAIN batch'[c] = {}
      BY <2>1, <2>2
    <3> QED
      BY <2>1, <3>1, <3>2, <1>n, <1>h, OrderTold
  <2>3. CASE /\ Changed(c, Header, now[Header])
             /\ batch' = [batch EXCEPT ![c] = <<[topic |-> Header, version |-> now[Header]]>>]
    <3>1. /\ \A u \in Topics : told'[c][u] = IF u = Header THEN now[Header] ELSE told[c][u]
          /\ batch'[c] = <<[topic |-> Header, version |-> now[Header]]>>
      BY <2>3 DEF Changed, TypeOK
    <3>2. \A i \in DOMAIN batch'[c] : batch'[c][i].topic = Header
      BY <3>1
    <3>3. told'[c][Header] # None
      BY <3>1, <1>n, <1>h, NoneAssumption
    <3> QED
      BY <2>1, <3>1, <3>2, <3>3, <1>n, <1>h, OrderTold
  <2> QED
    BY <1>5, <2>2, <2>3 DEF UpdateHeader
<1>6. CASE UpdateScript(c)
  <2> PICK s \in Topics : s = half[c].topic
    BY <1>6, StatusTypes DEF UpdateScript
  <2>1. PICK status \in Status(c) :
           /\ Changed(c, s, status)
           /\ batch' = [batch EXCEPT ![c] =
                           IF told[c][s] = status THEN @
                           ELSE Append(@, [topic |-> s, version |-> status])]
    BY <1>6 DEF UpdateScript
  <2>2. /\ Serving(c) /\ half[c] # None /\ half'[c] = None /\ seen' = seen
        /\ status # None /\ batch[c] \in Seq(Value \cup {Reply})
    BY <1>6, StatusTypes DEF UpdateScript, Serving, ServingStates, TypeOK
  <2>3. \A u \in Topics : told'[c][u] = IF u = s THEN status ELSE told[c][u]
    BY <2>1 DEF Changed, TypeOK
  <2>4. status \in Nat =>
             /\ status <= now[s]
             /\ seen[c][s] \in Nat => seen[c][s] <= status
    BY <2>2, StatusOrder
  <2>5. ASSUME NEW i \in DOMAIN batch'[c], batch'[c][i] # Reply
        PROVE  told'[c][batch'[c][i].topic] # None
    <3>1. \/ i \in DOMAIN batch[c] /\ batch'[c][i] = batch[c][i]
          \/ batch'[c][i] = [topic |-> s, version |-> status]
      BY <2>1, <2>2, <2>5 DEF TypeOK
    <3>2. CASE i \in DOMAIN batch[c] /\ batch'[c][i] = batch[c][i]
      <4>1. batch[c][i] \in Value
        BY <2>2, <2>5, <3>2
      <4>2. told[c][batch[c][i].topic] # None /\ batch[c][i].topic \in Topics
        BY <4>1, <2>2, <2>5, <3>2, Values DEF OrderFor
      <4> QED
        BY <4>2, <2>2, <2>3, <3>2
    <3>3. CASE batch'[c][i] = [topic |-> s, version |-> status]
      BY <3>3, <2>2, <2>3
    <3> QED
      BY <3>1, <3>2, <3>3
  <2> QED
    BY <2>2, <2>3, <2>4, <2>5, OrderTold
<1>7. CASE Updated(c)
  <2>1. /\ Serving(c) /\ UNCHANGED <<told, half, batch, seen>>
    BY <1>7 DEF Updated, Serving, ServingStates
  <2>2. \A i \in DOMAIN batch'[c] : batch'[c][i] # Reply => told'[c][batch'[c][i].topic] # None
    BY <2>1 DEF OrderFor
  <2> QED
    BY <2>1, <2>2, <1>n, <1>h, OrderTold
<1>8. CASE WriteValue(c)
  <2> DEFINE e == Head(batch[c])
  <2>1. /\ Serving(c) /\ batch[c] # <<>> /\ batch[c] \in Seq(Value \cup {Reply})
        /\ batch'[c] = Tail(batch[c]) /\ UNCHANGED <<now, told, half>> /\ half[c] = None
    BY <1>8, <1>0, HalfRead DEF WriteValue, TypeOK, Serving, ServingStates, BatchInv, mainVars
  <2>2. \A i \in DOMAIN batch'[c] : i + 1 \in DOMAIN batch[c] /\ batch'[c][i] = batch[c][i + 1]
    BY <2>1
  <2>3. \A i \in DOMAIN batch'[c] : batch'[c][i] # Reply => told'[c][batch'[c][i].topic] # None
    BY <2>1, <2>2 DEF OrderFor
  <2>4. 1 \in DOMAIN batch[c] /\ batch[c][1] = e /\ e \in Value \cup {Reply}
    BY <2>1
  <2>5. \A t \in Topics : seen'[c][t] = IF e # Reply /\ e.topic = t THEN e.version ELSE seen[c][t]
    BY <1>8, <2>4, Values DEF WriteValue, TypeOK
  <2>6. \A t \in Topics : e # Reply /\ e.topic = t => e.version = told[c][t]
    <3> SUFFICES ASSUME NEW t \in Topics, e # Reply, e.topic = t PROVE e.version = told[c][t]
      OBVIOUS
    <3>1. told[c][t] # None /\ 1 \in Unwritten(c, t)
      BY <2>1, <2>4 DEF OrderFor, Unwritten
    <3> QED
      BY <3>1, <1>0, <2>1, <2>4 DEF ConnFor, WrittenFor
  <2>7. \A t \in Topics : seen'[c][t] \in {seen[c][t], told[c][t]}
    BY <2>5, <2>6
  <2>8. ASSUME NEW t \in Topics
        PROVE  /\ seen'[c][t] \in Nat => seen'[c][t] <= now'[t]
               /\ told'[c][t] \in Nat =>
                     /\ told'[c][t] <= now'[t]
                     /\ seen'[c][t] \in Nat => seen'[c][t] <= told'[c][t]
    BY <2>1, <2>7 DEF OrderFor
  <2> QED
    BY <2>1, <2>3, <2>8 DEF OrderFor
<1>9. CASE Finish(c) \/ UpdateFails(c) \/ WriteFails(c) \/ Shutdown(c) \/ JoinReader(c)
  <2>1. /\ ~Serving(c)' /\ UNCHANGED <<now, seen>>
        /\ half'[c] # None => half' = half
    BY <1>9 DEF Finish, UpdateFails, WriteFails, Shutdown, JoinReader, Go, TypeOK,
        Serving, ServingStates, mainVars
  <2> QED
    BY <2>1 DEF OrderFor
<1> QED
  BY <1>1, <1>2, <1>3, <1>4, <1>5, <1>6, <1>7, <1>8, <1>9 DEF Peer

LEMMA OrderKeeps ==
    ASSUME IInv, IInv', OrderInv, [Next]_vars
    PROVE  OrderInv'
<1>0. TypeOK /\ TypeOK' /\ BatchInv /\ ToldIsWritten /\ Grows
  BY NowGrows DEF IInv
<1>1. ASSUME \A d \in Clients : Same(d) PROVE OrderInv'
  BY <1>0, <1>1, OrderSame DEF OrderInv
<1>2. CASE Spawn
  <2>1. PICK c \in Clients : c = Head(accepted)
    BY <1>0, <1>2, Queue DEF Spawn
  <2>2. /\ batch'[c] = <<>> /\ half'[c] = None /\ UNCHANGED <<now, seen>>
        /\ \A t \in Topics : told'[c][t] = None
        /\ \A d \in Clients \ {c} : Same(d)
    BY <1>0, <1>2, <2>1 DEF Spawn, TypeOK, Same, mainVars
  <2>3. OrderFor(c)'
    BY <2>2, NoneAssumption DEF OrderFor, OrderInv
  <2> QED
    BY <2>2, <2>3, <1>0, OrderSame DEF OrderInv
<1>3. ASSUME NEW c \in Clients, Peer(c) PROVE OrderInv'
  <2>1. \A d \in Clients \ {c} : Same(d)
    BY <1>0, <1>3, PeerAlone
  <2>2. OrderFor(c)'
    BY <1>0, <1>3, OrderPeer DEF OrderInv
  <2> QED
    BY <2>1, <2>2, <1>0, OrderSame DEF OrderInv
<1>4. Main \/ Notifier \/ Rpc => Spawn \/ UNCHANGED peerVars
  BY DEF Main, Update, Notify, Drop, Joined, Notifier, NotifyClients, NotifyExit, Rpc,
         StopAccepting, SendDone, Closed, JoinPeers
<1>5. ASSUME NEW c \in Clients,
             \/ Accept(c) \/ ReadLine(c) \/ Reader(c) \/ Stall(c) \/ Resume(c) \/ Leave(c)
      PROVE  UNCHANGED peerVars
  BY <1>5 DEF Accept, ReadLine, Reader, ReadEnd, ReaderSend, ReaderDone, Stall, Resume,
      Leave, Client
<1>6. UNCHANGED peerVars => \A d \in Clients : Same(d)
  BY DEF peerVars, Same
<1> QED
  BY <1>1, <1>2, <1>3, <1>4, <1>5, <1>6 DEF Next, vars

LEMMA Ordered == Spec => []OrderInv
<1>1. Init => OrderInv
  BY NoneAssumption DEF Init, OrderInv, OrderFor
<1>2. IInv /\ IInv' /\ OrderInv /\ [Next]_vars => OrderInv'
  BY OrderKeeps
<1> QED
  BY <1>1, <1>2, Invariance, PTL DEF Spec

\* What is written to a client about a topic is never older than what was
\* written before (update_subscriptions, send_values).
THEOREM NeverBackInTime == Spec => SeenInOrder
<1> DEFINE Forward == \A c \in Clients : \A t \in Topics :
          seen[c][t] \in Nat /\ seen'[c][t] \in Nat => seen[c][t] <= seen'[c][t]
<1>1. ASSUME IInv, OrderInv, [Next]_vars PROVE Forward
  <2>0. TypeOK /\ BatchInv /\ ToldIsWritten
    BY <1>1 DEF IInv
  <2>1. CASE UNCHANGED seen
    BY <2>1
  <2>2. ASSUME NEW c \in Clients, WriteValue(c) PROVE Forward
    <3> DEFINE e == Head(batch[c])
    <3>1. /\ Serving(c) /\ batch[c] # <<>> /\ batch[c] \in Seq(Value \cup {Reply})
      BY <2>0, <2>2 DEF WriteValue, TypeOK, Serving, ServingStates, BatchInv
    <3>2. 1 \in DOMAIN batch[c] /\ batch[c][1] = e /\ e \in Value \cup {Reply}
      BY <3>1
    <3>3. CASE e = Reply
      <4>1. UNCHANGED seen
        BY <2>2, <3>3 DEF WriteValue
      <4> QED
        BY <4>1
    <3>4. CASE e # Reply
      <4>1. e.topic \in Topics /\ seen' = [seen EXCEPT ![c][e.topic] = e.version]
        BY <2>2, <3>2, <3>4, Values DEF WriteValue
      <4>2. told[c][e.topic] # None /\ 1 \in Unwritten(c, e.topic)
        BY <1>1, <3>1, <3>2, <3>4 DEF OrderInv, OrderFor, Unwritten
      <4>3. e.version = told[c][e.topic]
        BY <2>0, <3>1, <3>2, <4>1, <4>2 DEF ToldIsWritten
      <4>4. seen[c][e.topic] \in Nat /\ e.version \in Nat => seen[c][e.topic] <= e.version
        BY <1>1, <3>1, <4>1, <4>3 DEF OrderInv, OrderFor
      <4>5. \A d \in Clients, t \in Topics :
               seen'[d][t] = IF d = c /\ t = e.topic THEN e.version ELSE seen[d][t]
        BY <2>0, <4>1 DEF TypeOK
      <4> QED
        BY <4>4, <4>5
    <3> QED
      BY <3>3, <3>4
  <2>3. ASSUME NEW c \in Clients,
               \/ Accept(c) \/ ReadLine(c) \/ Reader(c) \/ Peer(c)
               \/ Stall(c) \/ Resume(c) \/ Leave(c)
        PROVE  WriteValue(c) \/ UNCHANGED seen
    BY <2>3 DEF Accept, ReadLine, Reader, ReadEnd, ReaderSend, ReaderDone, Stall, Resume,
        Leave, Client, Peer, Subscribe, SubscribeScript, Subscribed, ReadScript, Unsubscribe,
        Broadcast, AskForUpdate, Read, Finish, UpdateHeader, UpdateScript, UpdateFails, Updated,
        WriteFails, Shutdown, JoinReader, peerVars
  <2>4. Main \/ Notifier \/ Rpc => UNCHANGED seen
    BY DEF Main, Update, Notify, Drop, Joined, Notifier, NotifyClients, NotifyExit, Rpc,
         Spawn, StopAccepting, SendDone, Closed, JoinPeers, peerVars
  <2> QED
    BY <1>1, <2>1, <2>2, <2>3, <2>4 DEF Next, vars, peerVars
<1>2. IInv /\ OrderInv /\ [Next]_vars => [Forward]_vars
  BY <1>1
<1> QED
  BY <1>2, Invariance, Ordered, PTL DEF Spec, SeenInOrder
=============================================================================
