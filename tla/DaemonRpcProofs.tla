--------------------------- MODULE DaemonRpcProofs ---------------------------
(***************************************************************************)
(* Theorems about the daemon's connection for any number of threads, ids   *)
(* and failures.                                                           *)
(***************************************************************************)
EXTENDS DaemonRpc, TLAPS

\* A caller has an id exactly during an attempt, and no two have the same.
IdsInv ==
    /\ \A c \in Callers : (id[c] # None) <=> (pc[c] \in HasId)
    /\ \A c, d \in Callers : id[c] # None /\ c # d => id[c] # id[d]

\* A message with the id of an attempt belongs to the call of that attempt.
AllOwned(messages, ids, calls) ==
    \A i \in 1..Len(messages) : \A c \in Callers :
       messages[i].id = ids[c] => messages[i].from = c /\ messages[i].call = calls[c]
StreamInv == AllOwned(conn.sent, id, call) /\ AllOwned(conn.replies, id, call)

\* Only a caller that has its answer has one.
AnswerInv == \A c \in Callers : pc[c] # "answered" => answer[c] = Pending

IInv == TypeOK /\ LockExact /\ IdsInv /\ StreamInv /\ AnswerInv /\ ResultsMatch

LEMMA Mod == \A n \in Nat : (n + 1) % CallNumbers \in 0..CallNumbers - 1
BY NumbersAssumption

\* The four outcomes of reading a reply.
LEMMA ParseCases ==
    ASSUME TypeOK, NEW c \in Callers, NEW reply \in Reply, Parse(c, reply)
    PROVE  \/ pc' = [pc EXCEPT ![c] = "backoff"] /\ answer' = answer
           \/ /\ pc' = [pc EXCEPT ![c] = "answered"]
              /\ \E kind \in {"error", "wrongId"} :
                    answer' = [answer EXCEPT ![c] = [kind |-> kind]]
           \/ /\ pc' = [pc EXCEPT ![c] = "answered"]
              /\ reply.id = id[c]
              /\ answer' = [answer EXCEPT ![c] =
                              [kind |-> "result", from |-> reply.from, call |-> reply.call]]
<1>1. reply.kind \in {"result", "error", "warmup"}
  BY DEF Reply
<1>2. CASE reply.kind = "warmup"
  BY <1>2 DEF Parse, Disconnected, Go
<1>3. CASE reply.kind = "error"
  BY <1>3 DEF Parse, Return, Go
<1>4. CASE reply.kind = "result" /\ reply.id # id[c]
  BY <1>4 DEF Parse, Return, Go
<1>5. CASE reply.kind = "result" /\ reply.id = id[c]
  BY <1>5 DEF Parse, Return, Go
<1> QED
  BY <1>1, <1>2, <1>3, <1>4, <1>5

LEMMA InitInv == Init => IInv
<1> SUFFICES ASSUME Init PROVE IInv
  OBVIOUS
<1>1. TypeOK
  BY NumbersAssumption, CallersAssumption
  DEF Init, TypeOK, Fresh, Pending, Answer, CallStates, MainStates, Callers
<1> QED
  BY <1>1, CallersAssumption
  DEF Init, IInv, LockExact, Holding, IdsInv, HasId, StreamInv, AllOwned, Fresh, AnswerInv,
      ResultsMatch, Pending, Callers

\* Where the call states lie, for the types of pc.
LEMMA States ==
    /\ Holding \subseteq CallStates /\ HasId \subseteq CallStates
    /\ "idle" \notin CallStates /\ "answered" \notin Holding \cup HasId
    /\ MainStates \cap (CallStates \cup {"idle"}) = {}
BY DEF Holding, HasId, CallStates, MainStates

\* An id of a request that is being taken is nobody else's.
LEMMA FreshId ==
    ASSUME Ids \ InUse # {}
    PROVE  LET i == CHOOSE j \in Ids : j \notin InUse
           IN  /\ i \in Ids
               /\ \A c \in Callers : id[c] # i
               /\ \A k \in 1..Len(conn.sent) : conn.sent[k].id # i
               /\ \A k \in 1..Len(conn.replies) : conn.replies[k].id # i
<1> DEFINE i == CHOOSE j \in Ids : j \notin InUse
<1>1. i \in Ids /\ i \notin InUse
  OBVIOUS
<1>2. \A c \in Callers : id[c] # i
  BY <1>1 DEF InUse
<1>3. \A k \in 1..Len(conn.sent) : conn.sent[k].id \in InUse
  BY DEF InUse
<1>4. \A k \in 1..Len(conn.replies) : conn.replies[k].id \in InUse
  BY DEF InUse
<1> QED
  BY <1>1, <1>2, <1>3, <1>4

ConnType == [open : BOOLEAN, sent : Seq(Request), replies : Seq(Reply)]

LEMMA ConnTypes ==
    /\ Fresh \in ConnType
    /\ Fresh.sent = <<>> /\ Fresh.replies = <<>>
    /\ TypeOK => conn \in ConnType
BY DEF Fresh, ConnType, TypeOK

Messages == Seq(Request) \cup Seq(Reply)

LEMMA MessageId ==
    \A ms \in Messages : \A i \in 1..Len(ms) : ms[i].id \in Ids
<1>1. \A m \in Request \cup Reply : m.id \in Ids
  BY DEF Request, Reply
<1>2. \A ms \in Messages : \A i \in 1..Len(ms) : ms[i] \in Request \cup Reply
  BY DEF Messages
<1> QED
  BY <1>1, <1>2

\* An attempt that ends owns nothing, the others own what they owned.
Kept(c) == id'[c] = None \/ (id'[c] = id[c] /\ call'[c] = call[c])

LEMMA OwnedStays ==
    ASSUME NEW ms \in Messages, AllOwned(ms, id, call), \A c \in Callers : Kept(c)
    PROVE  AllOwned(ms, id', call')
BY MessageId, IdsAssumption DEF Kept, AllOwned

LEMMA OwnedTail ==
    ASSUME NEW ms \in Messages, ms # <<>>, NEW ids, NEW calls, AllOwned(ms, ids, calls)
    PROVE  AllOwned(Tail(ms), ids, calls)
<1>1. \A i \in 1..Len(Tail(ms)) : i + 1 \in 1..Len(ms) /\ Tail(ms)[i] = ms[i + 1]
  BY DEF Messages
<1> QED
  BY <1>1 DEF AllOwned

LEMMA OwnedAppend ==
    ASSUME NEW ms \in Messages, NEW m, NEW ids, NEW calls, AllOwned(ms, ids, calls),
           \A c \in Callers : m.id = ids[c] => m.from = c /\ m.call = calls[c]
    PROVE  AllOwned(Append(ms, m), ids, calls)
<1>1. \A i \in 1..Len(Append(ms, m)) :
        \/ i \in 1..Len(ms) /\ Append(ms, m)[i] = ms[i]
        \/ Append(ms, m)[i] = m
  BY DEF Messages
<1> QED
  BY <1>1 DEF AllOwned

LEMMA OwnedEmpty == \A ids, calls : AllOwned(<<>>, ids, calls)
BY DEF AllOwned

\* Messages are removed from the stream, or it is replaced, and none is added.
LEMMA StreamStays ==
    ASSUME TypeOK, StreamInv, \A c \in Callers : Kept(c),
           conn'.sent \in {conn.sent, <<>>}, conn'.replies \in {conn.replies, <<>>}
    PROVE  StreamInv'
<1>1. conn.sent \in Messages /\ conn.replies \in Messages
  BY ConnTypes DEF ConnType, Messages
<1> QED
  BY <1>1, OwnedStays, OwnedEmpty DEF StreamInv

LEMMA BeginInv ==
    ASSUME IInv, NEW c \in Callers, Begin(c)
    PROVE  IInv'
<1> USE CallersAssumption, IdsAssumption, NumbersAssumption, States, Mod DEF IInv, Callers
<1>1. TypeOK'
  <2>1. conn' \in ConnType
    BY ConnTypes DEF Begin, Go, ConnType
  <2> QED
    BY <2>1 DEF TypeOK, ConnType, Begin, Go, CallStates, MainStates, Answer, Pending,
        Signals
<1>2. LockExact'
  BY DEF TypeOK, LockExact, Begin, Go, Holding
<1>3. IdsInv'
  BY DEF TypeOK, IdsInv, Begin, Go, HasId
<1>4. StreamInv'
  BY StreamStays, ConnTypes DEF Kept, TypeOK, IdsInv, HasId, Begin, Go, Fresh
<1>5. AnswerInv'
  BY DEF TypeOK, AnswerInv, Begin, Go
<1>6. ResultsMatch'
  BY DEF TypeOK, ResultsMatch, AnswerInv, Pending, Begin, Go
<1> QED
  BY <1>1, <1>2, <1>3, <1>4, <1>5, <1>6

LEMMA TakeIdInv ==
    ASSUME IInv, NEW c \in Callers, TakeId(c)
    PROVE  IInv'
<1> USE CallersAssumption, IdsAssumption, NumbersAssumption, States, Mod DEF IInv, Callers
<1>1. TypeOK'
  <2>1. conn' \in ConnType
    BY ConnTypes DEF TakeId, Go, ConnType
  <2> QED
    BY FreshId, <2>1 DEF TypeOK, ConnType, TakeId, Go, CallStates, MainStates, Answer,
        Pending, Signals
<1>2. LockExact'
  BY FreshId DEF TypeOK, LockExact, TakeId, Go, Holding
<1>3. IdsInv'
  BY FreshId DEF TypeOK, IdsInv, TakeId, Go, HasId
<1>4. StreamInv'
  <2>1. ASSUME NEW ms \in {conn.sent, conn.replies}, AllOwned(ms, id, call)
        PROVE  AllOwned(ms, id', call')
    BY <2>1, FreshId DEF AllOwned, TakeId, TypeOK
  <2> QED
    BY <2>1 DEF StreamInv, TakeId
<1>5. AnswerInv'
  BY FreshId DEF TypeOK, AnswerInv, TakeId, Go
<1>6. ResultsMatch'
  BY FreshId DEF TypeOK, ResultsMatch, AnswerInv, Pending, TakeId, Go
<1> QED
  BY <1>1, <1>2, <1>3, <1>4, <1>5, <1>6

LEMMA LockConnInv ==
    ASSUME IInv, NEW c \in Callers, LockConn(c)
    PROVE  IInv'
<1> USE CallersAssumption, IdsAssumption, NumbersAssumption, States, Mod DEF IInv, Callers
<1>1. TypeOK'
  <2>1. conn' \in ConnType
    BY ConnTypes DEF LockConn, Go, ConnType
  <2> QED
    BY <2>1 DEF TypeOK, ConnType, LockConn, Go, CallStates, MainStates, Answer,
        Pending, Signals
<1>2. LockExact'
  BY DEF TypeOK, LockExact, LockConn, Go, Holding
<1>3. IdsInv'
  BY DEF TypeOK, IdsInv, LockConn, Go, HasId
<1>4. StreamInv'
  BY StreamStays, ConnTypes DEF Kept, TypeOK, IdsInv, HasId, LockConn, Go, Fresh
<1>5. AnswerInv'
  BY DEF TypeOK, AnswerInv, LockConn, Go
<1>6. ResultsMatch'
  BY DEF TypeOK, ResultsMatch, AnswerInv, Pending, LockConn, Go
<1> QED
  BY <1>1, <1>2, <1>3, <1>4, <1>5, <1>6

LEMMA SendInv ==
    ASSUME IInv, NEW c \in Callers, Send(c)
    PROVE  IInv'
<1> USE CallersAssumption, IdsAssumption, NumbersAssumption, States, Mod DEF IInv, Callers
<1> DEFINE m == [id |-> id[c], from |-> c, call |-> call[c]]
<1>a. ASSUME conn.open PROVE conn' \in ConnType /\ StreamInv'
  <2>1. m \in Request
    BY DEF Send, TypeOK, IdsInv, HasId, Request
  <2>2. conn.sent \in Seq(Request) /\ conn.sent \in Messages /\ conn.replies \in Messages
    BY ConnTypes DEF ConnType, Messages
  <2>3. conn' = [conn EXCEPT !.sent = Append(@, m)] /\ id' = id /\ call' = call
    BY <1>a DEF Send
  <2>4. conn' \in ConnType /\ conn'.sent = Append(conn.sent, m) /\ conn'.replies = conn.replies
    <3>1. Append(conn.sent, m) \in Seq(Request)
      BY <2>1, <2>2
    <3> HIDE DEF m
    <3> QED
      BY <2>3, <3>1, ConnTypes DEF ConnType
  <2>5. AllOwned(conn.sent, id, call) /\ AllOwned(conn.replies, id, call)
    BY DEF StreamInv
  <2>6. \A d \in Callers : m.id = id[d] => m.from = d /\ m.call = call[d]
    BY DEF Send, IdsInv, HasId
  <2>7. AllOwned(Append(conn.sent, m), id, call)
    BY <2>2, <2>5, <2>6, OwnedAppend
  <2> QED
    BY <2>3, <2>4, <2>5, <2>7 DEF StreamInv
<1>b. ASSUME ~conn.open PROVE conn' \in ConnType /\ StreamInv'
  <2>1. conn' = conn
    BY <1>b DEF Send
  <2>2. \A d \in Callers : Kept(d)
    BY <1>b DEF Send, EndAttempt, Kept, TypeOK
  <2> QED
    BY <2>1, <2>2, ConnTypes, StreamStays
<1>1. TypeOK'
  <2>1. conn' \in ConnType
    BY <1>a, <1>b
  <2>2. /\ up' \in BOOLEAN /\ holder' \in Callers \cup {None}
        /\ raised' \subseteq Signals /\ sig' \in Signals \cup {None} /\ failures' \in 0..MaxFailures
    BY DEF TypeOK, Send, Go, Disconnected, EndAttempt, Signals
  <2>3. pc' \in [Callers -> CallStates \cup MainStates \cup {"idle"}]
    BY DEF TypeOK, Send, Go, Disconnected, EndAttempt, CallStates, MainStates
  <2>4. id' \in [Callers -> Ids \cup {None}] /\ call' \in [Callers -> 0..CallNumbers - 1]
    BY DEF TypeOK, Send, Go, Disconnected, EndAttempt
  <2>5. answer' \in [Callers -> Answer]
    BY DEF TypeOK, Send, Go, Disconnected, EndAttempt, Answer
  <2> QED
    BY <2>1, <2>2, <2>3, <2>4, <2>5 DEF TypeOK, ConnType
<1>2. LockExact'
  BY DEF TypeOK, LockExact, Send, Go, Disconnected, EndAttempt, Holding
<1>3. IdsInv'
  BY DEF TypeOK, IdsInv, Send, Go, Disconnected, EndAttempt, HasId
<1>4. StreamInv'
  BY <1>a, <1>b
<1>5. AnswerInv'
  BY DEF TypeOK, AnswerInv, Send, Go, Disconnected, EndAttempt
<1>6. ResultsMatch'
  BY DEF TypeOK, ResultsMatch, AnswerInv, Pending, Send, Go, Disconnected, EndAttempt
<1> QED
  BY <1>1, <1>2, <1>3, <1>4, <1>5, <1>6

LEMMA RecvClosedInv ==
    ASSUME IInv, NEW c \in Callers, RecvClosed(c)
    PROVE  IInv'
<1> USE CallersAssumption, IdsAssumption, NumbersAssumption, States, Mod DEF IInv, Callers
<1>1. TypeOK'
  <2>1. conn' \in ConnType
    BY ConnTypes DEF RecvClosed, Go, Disconnected, EndAttempt, ConnType
  <2> QED
    BY <2>1 DEF TypeOK, ConnType, RecvClosed, Go, Disconnected, EndAttempt, CallStates,
        MainStates, Answer, Pending, Signals
<1>2. LockExact'
  BY DEF TypeOK, LockExact, RecvClosed, Go, Disconnected, EndAttempt, Holding
<1>3. IdsInv'
  BY DEF TypeOK, IdsInv, RecvClosed, Go, Disconnected, EndAttempt, HasId
<1>4. StreamInv'
  BY StreamStays, ConnTypes DEF Kept, TypeOK, IdsInv, HasId, RecvClosed, Go,
      Disconnected, EndAttempt, Fresh
<1>5. AnswerInv'
  BY DEF TypeOK, AnswerInv, RecvClosed, Go, Disconnected, EndAttempt
<1>6. ResultsMatch'
  BY DEF TypeOK, ResultsMatch, AnswerInv, Pending, RecvClosed, Go, Disconnected, EndAttempt
<1> QED
  BY <1>1, <1>2, <1>3, <1>4, <1>5, <1>6

LEMMA RecvTimeoutInv ==
    ASSUME IInv, NEW c \in Callers, RecvTimeout(c)
    PROVE  IInv'
<1> USE CallersAssumption, IdsAssumption, NumbersAssumption, States, Mod DEF IInv, Callers
<1>1. TypeOK'
  <2>1. conn' \in ConnType
    BY ConnTypes DEF RecvTimeout, Go, Disconnected, EndAttempt, ConnType
  <2> QED
    BY <2>1 DEF TypeOK, ConnType, RecvTimeout, Go, Disconnected, EndAttempt,
        CallStates, MainStates, Answer, Pending, Signals
<1>2. LockExact'
  BY DEF TypeOK, LockExact, RecvTimeout, Go, Disconnected, EndAttempt, Holding
<1>3. IdsInv'
  BY DEF TypeOK, IdsInv, RecvTimeout, Go, Disconnected, EndAttempt, HasId
<1>4. StreamInv'
  BY StreamStays, ConnTypes DEF Kept, TypeOK, IdsInv, HasId, RecvTimeout, Go,
      Disconnected, EndAttempt, Fresh
<1>5. AnswerInv'
  BY DEF TypeOK, AnswerInv, RecvTimeout, Go, Disconnected, EndAttempt
<1>6. ResultsMatch'
  BY DEF TypeOK, ResultsMatch, AnswerInv, Pending, RecvTimeout, Go, Disconnected, EndAttempt
<1> QED
  BY <1>1, <1>2, <1>3, <1>4, <1>5, <1>6

LEMMA LockToReconnectInv ==
    ASSUME IInv, NEW c \in Callers, LockToReconnect(c)
    PROVE  IInv'
<1> USE CallersAssumption, IdsAssumption, NumbersAssumption, States, Mod DEF IInv, Callers
<1>1. TypeOK'
  <2>1. conn' \in ConnType
    BY ConnTypes DEF LockToReconnect, Go, ConnType
  <2> QED
    BY <2>1 DEF TypeOK, ConnType, LockToReconnect, Go, CallStates, MainStates, Answer,
        Pending, Signals
<1>2. LockExact'
  BY DEF TypeOK, LockExact, LockToReconnect, Go, Holding
<1>3. IdsInv'
  BY DEF TypeOK, IdsInv, LockToReconnect, Go, HasId
<1>4. StreamInv'
  BY StreamStays, ConnTypes DEF Kept, TypeOK, IdsInv, HasId, LockToReconnect, Go, Fresh
<1>5. AnswerInv'
  BY DEF TypeOK, AnswerInv, LockToReconnect, Go
<1>6. ResultsMatch'
  BY DEF TypeOK, ResultsMatch, AnswerInv, Pending, LockToReconnect, Go
<1> QED
  BY <1>1, <1>2, <1>3, <1>4, <1>5, <1>6

LEMMA ConnectInv ==
    ASSUME IInv, NEW c \in Callers, Connect(c)
    PROVE  IInv'
<1> USE CallersAssumption, IdsAssumption, NumbersAssumption, States, Mod DEF IInv, Callers
<1>1. TypeOK'
  <2>1. conn' \in ConnType
    BY ConnTypes DEF Connect, Go, ConnType
  <2>2. /\ up' \in BOOLEAN /\ holder' \in Callers \cup {None}
        /\ raised' \subseteq Signals /\ sig' \in Signals \cup {None} /\ failures' \in 0..MaxFailures
    BY DEF TypeOK, Connect, Go, Signals
  <2>3. pc' \in [Callers -> CallStates \cup MainStates \cup {"idle"}]
    BY DEF TypeOK, Connect, Go, CallStates, MainStates
  <2>4. id' \in [Callers -> Ids \cup {None}] /\ call' \in [Callers -> 0..CallNumbers - 1]
    BY DEF TypeOK, Connect, Go
  <2>5. answer' \in [Callers -> Answer]
    BY DEF TypeOK, Connect, Go, Answer
  <2> QED
    BY <2>1, <2>2, <2>3, <2>4, <2>5 DEF TypeOK, ConnType
<1>2. LockExact'
  BY DEF TypeOK, LockExact, Connect, Go, Holding
<1>3. IdsInv'
  BY DEF TypeOK, IdsInv, Connect, Go, HasId
<1>4. StreamInv'
  BY StreamStays, ConnTypes DEF Kept, TypeOK, IdsInv, HasId, Connect, Go, Fresh
<1>5. AnswerInv'
  BY DEF TypeOK, AnswerInv, Connect, Go
<1>6. ResultsMatch'
  BY DEF TypeOK, ResultsMatch, AnswerInv, Pending, Connect, Go
<1> QED
  BY <1>1, <1>2, <1>3, <1>4, <1>5, <1>6

LEMMA ElapsedInv ==
    ASSUME IInv, NEW c \in Callers, Elapsed(c)
    PROVE  IInv'
<1> USE CallersAssumption, IdsAssumption, NumbersAssumption, States, Mod DEF IInv, Callers
<1>1. TypeOK'
  <2>1. conn' \in ConnType
    BY ConnTypes DEF Elapsed, Waiting, WaitOver, Go, ConnType
  <2> QED
    BY <2>1 DEF TypeOK, ConnType, Elapsed, Waiting, WaitOver, Go, CallStates,
        MainStates, Answer, Pending, Signals
<1>2. LockExact'
  BY DEF TypeOK, LockExact, Elapsed, Waiting, WaitOver, Go, Holding
<1>3. IdsInv'
  BY DEF TypeOK, IdsInv, Elapsed, Waiting, WaitOver, Go, HasId
<1>4. StreamInv'
  BY StreamStays, ConnTypes DEF Kept, TypeOK, IdsInv, HasId, Elapsed, Waiting,
      WaitOver, Go, Fresh
<1>5. AnswerInv'
  BY DEF TypeOK, AnswerInv, Elapsed, Waiting, WaitOver, Go
<1>6. ResultsMatch'
  BY DEF TypeOK, ResultsMatch, AnswerInv, Pending, Elapsed, Waiting, WaitOver, Go
<1> QED
  BY <1>1, <1>2, <1>3, <1>4, <1>5, <1>6

LEMMA NotifiedInv ==
    ASSUME IInv, NEW c \in Callers, Notified(c)
    PROVE  IInv'
<1> USE CallersAssumption, IdsAssumption, NumbersAssumption, States, Mod DEF IInv, Callers
<1>1. TypeOK'
  <2>1. conn' \in ConnType
    BY ConnTypes DEF Notified, Waiting, WaitOver, Go, ConnType
  <2>2. /\ up' \in BOOLEAN /\ holder' \in Callers \cup {None}
        /\ raised' \subseteq Signals /\ sig' \in Signals \cup {None} /\ failures' \in 0..MaxFailures
    BY DEF TypeOK, Notified, Waiting, WaitOver, Go, Signals
  <2>3. pc' \in [Callers -> CallStates \cup MainStates \cup {"idle"}]
    BY DEF TypeOK, Notified, Waiting, WaitOver, Go, CallStates, MainStates
  <2>4. id' \in [Callers -> Ids \cup {None}] /\ call' \in [Callers -> 0..CallNumbers - 1]
    <3>1. CASE pc[c] = "wait"
      <4>1. id' = id /\ call' = [call EXCEPT ![c] = (@ + 1) % CallNumbers]
        BY <3>1 DEF Notified, WaitOver
      <4>2. (call[c] + 1) % CallNumbers \in 0..CallNumbers - 1
        BY Mod DEF TypeOK
      <4> QED
        BY <4>1, <4>2 DEF TypeOK
    <3>2. CASE pc[c] # "wait"
      BY <3>2 DEF TypeOK, Notified
    <3> QED
      BY <3>1, <3>2
  <2>5. answer' \in [Callers -> Answer]
    BY DEF TypeOK, Notified, Waiting, WaitOver, Go, Answer
  <2> QED
    BY <2>1, <2>2, <2>3, <2>4, <2>5 DEF TypeOK, ConnType
<1>2. LockExact'
  BY DEF TypeOK, LockExact, Notified, Waiting, WaitOver, Go, Holding
<1>3. IdsInv'
  BY DEF TypeOK, IdsInv, Notified, Waiting, WaitOver, Go, HasId
<1>4. StreamInv'
  BY StreamStays, ConnTypes DEF Kept, TypeOK, IdsInv, HasId, Notified, Waiting,
      WaitOver, Go, Fresh
<1>5. AnswerInv'
  BY DEF TypeOK, AnswerInv, Notified, Waiting, WaitOver, Go
<1>6. ResultsMatch'
  BY DEF TypeOK, ResultsMatch, AnswerInv, Pending, Notified, Waiting, WaitOver, Go
<1> QED
  BY <1>1, <1>2, <1>3, <1>4, <1>5, <1>6

LEMMA InterruptedInv ==
    ASSUME IInv, NEW c \in Callers, Interrupted(c)
    PROVE  IInv'
<1> USE CallersAssumption, IdsAssumption, NumbersAssumption, States, Mod DEF IInv, Callers
<1>1. TypeOK'
  <2>1. conn' \in ConnType
    BY ConnTypes DEF Interrupted, Waiting, Return, Go, ConnType
  <2>2. /\ up' \in BOOLEAN /\ holder' \in Callers \cup {None}
        /\ raised' \subseteq Signals /\ sig' \in Signals \cup {None} /\ failures' \in 0..MaxFailures
    BY DEF TypeOK, Interrupted, Waiting, Return, Go, Signals
  <2>3. pc' \in [Callers -> CallStates \cup MainStates \cup {"idle"}]
    BY DEF TypeOK, Interrupted, Waiting, Return, Go, CallStates, MainStates
  <2>4. id' \in [Callers -> Ids \cup {None}] /\ call' \in [Callers -> 0..CallNumbers - 1]
    BY DEF TypeOK, Interrupted, Waiting, Return, Go
  <2>5. answer' \in [Callers -> Answer]
    BY DEF TypeOK, Interrupted, Waiting, Return, Go, Answer
  <2> QED
    BY <2>1, <2>2, <2>3, <2>4, <2>5 DEF TypeOK, ConnType
<1>2. LockExact'
  BY DEF TypeOK, LockExact, Interrupted, Waiting, Return, Go, Holding
<1>3. IdsInv'
  BY DEF TypeOK, IdsInv, Interrupted, Waiting, Return, Go, HasId
<1>4. StreamInv'
  BY StreamStays, ConnTypes DEF Kept, TypeOK, IdsInv, HasId, Interrupted, Waiting,
      Return, Go, Fresh
<1>5. AnswerInv'
  BY DEF TypeOK, AnswerInv, Interrupted, Waiting, Return, Go
<1>6. ResultsMatch'
  BY DEF TypeOK, ResultsMatch, AnswerInv, Pending, Interrupted, Waiting, Return, Go
<1> QED
  BY <1>1, <1>2, <1>3, <1>4, <1>5, <1>6

LEMMA AnsweredInv ==
    ASSUME IInv, NEW c \in Callers, Answered(c)
    PROVE  IInv'
<1> USE CallersAssumption, IdsAssumption, NumbersAssumption, States, Mod DEF IInv, Callers
<1>1. TypeOK'
  <2>1. conn' \in ConnType
    BY ConnTypes DEF Answered, Go, ConnType
  <2> QED
    BY <2>1 DEF TypeOK, ConnType, Answered, Go, CallStates, MainStates, Answer,
        Pending, Signals
<1>2. LockExact'
  BY DEF TypeOK, LockExact, Answered, Go, Holding
<1>3. IdsInv'
  BY DEF TypeOK, IdsInv, Answered, Go, HasId
<1>4. StreamInv'
  BY StreamStays, ConnTypes DEF Kept, TypeOK, IdsInv, HasId, Answered, Go, Fresh
<1>5. AnswerInv'
  BY DEF TypeOK, AnswerInv, Answered, Go
<1>6. ResultsMatch'
  BY DEF TypeOK, ResultsMatch, AnswerInv, Pending, Answered, Go
<1> QED
  BY <1>1, <1>2, <1>3, <1>4, <1>5, <1>6

LEMMA JoinInv ==
    ASSUME IInv, Join
    PROVE  IInv'
<1> USE CallersAssumption, IdsAssumption, NumbersAssumption, States, Mod DEF IInv, Callers
<1>1. TypeOK'
  <2>1. conn' \in ConnType
    BY ConnTypes DEF Join, Go, ConnType
  <2> QED
    BY <2>1 DEF TypeOK, ConnType, Join, Go, CallStates, MainStates, Answer, Pending, Signals
<1>2. LockExact'
  BY DEF TypeOK, LockExact, Join, Go, Holding
<1>3. IdsInv'
  BY DEF TypeOK, IdsInv, Join, Go, HasId
<1>4. StreamInv'
  BY StreamStays, ConnTypes DEF Kept, TypeOK, IdsInv, HasId, Join, Go, Fresh
<1>5. AnswerInv'
  BY DEF TypeOK, AnswerInv, Join, Go
<1>6. ResultsMatch'
  BY DEF TypeOK, ResultsMatch, AnswerInv, Pending, Join, Go
<1> QED
  BY <1>1, <1>2, <1>3, <1>4, <1>5, <1>6

\* A connection on which one request has been answered.
LEMMA AnsweredConn ==
    ASSUME conn \in ConnType, conn.sent # <<>>, NEW r \in Reply,
           conn' = [conn EXCEPT !.sent = Tail(@), !.replies = Append(@, r)]
    PROVE  /\ conn' \in ConnType
           /\ conn'.sent = Tail(conn.sent) /\ conn'.replies = Append(conn.replies, r)
<1>1. Tail(conn.sent) \in Seq(Request) /\ Append(conn.replies, r) \in Seq(Reply)
  BY DEF ConnType
<1> QED
  BY <1>1 DEF ConnType

LEMMA Handled ==
    ASSUME TypeOK, Handle
    PROVE  \E r \in Reply :
              /\ r.id = Head(conn.sent).id
              /\ r.from = Head(conn.sent).from /\ r.call = Head(conn.sent).call
              /\ conn' = [conn EXCEPT !.sent = Tail(@), !.replies = Append(@, r)]
<1> DEFINE m(kind) == [id |-> Head(conn.sent).id, from |-> Head(conn.sent).from,
                       call |-> Head(conn.sent).call, kind |-> kind]
<1>1. PICK kind \in {"result", "error", "warmup"} :
         conn' = [conn EXCEPT !.sent = Tail(@), !.replies = Append(@, m(kind))]
  BY DEF Handle
<1>2. conn.sent \in Seq(Request) /\ conn.sent # <<>>
  BY DEF TypeOK, Handle
<1>3. Head(conn.sent) \in Request
  BY <1>2
<1>4. m(kind) \in Reply
  BY <1>3 DEF Request, Reply
<1>5. /\ m(kind).id = Head(conn.sent).id
      /\ m(kind).from = Head(conn.sent).from /\ m(kind).call = Head(conn.sent).call
  OBVIOUS
<1> HIDE DEF m
<1> QED
  BY <1>1, <1>4, <1>5

LEMMA HandleInv ==
    ASSUME IInv, Handle
    PROVE  IInv'
<1> USE CallersAssumption, IdsAssumption, NumbersAssumption, States, Mod DEF IInv, Callers
<1>a. PICK r \in Reply :
         /\ r.id = Head(conn.sent).id
         /\ r.from = Head(conn.sent).from /\ r.call = Head(conn.sent).call
         /\ conn' = [conn EXCEPT !.sent = Tail(@), !.replies = Append(@, r)]
  BY Handled
<1>b. /\ conn.sent \in Seq(Request) /\ conn.replies \in Seq(Reply) /\ conn.sent # <<>>
      /\ conn.sent \in Messages /\ conn.replies \in Messages
      /\ AllOwned(conn.sent, id, call) /\ AllOwned(conn.replies, id, call)
  BY ConnTypes DEF ConnType, Messages, StreamInv, Handle
<1>c. Head(conn.sent) = conn.sent[1] /\ 1 \in 1..Len(conn.sent)
  BY <1>b
<1>d. conn \in ConnType
  BY ConnTypes
<1>e. /\ conn' \in ConnType
      /\ conn'.sent = Tail(conn.sent) /\ conn'.replies = Append(conn.replies, r)
  BY <1>a, <1>b, <1>d, AnsweredConn
<1>1. TypeOK'
  BY <1>e DEF TypeOK, ConnType, Handle
<1>2. LockExact'
  BY DEF TypeOK, LockExact, Handle, Holding
<1>3. IdsInv'
  BY DEF TypeOK, IdsInv, Handle, HasId
<1>4. StreamInv'
  <2>1. \A c \in Callers : r.id = id[c] => r.from = c /\ r.call = call[c]
    BY <1>a, <1>b, <1>c DEF AllOwned
  <2>2. AllOwned(Append(conn.replies, r), id, call)
    BY <1>b, <2>1, OwnedAppend
  <2>3. AllOwned(Tail(conn.sent), id, call)
    BY <1>b, OwnedTail
  <2> QED
    BY <1>e, <2>2, <2>3 DEF StreamInv, Handle
<1>5. AnswerInv'
  BY DEF TypeOK, AnswerInv, Handle
<1>6. ResultsMatch'
  BY DEF TypeOK, ResultsMatch, AnswerInv, Pending, Handle
<1> QED
  BY <1>1, <1>2, <1>3, <1>4, <1>5, <1>6

LEMMA BreakInv ==
    ASSUME IInv, Break
    PROVE  IInv'
<1> USE CallersAssumption, IdsAssumption, NumbersAssumption, States, Mod DEF IInv, Callers
<1>1. TypeOK'
  <2>1. conn' \in ConnType
    BY ConnTypes DEF Break, ConnType
  <2>a. up' \in BOOLEAN
    <3>1. up' = FALSE \/ up' = up
      BY DEF Break
    <3> QED
      BY <3>1 DEF TypeOK
  <2>2. /\ holder' \in Callers \cup {None}
        /\ raised' \subseteq Signals /\ sig' \in Signals \cup {None} /\ failures' \in 0..MaxFailures
    BY DEF TypeOK, Break, Signals
  <2>3. pc' \in [Callers -> CallStates \cup MainStates \cup {"idle"}]
    BY DEF TypeOK, Break, CallStates, MainStates
  <2>4. id' \in [Callers -> Ids \cup {None}] /\ call' \in [Callers -> 0..CallNumbers - 1]
    BY DEF TypeOK, Break
  <2>5. answer' \in [Callers -> Answer]
    BY DEF TypeOK, Break, Answer
  <2> QED
    BY <2>1, <2>a, <2>2, <2>3, <2>4, <2>5 DEF TypeOK, ConnType
<1>2. LockExact'
  BY DEF TypeOK, LockExact, Break, Holding
<1>3. IdsInv'
  BY DEF TypeOK, IdsInv, Break, HasId
<1>4. StreamInv'
  BY StreamStays, ConnTypes DEF Kept, TypeOK, IdsInv, HasId, Break, Fresh
<1>5. AnswerInv'
  BY DEF TypeOK, AnswerInv, Break
<1>6. ResultsMatch'
  BY DEF TypeOK, ResultsMatch, AnswerInv, Pending, Break
<1> QED
  BY <1>1, <1>2, <1>3, <1>4, <1>5, <1>6

LEMMA DaemonStartsInv ==
    ASSUME IInv, DaemonStarts
    PROVE  IInv'
<1> USE CallersAssumption, IdsAssumption, NumbersAssumption, States, Mod DEF IInv, Callers
<1>1. TypeOK'
  <2>1. conn' \in ConnType
    BY ConnTypes DEF DaemonStarts, ConnType
  <2> QED
    BY <2>1 DEF TypeOK, ConnType, DaemonStarts, CallStates, MainStates, Answer,
        Pending, Signals
<1>2. LockExact'
  BY DEF TypeOK, LockExact, DaemonStarts, Holding
<1>3. IdsInv'
  BY DEF TypeOK, IdsInv, DaemonStarts, HasId
<1>4. StreamInv'
  BY StreamStays, ConnTypes DEF Kept, TypeOK, IdsInv, HasId, DaemonStarts, Fresh
<1>5. AnswerInv'
  BY DEF TypeOK, AnswerInv, DaemonStarts
<1>6. ResultsMatch'
  BY DEF TypeOK, ResultsMatch, AnswerInv, Pending, DaemonStarts
<1> QED
  BY <1>1, <1>2, <1>3, <1>4, <1>5, <1>6

LEMMA RaiseInv ==
    ASSUME IInv, NEW s \in Signals, Raise(s)
    PROVE  IInv'
<1> USE CallersAssumption, IdsAssumption, NumbersAssumption, States, Mod DEF IInv, Callers
<1>1. TypeOK'
  <2>1. conn' \in ConnType
    BY ConnTypes DEF Raise, ConnType
  <2> QED
    BY <2>1 DEF TypeOK, ConnType, Raise, CallStates, MainStates, Answer, Pending, Signals
<1>2. LockExact'
  BY DEF TypeOK, LockExact, Raise, Holding
<1>3. IdsInv'
  BY DEF TypeOK, IdsInv, Raise, HasId
<1>4. StreamInv'
  BY StreamStays, ConnTypes DEF Kept, TypeOK, IdsInv, HasId, Raise, Fresh
<1>5. AnswerInv'
  BY DEF TypeOK, AnswerInv, Raise
<1>6. ResultsMatch'
  BY DEF TypeOK, ResultsMatch, AnswerInv, Pending, Raise
<1> QED
  BY <1>1, <1>2, <1>3, <1>4, <1>5, <1>6

LEMMA SendSignalInv ==
    ASSUME IInv, NEW s \in Signals, SendSignal(s)
    PROVE  IInv'
<1> USE CallersAssumption, IdsAssumption, NumbersAssumption, States, Mod DEF IInv, Callers
<1>1. TypeOK'
  <2>1. conn' \in ConnType
    BY ConnTypes DEF SendSignal, ConnType
  <2> QED
    BY <2>1 DEF TypeOK, ConnType, SendSignal, CallStates, MainStates, Answer, Pending,
        Signals
<1>2. LockExact'
  BY DEF TypeOK, LockExact, SendSignal, Holding
<1>3. IdsInv'
  BY DEF TypeOK, IdsInv, SendSignal, HasId
<1>4. StreamInv'
  BY StreamStays, ConnTypes DEF Kept, TypeOK, IdsInv, HasId, SendSignal, Fresh
<1>5. AnswerInv'
  BY DEF TypeOK, AnswerInv, SendSignal
<1>6. ResultsMatch'
  BY DEF TypeOK, ResultsMatch, AnswerInv, Pending, SendSignal
<1> QED
  BY <1>1, <1>2, <1>3, <1>4, <1>5, <1>6

(***************************************************************************)
(* Every step keeps the invariant.  Recv is the one that hands out results. *)
(***************************************************************************)
LEMMA RecvInv ==
    ASSUME IInv, NEW c \in Callers, Recv(c)
    PROVE  IInv'
<1> USE CallersAssumption, IdsAssumption, NumbersAssumption, States DEF IInv, Callers
<1> DEFINE reply == Head(conn.replies)
<1>1. /\ reply \in Reply /\ reply = conn.replies[1] /\ 1 \in 1..Len(conn.replies)
      /\ conn.replies \in Messages /\ AllOwned(conn.replies, id, call)
      /\ Tail(conn.replies) \in Seq(Reply)
  BY ConnTypes DEF ConnType, Messages, StreamInv, Recv
<1>2. /\ conn' \in ConnType
      /\ conn'.sent = conn.sent /\ conn'.replies = Tail(conn.replies)
  BY <1>1, ConnTypes DEF ConnType, Recv
<1>3. /\ holder' = None /\ id' = [id EXCEPT ![c] = None] /\ call' = call
      /\ pc[c] = "recv" /\ holder = c
      /\ UNCHANGED <<up, raised, sig, failures>>
  BY DEF Recv, EndAttempt, LockExact, Holding
<1>4. reply.id = id[c] => reply.from = c /\ reply.call = call[c]
  BY <1>1 DEF AllOwned
<1>5. \/ pc' = [pc EXCEPT ![c] = "backoff"] /\ answer' = answer
      \/ /\ pc' = [pc EXCEPT ![c] = "answered"]
         /\ \E kind \in {"error", "wrongId"} :
               answer' = [answer EXCEPT ![c] = [kind |-> kind]]
      \/ /\ pc' = [pc EXCEPT ![c] = "answered"]
         /\ reply.id = id[c]
         /\ answer' = [answer EXCEPT ![c] =
                         [kind |-> "result", from |-> reply.from, call |-> reply.call]]
  BY <1>1, ParseCases DEF Recv
<1>6. answer' \in [Callers -> Answer]
  <2>1. \A kind \in {"error", "wrongId"} : [kind |-> kind] \in Answer
    BY DEF Answer
  <2>2. [kind |-> "result", from |-> reply.from, call |-> reply.call] \in Answer
    BY <1>1 DEF Answer, Reply
  <2>3. answer \in [Callers -> Answer]
    BY DEF TypeOK
  <2>4. answer' = answer \/ \E a \in Answer : answer' = [answer EXCEPT ![c] = a]
    BY <1>5, <2>1, <2>2
  <2> HIDE DEF IInv, Callers
  <2> QED
    BY <2>3, <2>4
<1> HIDE DEF reply
<1>7. TypeOK'
  <2>1. pc' \in [Callers -> CallStates \cup MainStates \cup {"idle"}]
    BY <1>5 DEF TypeOK, CallStates
  <2> QED
    BY <1>2, <1>3, <1>6, <2>1 DEF TypeOK, ConnType
<1>8. LockExact'
  BY <1>3, <1>5 DEF TypeOK, LockExact, Holding
<1>9. IdsInv'
  BY <1>3, <1>5 DEF TypeOK, IdsInv, HasId
<1>10. StreamInv'
  <2>1. \A d \in Callers : Kept(d)
    BY <1>3 DEF Kept, TypeOK
  <2>2. conn.sent \in Messages /\ AllOwned(conn.sent, id, call)
    BY ConnTypes DEF ConnType, Messages, StreamInv
  <2>3. Tail(conn.replies) \in Messages /\ AllOwned(Tail(conn.replies), id, call)
    BY <1>1, OwnedTail DEF Messages, Recv
  <2> QED
    BY <1>2, <2>1, <2>2, <2>3, OwnedStays DEF StreamInv
<1>11. AnswerInv'
  BY <1>3, <1>5 DEF TypeOK, AnswerInv
<1>12. ResultsMatch'
  BY <1>3, <1>4, <1>5 DEF TypeOK, ResultsMatch
<1> QED
  BY <1>7, <1>8, <1>9, <1>10, <1>11, <1>12

LEMMA StepInv == IInv /\ [Next]_vars => IInv'
<1> SUFFICES ASSUME IInv, [Next]_vars PROVE IInv'
  OBVIOUS
<1>1. CASE Environment
  BY <1>1, HandleInv, BreakInv, DaemonStartsInv, RaiseInv DEF Environment
<1>2. CASE \E s \in Signals : SendSignal(s)
  BY <1>2, SendSignalInv
<1>3. CASE \E c \in Callers : CallStep(c)
  BY <1>3, BeginInv, TakeIdInv, LockConnInv, SendInv, RecvInv, RecvClosedInv,
      RecvTimeoutInv,
     LockToReconnectInv, ConnectInv, ElapsedInv, NotifiedInv, InterruptedInv, AnsweredInv
  DEF CallStep
<1>4. CASE Join
  BY <1>4, JoinInv
<1>5. CASE UNCHANGED vars
  BY <1>5 DEF vars, IInv, TypeOK, LockExact, IdsInv, StreamInv, AllOwned, AnswerInv,
      ResultsMatch
<1> QED
  BY <1>1, <1>2, <1>3, <1>4, <1>5 DEF Next

\* The variables keep their types.
THEOREM TypeCorrect == Spec => []TypeOK
<1>1. IInv => TypeOK
  BY DEF IInv
<1> QED
  BY <1>1, InitInv, StepInv, PTL DEF Spec

\* The mutex of the connection is held by the caller that uses the connection.
THEOREM LockIsExact == Spec => []LockExact
<1>1. IInv => LockExact
  BY DEF IInv
<1> QED
  BY <1>1, InitInv, StepInv, PTL DEF Spec

\* A result is handed to the call it answers (parse_jsonrpc_reply compares ids),
\* however many replies to requests that timed out are still in the stream.
THEOREM ResultsAlwaysMatch == Spec => []ResultsMatch
<1>1. IInv => ResultsMatch
  BY DEF IInv
<1> QED
  BY <1>1, InitInv, StepInv, PTL DEF Spec

-----------------------------------------------------------------------------
(* The stream: what is in it, and who keeps it in step.                      *)

LEMMA Invariance == Spec => []IInv
BY InitInv, StepInv, PTL DEF Spec

\* A caller changes its own state only, and the connection only while no other
\* caller holds its mutex.
LEMMA CallerAlone ==
    ASSUME IInv, NEW d \in Callers, CallStep(d), NEW c \in Callers \ {d}
    PROVE  /\ pc'[c] = pc[c] /\ id'[c] = id[c]
           /\ pc[c] \in Holding => conn' = conn
<1>1. pc'[c] = pc[c]
  <2>1. \A reply \in Reply : Parse(d, reply) => pc'[c] = pc[c]
    BY ParseCases DEF IInv, TypeOK
  <2>2. conn.replies # <<>> => Head(conn.replies) \in Reply
    BY DEF IInv, TypeOK
  <2> QED
    BY <2>1, <2>2
    DEF IInv, TypeOK, CallStep, Begin, TakeId, LockConn, Send, Recv, RecvClosed, RecvTimeout,
        LockToReconnect, Connect, Elapsed, Notified, Interrupted, Answered, WaitOver, Go,
        Disconnected, Return
<1>2. id'[c] = id[c]
  BY DEF IInv, TypeOK, CallStep, Begin, TakeId, LockConn, Send, Recv, RecvClosed, RecvTimeout,
        LockToReconnect, Connect, Elapsed, Notified, Interrupted, Answered, WaitOver, EndAttempt
<1>3. ASSUME pc[c] \in Holding PROVE conn' = conn
  <2>1. holder = c /\ c # None /\ pc[d] \notin Holding
    BY <1>3, CallersAssumption DEF IInv, LockExact, Callers
  <2> QED
    BY <2>1
    DEF CallStep, Begin, TakeId, LockConn, Send, Recv, RecvClosed, RecvTimeout,
        LockToReconnect, Connect, Elapsed, Notified, Interrupted, Answered, WaitOver, Holding
<1> QED
  BY <1>1, <1>2, <1>3

\* The request or the reply of an attempt is in the stream.
Coming(c) ==
    \/ \E i \in 1..Len(conn.sent) : conn.sent[i].id = id[c]
    \/ \E i \in 1..Len(conn.replies) : conn.replies[i].id = id[c]

\* A caller that reads after its own step has just sent its request.
LEMMA SentComing ==
    ASSUME IInv, NEW c \in Callers, CallStep(c), pc'[c] = "recv"
    PROVE  Coming(c)'
<1>1. Send(c) /\ conn.open
  <2>1. \A reply \in Reply : Parse(c, reply) => pc'[c] # "recv"
    BY ParseCases DEF IInv, TypeOK
  <2>2. conn.replies # <<>> => Head(conn.replies) \in Reply
    BY DEF IInv, TypeOK
  <2>3. \/ Begin(c) \/ TakeId(c) \/ LockConn(c) \/ RecvClosed(c) \/ RecvTimeout(c)
        \/ LockToReconnect(c) \/ Connect(c) \/ Answered(c)
        => pc'[c] # "recv"
    BY DEF IInv, TypeOK, Begin, TakeId, LockConn, RecvClosed, RecvTimeout, LockToReconnect,
           Connect, Answered, Go, Disconnected
  <2>4. Elapsed(c) \/ Notified(c) \/ Interrupted(c) => pc'[c] # "recv"
    BY DEF IInv, TypeOK, Elapsed, Notified, Interrupted, Waiting, WaitOver, Go, Return
  <2>5. Send(c) /\ ~conn.open => pc'[c] # "recv"
    BY DEF IInv, TypeOK, Send, Go, Disconnected
  <2> QED
    BY <2>1, <2>2, <2>3, <2>4, <2>5 DEF CallStep, Recv
<1> DEFINE m == [id |-> id[c], from |-> c, call |-> call[c]]
<1>2. /\ conn' = [conn EXCEPT !.sent = Append(@, m)] /\ id'[c] = id[c]
      /\ conn \in ConnType /\ m.id = id[c]
  BY <1>1, ConnTypes DEF Send, IInv
<1> HIDE DEF m
<1>3. conn'.sent = Append(conn.sent, m) /\ conn.sent \in Seq(Request)
  BY <1>2 DEF ConnType
<1>4. Len(conn'.sent) = Len(conn.sent) + 1 /\ conn'.sent[Len(conn.sent) + 1] = m
      /\ Len(conn.sent) \in Nat
  BY <1>3
<1>5. Len(conn.sent) + 1 \in 1..Len(conn'.sent)
  BY <1>4
<1> QED
  BY <1>2, <1>4, <1>5 DEF Coming

\* The daemon turns a request into its reply.
LEMMA HandledComing ==
    ASSUME IInv, Handle, NEW c \in Callers, Coming(c)
    PROVE  Coming(c)'
<1>a. PICK r \in Reply :
         /\ r.id = Head(conn.sent).id
         /\ r.from = Head(conn.sent).from /\ r.call = Head(conn.sent).call
         /\ conn' = [conn EXCEPT !.sent = Tail(@), !.replies = Append(@, r)]
  BY Handled DEF IInv
<1>b. /\ conn.sent \in Seq(Request) /\ conn.replies \in Seq(Reply) /\ conn.sent # <<>>
      /\ conn \in ConnType
  BY ConnTypes DEF ConnType, Handle, IInv
<1>e. /\ conn'.sent = Tail(conn.sent) /\ conn'.replies = Append(conn.replies, r)
  BY <1>a, <1>b, AnsweredConn
<1>i. id'[c] = id[c]
  BY DEF Handle
<1>1. CASE \E i \in 1..Len(conn.sent) : conn.sent[i].id = id[c]
  <2> PICK i \in 1..Len(conn.sent) : conn.sent[i].id = id[c]
    BY <1>1
  <2>1. CASE i = 1
    <3>1. r.id = id[c] /\ Len(conn.replies) + 1 \in 1..Len(conn'.replies)
          /\ conn'.replies[Len(conn.replies) + 1] = r
      BY <1>a, <1>b, <1>e, <2>1
    <3> QED
      BY <3>1, <1>i DEF Coming
  <2>2. CASE i # 1
    <3>1. i - 1 \in 1..Len(conn'.sent) /\ conn'.sent[i - 1] = conn.sent[i]
      BY <1>b, <1>e, <2>2
    <3> QED
      BY <3>1, <1>i DEF Coming
  <2> QED
    BY <2>1, <2>2
<1>2. CASE \E i \in 1..Len(conn.replies) : conn.replies[i].id = id[c]
  <2> PICK i \in 1..Len(conn.replies) : conn.replies[i].id = id[c]
    BY <1>2
  <2>1. i \in 1..Len(conn'.replies) /\ conn'.replies[i] = conn.replies[i]
    BY <1>b, <1>e
  <2> QED
    BY <2>1, <1>i DEF Coming
<1> QED
  BY <1>1, <1>2 DEF Coming

LEMMA ComingKeeps == IInv /\ ReplyIsComing /\ [Next]_vars => ReplyIsComing'
<1> SUFFICES ASSUME IInv, ReplyIsComing, [Next]_vars,
                    NEW c \in Callers, pc'[c] = "recv", conn'.open
             PROVE  Coming(c)'
  BY DEF ReplyIsComing, Coming
<1>1. ASSUME pc[c] = "recv", conn' = conn, id'[c] = id[c] PROVE Coming(c)'
  BY <1>1 DEF ReplyIsComing, Coming
<1>2. CASE Handle
  BY <1>2, HandledComing, ConnTypes DEF ReplyIsComing, Coming, Handle
<1>3. CASE Break
  <2>1. conn'.open = FALSE
    BY <1>3, ConnTypes DEF Break, ConnType, IInv
  <2> QED
    BY <2>1
<1>4. CASE \/ DaemonStarts \/ (\E s \in Signals : Raise(s) \/ SendSignal(s)) \/ Join
           \/ UNCHANGED vars
  <2>1. pc[c] = "recv" /\ conn' = conn /\ id' = id
    BY <1>4 DEF DaemonStarts, Raise, SendSignal, Join, vars, Go, IInv, TypeOK
  <2> QED
    BY <1>1, <2>1
<1>5. CASE CallStep(c)
  BY <1>5, SentComing
<1>6. ASSUME NEW d \in Callers \ {c}, CallStep(d) PROVE Coming(c)'
  <2>1. pc[c] = "recv" /\ conn' = conn /\ id'[c] = id[c]
    BY <1>6, CallerAlone DEF Holding
  <2> QED
    BY <1>1, <2>1
<1> QED
  BY <1>2, <1>3, <1>4, <1>5, <1>6 DEF Next, Environment

\* Nobody waits for a reply that cannot come, for any number of threads, however
\* often they time out and reconnect (retry_request, call_jsonrpc).
THEOREM RepliesCome == Spec => []ReplyIsComing
<1>1. Init => ReplyIsComing
  BY DEF Init, ReplyIsComing
<1> QED
  BY <1>1, ComingKeeps, Invariance, PTL DEF Spec

RepairStates == {"backoff", "reconnect", "connect", "connectwait"}

\* What OutOfStep says of a stream, before and after a step.
LEMMA OutOfStepNow ==
    /\ Reading => (OutOfStep <=> conn.open /\ InStream > 1)
    /\ ~Reading => (OutOfStep <=> conn.open /\ InStream > 0)
BY DEF OutOfStep

LEMMA OutOfStepThen ==
    /\ Reading' => (OutOfStep' <=> conn'.open /\ InStream' > 1)
    /\ ~Reading' => (OutOfStep' <=> conn'.open /\ InStream' > 0)
BY DEF OutOfStep

\* A caller that neither reads nor repairs leaves a stream alone as it is.
LEMMA StepSame ==
    ASSUME IInv, OutOfStep', ~Repairing', conn' = conn,
           \A c \in Callers : /\ pc[c] = "recv" <=> pc'[c] = "recv"
                              /\ pc[c] \in RepairStates => pc'[c] \in RepairStates
    PROVE  OutOfStep /\ ~Repairing
<1>1. Reading' = Reading
  BY DEF Reading
<1>2. OutOfStep
  BY <1>1 DEF OutOfStep, InStream
<1>3. ~Repairing
  BY DEF Repairing, RepairStates
<1> QED
  BY <1>2, <1>3

LEMMA Lengths ==
    IInv => /\ Len(conn.sent) \in Nat /\ Len(conn.replies) \in Nat
            /\ conn \in ConnType /\ conn.sent \in Seq(Request) /\ conn.replies \in Seq(Reply)
<1> SUFFICES ASSUME IInv
             PROVE  /\ Len(conn.sent) \in Nat /\ Len(conn.replies) \in Nat
                    /\ conn \in ConnType /\ conn.sent \in Seq(Request)
                    /\ conn.replies \in Seq(Reply)
  OBVIOUS
<1>1. conn \in ConnType
  BY ConnTypes DEF IInv
<1>2. conn.sent \in Seq(Request) /\ conn.replies \in Seq(Reply)
  BY <1>1 DEF ConnType
<1> QED
  BY <1>1, <1>2

LEMMA Sums ==
    ASSUME NEW a \in Nat, NEW b \in Nat
    PROVE  /\ a + b \in Nat
           /\ (a + 1) + b = (a + b) + 1 /\ a + (b - 1) = (a + b) - 1
           /\ (a - 1) + (b + 1) = a + b
OBVIOUS

\* A message more, a reply less, a request that became a reply.
LEMMA StreamLengths ==
    ASSUME IInv
    PROVE  /\ InStream \in Nat
           /\ Len(conn'.sent) = Len(conn.sent) + 1 /\ Len(conn'.replies) = Len(conn.replies)
              => InStream' = InStream + 1
           /\ Len(conn'.sent) = Len(conn.sent) /\ Len(conn'.replies) = Len(conn.replies) - 1
              => InStream' = InStream - 1
           /\ /\ Len(conn'.sent) = Len(conn.sent) - 1
              /\ Len(conn'.replies) = Len(conn.replies) + 1
              => InStream' = InStream
<1>1. /\ Len(conn.sent) + Len(conn.replies) \in Nat
      /\ (Len(conn.sent) + 1) + Len(conn.replies) = (Len(conn.sent) + Len(conn.replies)) + 1
      /\ Len(conn.sent) + (Len(conn.replies) - 1) = (Len(conn.sent) + Len(conn.replies)) - 1
      /\ (Len(conn.sent) - 1) + (Len(conn.replies) + 1) = Len(conn.sent) + Len(conn.replies)
  BY Lengths, Sums
<1> QED
  BY <1>1 DEF InStream

\* The one caller that uses the connection.
LEMMA OneReader ==
    ASSUME IInv, NEW c \in Callers, pc[c] \in Holding, NEW d \in Callers, pc[d] \in Holding
    PROVE  c = d
BY DEF IInv, LockExact

LEMMA InStepCaller ==
    ASSUME IInv, NEW c \in Callers, CallStep(c), OutOfStep', ~Repairing'
    PROVE  \/ OutOfStep /\ ~Repairing
           \/ answer[c].kind # "interrupted" /\ answer'[c].kind = "interrupted"
<1>0. \A d \in Callers \ {c} : pc'[d] = pc[d]
  BY CallerAlone
<1>f. conn' # Fresh
  <2>1. conn' = Fresh => InStream' = 0
    BY DEF Fresh, InStream
  <2> QED
    BY <2>1, OutOfStepThen
<1>1. CASE Begin(c) \/ TakeId(c) \/ LockConn(c) \/ Answered(c)
  <2>1. conn' = conn /\ pc'[c] # "recv" /\ pc[c] # "recv" /\ pc[c] \notin RepairStates
    BY <1>1, <1>f DEF Begin, TakeId, LockConn, Answered, Go, IInv, TypeOK, RepairStates
  <2> QED
    BY <1>0, <2>1, StepSame
<1>2. CASE Send(c)
  <2>1. pc[c] = "send" /\ pc'[c] \notin RepairStates
    BY <1>2 DEF Send, Repairing, RepairStates
  <2>2. conn.open /\ pc'[c] = "recv"
    BY <1>2, <2>1 DEF Send, Disconnected, Go, IInv, TypeOK, RepairStates
  <2>3. InStream \in Nat /\ InStream' = InStream + 1
    <3> DEFINE m == [id |-> id[c], from |-> c, call |-> call[c]]
    <3>1. conn' = [conn EXCEPT !.sent = Append(@, m)]
      BY <1>2, <2>2 DEF Send
    <3> HIDE DEF m
    <3>2. conn'.sent = Append(conn.sent, m) /\ conn'.replies = conn.replies
      BY <3>1, Lengths DEF ConnType
    <3>3. Len(Append(conn.sent, m)) = Len(conn.sent) + 1
      BY Lengths
    <3> QED
      BY <3>2, <3>3, StreamLengths
  <2>4. \A d \in Callers : pc[d] # "recv"
    BY <2>1, OneReader DEF Holding
  <2>5. OutOfStep
    <3>1. ~Reading /\ Reading'
      BY <2>2, <2>4 DEF Reading
    <3>2. conn'.open => conn.open
      BY <2>2
    <3> QED
      BY <2>3, <3>1, <3>2, OutOfStepNow, OutOfStepThen
  <2>6. ~Repairing
    BY <1>0, <2>1 DEF Repairing
  <2> QED
    BY <2>5, <2>6
<1>3. CASE Recv(c)
  <2>1. pc[c] = "recv" /\ pc'[c] # "recv"
    <3>1. Head(conn.replies) \in Reply
      BY <1>3, Lengths DEF Recv
    <3> QED
      BY <1>3, <3>1, ParseCases DEF Recv, IInv, TypeOK
  <2>2. \A d \in Callers : pc'[d] # "recv"
    BY <1>0, <2>1, OneReader DEF Holding
  <2>3. /\ conn'.open = conn.open
        /\ InStream \in Nat /\ InStream' = InStream - 1
    <3>1. conn'.open = conn.open /\ conn'.sent = conn.sent /\ conn'.replies = Tail(conn.replies)
      BY <1>3, Lengths DEF Recv, ConnType
    <3>2. Len(Tail(conn.replies)) = Len(conn.replies) - 1
      BY <1>3, Lengths DEF Recv
    <3> QED
      BY <3>1, <3>2, StreamLengths
  <2>4. OutOfStep
    <3>1. Reading /\ ~Reading'
      BY <2>1, <2>2 DEF Reading
    <3> QED
      BY <2>3, <3>1, OutOfStepNow, OutOfStepThen
  <2>5. ~Repairing
    BY <1>0, <2>1 DEF Repairing
  <2> QED
    BY <2>4, <2>5
<1>4. CASE RecvClosed(c) \/ RecvTimeout(c) \/ LockToReconnect(c)
  <2>1. pc'[c] \in RepairStates
    BY <1>4 DEF RecvClosed, RecvTimeout, LockToReconnect, Disconnected, Go, IInv, TypeOK,
        RepairStates
  <2> QED
    BY <2>1 DEF Repairing, RepairStates
<1>5. CASE Connect(c)
  <2>1. pc'[c] = "connectwait"
    BY <1>5, <1>f DEF Connect, Go, IInv, TypeOK
  <2> QED
    BY <2>1 DEF Repairing
<1>6. CASE Elapsed(c) \/ Notified(c)
  <2>1. conn' = conn /\ pc[c] \in {"wait", "backoff", "connectwait"}
    BY <1>6 DEF Elapsed, Notified, Waiting, WaitOver
  <2>2. /\ pc'[c] # "recv"
        /\ pc[c] \in RepairStates => pc'[c] \in RepairStates
    BY <1>6, <2>1 DEF Elapsed, Notified, WaitOver, Go, IInv, TypeOK, RepairStates
  <2> QED
    BY <1>0, <2>1, <2>2, StepSame
<1>7. CASE Interrupted(c)
  <2>1. CASE pc[c] = "wait"
    <3>1. conn' = conn /\ pc'[c] = "joining"
      BY <1>7, <2>1 DEF Interrupted, Go, IInv, TypeOK
    <3> QED
      BY <1>0, <2>1, <3>1, StepSame DEF RepairStates
  <2>2. CASE pc[c] # "wait"
    <3>1. /\ answer'[c].kind = "interrupted" /\ pc[c] # "answered"
      BY <1>7, <2>2 DEF Interrupted, Waiting, Return, IInv, TypeOK
    <3>2. answer[c].kind # "interrupted"
      BY <3>1 DEF IInv, AnswerInv, Pending
    <3> QED
      BY <3>1, <3>2
  <2> QED
    BY <2>1, <2>2
<1> QED
  BY <1>1, <1>2, <1>3, <1>4, <1>5, <1>6, <1>7 DEF CallStep

\* A stream that is out of step after a read timeout is replaced by the caller
\* that timed out, unless a signal ends its wait (retry_request, Waiter::wait).
THEOREM RepairIsUnderWay == Spec => RepairedUnlessInterrupted
<1> DEFINE StaysRepaired == OutOfStep' /\ ~Repairing' =>
          \/ OutOfStep /\ ~Repairing
          \/ \E c \in Callers : /\ answer[c].kind # "interrupted"
                                /\ answer'[c].kind = "interrupted"
<1>1. ASSUME IInv, [Next]_vars, OutOfStep', ~Repairing'
      PROVE  \/ OutOfStep /\ ~Repairing
             \/ \E c \in Callers : /\ answer[c].kind # "interrupted"
                                   /\ answer'[c].kind = "interrupted"
  <2>1. CASE \E c \in Callers : CallStep(c)
    BY <1>1, <2>1, InStepCaller
  <2>2. CASE Handle
    <3>1. PICK r \in Reply :
             conn' = [conn EXCEPT !.sent = Tail(@), !.replies = Append(@, r)]
      BY <1>1, <2>2, Handled DEF IInv
    <3>2. /\ conn'.open = conn.open
          /\ InStream \in Nat /\ InStream' = InStream
      <4>1. /\ conn'.open = conn.open /\ conn'.sent = Tail(conn.sent)
            /\ conn'.replies = Append(conn.replies, r)
        BY <1>1, <3>1, Lengths DEF ConnType
      <4>2. /\ Len(Tail(conn.sent)) = Len(conn.sent) - 1
            /\ Len(Append(conn.replies, r)) = Len(conn.replies) + 1
        BY <1>1, <2>2, Lengths DEF Handle
      <4> QED
        BY <1>1, <4>1, <4>2, StreamLengths
    <3>3. UNCHANGED pc
      BY <2>2 DEF Handle
    <3>4. Reading' = Reading /\ ~Repairing
      BY <1>1, <3>3 DEF Reading, Repairing
    <3>5. OutOfStep
      BY <1>1, <3>2, <3>4, OutOfStepNow, OutOfStepThen
    <3> QED
      BY <3>4, <3>5
  <2>3. CASE Break
    <3>1. conn'.open = FALSE
      BY <1>1, <2>3, ConnTypes DEF Break, ConnType, IInv
    <3> QED
      BY <1>1, <3>1 DEF OutOfStep
  <2>4. CASE \/ DaemonStarts \/ (\E s \in Signals : Raise(s) \/ SendSignal(s)) \/ Join
             \/ UNCHANGED vars
    <3>1. /\ conn' = conn
          /\ \/ pc' = pc
             \/ pc[main] = "joining" /\ pc' = [pc EXCEPT ![main] = "stopped"]
      BY <2>4 DEF DaemonStarts, Raise, SendSignal, Join, vars, Go
    <3>2. \A c \in Callers : /\ pc[c] = "recv" <=> pc'[c] = "recv"
                             /\ pc[c] \in RepairStates => pc'[c] \in RepairStates
      BY <1>1, <3>1 DEF IInv, TypeOK, RepairStates
    <3> QED
      BY <1>1, <3>1, <3>2, StepSame
  <2> QED
    BY <1>1, <2>1, <2>2, <2>3, <2>4 DEF Next, Environment
<1>2. IInv /\ [Next]_vars => [StaysRepaired]_vars
  BY <1>1
<1> QED
  BY <1>2, Invariance, PTL DEF Spec, RepairedUnlessInterrupted
=============================================================================
