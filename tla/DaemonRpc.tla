------------------------------ MODULE DaemonRpc ------------------------------
(* The JSON-RPC client of the daemon (daemon.rs), the signal Waiter that its *)
(* retry loop and the main loop share (signal.rs), and the main loop that    *)
(* waits and asks for the best block (bin/electrs.rs).                       *)
(*                                                                           *)
(* Every request of the REST and Electrum threads and of the main loop goes  *)
(* through ONE connection behind a mutex.  A request takes an id, locks the  *)
(* connection, writes, reads one reply and unlocks; when the connection      *)
(* fails it waits three seconds WITHOUT the lock, reconnects under the lock  *)
(* and asks again.  All these waits, and the main loop's, receive from the   *)
(* same channels: a signal reaches exactly one of them.                      *)
(*                                                                           *)
(* Abstractions.  Only equality of ids matters, so the counter is any fresh  *)
(* id of a finite set.  A reply arrives whole.  A call is its caller and a   *)
(* number (modulo CallNumbers): what the reply answers.  The connections of  *)
(* the rayon pool are not shared and are left out.  What the main loop does  *)
(* between two requests (indexer, mempool, notify) is in other modules.      *)
EXTENDS Naturals, Sequences, FiniteSets

CONSTANTS Threads,      \* REST and Electrum threads that handle a request
          main,         \* the main thread
          None,         \* no holder of the lock, an empty signal channel
          Ids,          \* message ids
          CallNumbers,  \* how many calls of one caller are told apart
          MaxFailures   \* bound: failures of the connection and of the daemon

ASSUME CallersAssumption == main \notin Threads /\ None \notin Threads \cup {main}
ASSUME IdsAssumption == None \notin Ids
ASSUME NumbersAssumption == CallNumbers \in Nat \ {0} /\ MaxFailures \in Nat

Callers == Threads \cup {main}

VARIABLES
    up,        \* the daemon accepts connections
    conn,      \* the shared connection: open, requests the daemon has not
               \* handled, replies that have not been read
    holder,    \* who holds the connection's mutex
    pc,        \* where each caller is
    id,        \* the id of the attempt of each caller, or None
    call,      \* the number of the latest call of each caller
    answer,    \* what the latest call returned
    raised,    \* signals the process has, before the signal thread sent them
    sig,       \* the signal in the channel of capacity one, or None
    failures   \* counted for MaxFailures

vars == <<up, conn, holder, pc, id, call, answer, raised, sig, failures>>

Signals == {"TERM", "USR1"}

(* A reply is a result, an RPC error, or the error of a daemon that is still *)
(* warming up.                                                               *)
Request == [id : Ids, from : Callers, call : 0..CallNumbers - 1]
Reply == [id : Ids, from : Callers, call : 0..CallNumbers - 1,
          kind : {"result", "error", "warmup"}]

(* What a call returns: a result, which says whose reply it is; an error of  *)
(* the daemon; a reply with another id; or the signal that interrupted it.   *)
Pending == [kind |-> "pending"]
Answer == [kind : {"pending", "error", "wrongId", "interrupted"}]
            \cup [kind : {"result"}, from : Callers, call : 0..CallNumbers - 1]

Fresh == [open |-> TRUE, sent |-> <<>>, replies |-> <<>>]

MainStates == {"wait", "joining", "stopped", "failed"}
CallStates == {"request", "lock", "send", "recv", "backoff", "reconnect",
               "connect", "connectwait", "answered"}

(* A caller that holds the mutex.                                            *)
Holding == {"send", "recv", "connect", "connectwait"}
(* A caller whose attempt has an id.                                         *)
HasId == {"lock", "send", "recv"}

TypeOK ==
    /\ up \in BOOLEAN
    /\ conn \in [open : BOOLEAN, sent : Seq(Request), replies : Seq(Reply)]
    /\ holder \in Callers \cup {None}
    /\ pc \in [Callers -> CallStates \cup MainStates \cup {"idle"}]
    /\ id \in [Callers -> Ids \cup {None}]
    /\ call \in [Callers -> 0..CallNumbers - 1]
    /\ answer \in [Callers -> Answer]
    /\ raised \subseteq Signals
    /\ sig \in Signals \cup {None}
    /\ failures \in 0..MaxFailures

Init ==
    /\ up = TRUE
    /\ conn = Fresh
    /\ holder = None
    /\ pc = [c \in Callers |-> IF c = main THEN "wait" ELSE "idle"]
    /\ id = [c \in Callers |-> None]
    /\ call = [c \in Callers |-> 0]
    /\ answer = [c \in Callers |-> Pending]
    /\ raised = {}
    /\ sig = None
    /\ failures = 0

(* The process runs until the main thread returns from run_server.           *)
Running == pc[main] \notin {"stopped", "failed"}

Go(c, state) == pc' = [pc EXCEPT ![c] = state]
Return(c, value) == Go(c, "answered") /\ answer' = [answer EXCEPT ![c] = value]

InUse == {m.id : m \in {conn.sent[i] : i \in DOMAIN conn.sent}
                         \cup {conn.replies[i] : i \in DOMAIN conn.replies}}
           \cup {id[c] : c \in Callers}

-----------------------------------------------------------------------------
(* A request.                                                                *)

(* A client's request needs the daemon (broadcast, fees, a raw transaction). *)
(* Once the main thread stops the servers no new request starts here.        *)
Begin(c) ==
    /\ Running /\ c # main /\ pc[c] = "idle" /\ pc[main] # "joining"
    /\ Go(c, "request")
    /\ call' = [call EXCEPT ![c] = (@ + 1) % CallNumbers]
    /\ UNCHANGED <<up, conn, holder, id, answer, raised, sig, failures>>

(* handle_request: the id is taken before the connection is locked.          *)
TakeId(c) ==
    /\ Running /\ pc[c] = "request" /\ Ids \ InUse # {}
    /\ id' = [id EXCEPT ![c] = CHOOSE i \in Ids : i \notin InUse]
    /\ Go(c, "lock")
    /\ UNCHANGED <<up, conn, holder, call, answer, raised, sig, failures>>

(* call_jsonrpc: lock, and perhaps recycle a connection past its maximal     *)
(* age; when the one attempt to connect fails the old connection stays.      *)
LockConn(c) ==
    /\ Running /\ pc[c] = "lock" /\ holder = None
    /\ holder' = c
    /\ conn' \in {conn} \cup (IF up THEN {Fresh} ELSE {})
    /\ Go(c, "send")
    /\ UNCHANGED <<up, id, call, answer, raised, sig, failures>>

(* An attempt that ends with a Connection error.                             *)
Disconnected(c) == Go(c, "backoff") /\ UNCHANGED answer

\* Mutant: the lock is not released when an attempt ends.
EndAttemptStillLocked(c) == id' = [id EXCEPT ![c] = None] /\ UNCHANGED holder

EndAttempt(c) == holder' = None /\ id' = [id EXCEPT ![c] = None]

Send(c) ==
    /\ Running /\ pc[c] = "send"
    /\ \/ /\ conn.open
          /\ conn' = [conn EXCEPT !.sent =
                        Append(@, [id |-> id[c], from |-> c, call |-> call[c]])]
          /\ Go(c, "recv")
          /\ UNCHANGED <<holder, id, answer>>
       \/ /\ ~conn.open
          /\ Disconnected(c)
          /\ EndAttempt(c)
          /\ UNCHANGED conn
    /\ UNCHANGED <<up, call, raised, sig, failures>>

\* Mutant: the id of a reply is not compared.
ParseAnyId(c, reply) ==
    CASE reply.kind = "warmup" -> Disconnected(c)
      [] reply.kind = "error" -> Return(c, [kind |-> "error"])
      [] reply.kind = "result" ->
            Return(c, [kind |-> "result", from |-> reply.from, call |-> reply.call])

\* Mutant: the reply is returned whole.
ParseReturnsReply(c, reply) ==
    IF reply.kind = "warmup" THEN Disconnected(c) ELSE Return(c, reply)

(* parse_jsonrpc_reply: errors come first and are not matched with the id.   *)
Parse(c, reply) ==
    CASE reply.kind = "warmup" -> Disconnected(c)
      [] reply.kind = "error" -> Return(c, [kind |-> "error"])
      [] reply.kind = "result" /\ reply.id # id[c] -> Return(c, [kind |-> "wrongId"])
      [] reply.kind = "result" /\ reply.id = id[c] ->
            Return(c, [kind |-> "result", from |-> reply.from, call |-> reply.call])

(* One reply is read and the lock is released: the next reply of the stream, *)
(* whoever asked for it.                                                     *)
Recv(c) ==
    /\ Running /\ pc[c] = "recv" /\ conn.replies # <<>>
    /\ Parse(c, Head(conn.replies))
    /\ conn' = [conn EXCEPT !.replies = Tail(@)]
    /\ EndAttempt(c)
    /\ UNCHANGED <<up, call, raised, sig, failures>>

(* The daemon closed the connection before it replied.                       *)
RecvClosed(c) ==
    /\ Running /\ pc[c] = "recv" /\ conn.replies = <<>> /\ ~conn.open
    /\ Disconnected(c)
    /\ EndAttempt(c)
    /\ UNCHANGED <<up, conn, call, raised, sig, failures>>

\* Mutant: a read that timed out is an error of the call, not of the connection.
RecvTimeoutReturns(c) ==
    /\ Running /\ pc[c] = "recv" /\ conn.replies = <<>> /\ conn.open
    /\ failures < MaxFailures
    /\ failures' = failures + 1
    /\ Return(c, [kind |-> "error"])
    /\ EndAttempt(c)
    /\ UNCHANGED <<up, conn, call, raised, sig>>

(* The read timeout: the connection stays open and the reply may come later. *)
RecvTimeout(c) ==
    /\ Running /\ pc[c] = "recv" /\ conn.replies = <<>> /\ conn.open
    /\ failures < MaxFailures
    /\ failures' = failures + 1
    /\ Disconnected(c)
    /\ EndAttempt(c)
    /\ UNCHANGED <<up, conn, call, raised, sig>>

\* Mutant: the connection is replaced without its lock.
ReconnectUnlocked(c) ==
    /\ Running /\ pc[c] = "reconnect"
    /\ Go(c, "connect")
    /\ UNCHANGED <<up, conn, holder, id, call, answer, raised, sig, failures>>

LockToReconnect(c) ==
    /\ Running /\ pc[c] = "reconnect" /\ holder = None
    /\ holder' = c
    /\ Go(c, "connect")
    /\ UNCHANGED <<up, conn, id, call, answer, raised, sig, failures>>

\* Mutant: the old stream is used again.
ConnectKeepsStream(c) ==
    /\ Running /\ pc[c] = "connect"
    /\ IF up THEN Go(c, "request") /\ holder' = None
             ELSE Go(c, "connectwait") /\ UNCHANGED holder
    /\ UNCHANGED <<up, conn, id, call, answer, raised, sig, failures>>

(* tcp_connect: connect, or wait with the lock held and try again.           *)
Connect(c) ==
    /\ Running /\ pc[c] = "connect"
    /\ \/ /\ up
          /\ conn' = Fresh /\ holder' = None /\ Go(c, "request")
       \/ /\ ~up
          /\ Go(c, "connectwait")
          /\ UNCHANGED <<conn, holder>>
    /\ UNCHANGED <<up, id, call, answer, raised, sig, failures>>

-----------------------------------------------------------------------------
(* Waiter::wait.                                                             *)

Waiting(c) == Running /\ pc[c] \in {"wait", "backoff", "connectwait"}

(* What a caller does when its wait returns Ok: only the main loop also      *)
(* accepts a notification as a reason to stop waiting.                       *)
WaitOver(c) ==
    /\ Go(c, CASE pc[c] = "wait" -> "request"
               [] pc[c] = "backoff" -> "reconnect"
               [] pc[c] = "connectwait" -> "connect")
    /\ IF pc[c] = "wait"
       THEN call' = [call EXCEPT ![c] = (@ + 1) % CallNumbers]
       ELSE UNCHANGED call
    /\ UNCHANGED <<up, conn, holder, id, answer, raised, failures>>

(* The time is over.  A block hash of the ZeroMQ channel has the same effect *)
(* on the main loop and none on another waiter, so it has no action.         *)
Elapsed(c) ==
    /\ Waiting(c)
    /\ WaitOver(c)
    /\ UNCHANGED sig

(* SIGUSR1: one waiter gets it; unless that is the main loop it waits for    *)
(* the rest of its time and the notification is gone.                        *)
Notified(c) ==
    /\ Waiting(c) /\ sig = "USR1"
    /\ sig' = None
    /\ IF pc[c] = "wait"
       THEN WaitOver(c)
       ELSE UNCHANGED <<up, conn, holder, pc, id, call, answer, raised, failures>>

(* SIGTERM or SIGINT: Err(Interrupt).  The main loop stops; the call of      *)
(* another waiter returns the error to its client.                           *)
Interrupted(c) ==
    /\ Waiting(c) /\ sig = "TERM"
    /\ sig' = None
    /\ IF pc[c] = "wait"
       THEN Go(c, "joining") /\ UNCHANGED <<answer, holder>>
       ELSE /\ Return(c, [kind |-> "interrupted"])
            /\ holder' = IF holder = c THEN None ELSE holder
    /\ UNCHANGED <<up, conn, id, call, raised, failures>>

\* Mutant: a signal that finds the channel full is dropped.
TrySendSignal(s) ==
    /\ Running /\ s \in raised
    /\ sig' = IF sig = None THEN s ELSE sig
    /\ raised' = raised \ {s}
    /\ UNCHANGED <<up, conn, holder, pc, id, call, answer, failures>>

(* The signal thread: a blocking send on the channel.                        *)
SendSignal(s) ==
    /\ Running /\ sig = None /\ s \in raised
    /\ sig' = s
    /\ raised' = raised \ {s}
    /\ UNCHANGED <<up, conn, holder, pc, id, call, answer, failures>>

-----------------------------------------------------------------------------
(* The caller goes on.  An error ends the main loop and the process.         *)
Answered(c) ==
    /\ Running /\ pc[c] = "answered"
    /\ Go(c, CASE c # main -> "idle"
               [] c = main /\ answer[c].kind = "result" -> "wait"
               [] c = main /\ answer[c].kind # "result" -> "failed")
    /\ answer' = [answer EXCEPT ![c] = Pending]
    /\ UNCHANGED <<up, conn, holder, id, call, raised, sig, failures>>

(* The Electrum server is dropped, which joins its threads.                  *)
Join ==
    /\ pc[main] = "joining"
    /\ \A t \in Threads : pc[t] = "idle"
    /\ Go(main, "stopped")
    /\ UNCHANGED <<up, conn, holder, id, call, answer, raised, sig, failures>>

-----------------------------------------------------------------------------
(* Outside: the daemon, its notifications and the operating system.          *)

Handle ==
    /\ conn.open /\ conn.sent # <<>>
    /\ \E kind \in {"result", "error", "warmup"} :
          /\ failures' = failures + (IF kind = "result" THEN 0 ELSE 1)
          /\ failures' <= MaxFailures
          /\ conn' = [conn EXCEPT !.sent = Tail(@),
                        !.replies = Append(@, [id |-> Head(conn.sent).id,
                                               from |-> Head(conn.sent).from,
                                               call |-> Head(conn.sent).call,
                                               kind |-> kind])]
    /\ UNCHANGED <<up, holder, pc, id, call, answer, raised, sig>>

(* The daemon stops, or only this connection breaks.                         *)
Break ==
    /\ conn.open /\ failures < MaxFailures
    /\ failures' = failures + 1
    /\ up' \in {FALSE, up}
    /\ conn' = [conn EXCEPT !.open = FALSE, !.sent = <<>>]
    /\ UNCHANGED <<holder, pc, id, call, answer, raised, sig>>

DaemonStarts ==
    /\ ~up
    /\ up' = TRUE
    /\ UNCHANGED <<conn, holder, pc, id, call, answer, raised, sig, failures>>

Raise(s) ==
    /\ Running /\ s \notin raised
    /\ raised' = raised \cup {s}
    /\ UNCHANGED <<up, conn, holder, pc, id, call, answer, sig, failures>>

Environment == Handle \/ Break \/ DaemonStarts \/ \E s \in Signals : Raise(s)

CallStep(c) ==
    \/ Begin(c) \/ TakeId(c) \/ LockConn(c) \/ Send(c) \/ Recv(c) \/ RecvClosed(c)
    \/ RecvTimeout(c) \/ LockToReconnect(c) \/ Connect(c)
    \/ Elapsed(c) \/ Notified(c) \/ Interrupted(c) \/ Answered(c)

Next == \/ Environment
        \/ \E s \in Signals : SendSignal(s)
        \/ \E c \in Callers : CallStep(c)
        \/ Join

Spec == Init /\ [][Next]_vars

(* Threads run and timers expire.  A mutex, or a signal in the channel, that *)
(* a thread finds available again and again is taken in the end: the main    *)
(* loop leaves the lock alone for five seconds at a time, and select picks   *)
(* at random among what is ready; the signal thread goes round the pending   *)
(* signals.  The daemon replies while the connection is open; it need not    *)
(* come back once it stopped.                                                *)
Step(c) == \/ TakeId(c) \/ Send(c) \/ Recv(c) \/ RecvClosed(c)
           \/ Connect(c) \/ Elapsed(c) \/ Answered(c)

Fairness ==
    /\ WF_vars(Handle) /\ WF_vars(Join)
    /\ \A s \in Signals : SF_vars(SendSignal(s))
    /\ \A c \in Callers :
          /\ WF_vars(Step(c))
          /\ SF_vars(LockConn(c) \/ LockToReconnect(c))
          /\ SF_vars(Notified(c) \/ Interrupted(c))

FairSpec == Spec /\ Fairness

-----------------------------------------------------------------------------
(* The mutex of the connection is held by the one caller that uses it, so a  *)
(* request and its reply are not torn apart while the lock is held.          *)
LockExact == \A c \in Callers : (holder = c) <=> (pc[c] \in Holding)

(* A result is handed to the call it answers, although after a read timeout  *)
(* replies to other requests are still in the stream.                        *)
ResultsMatch ==
    \A c \in Callers :
       answer[c].kind = "result" => answer[c].from = c /\ answer[c].call = call[c]

(* Nobody waits for a reply that cannot come: while the connection is open    *)
(* the request of the caller that reads, or its reply, is in the stream,     *)
(* whatever others read from it, timed out on or tried to reconnect.         *)
ReplyIsComing ==
    \A c \in Callers :
       pc[c] = "recv" /\ conn.open =>
          \/ \E i \in 1..Len(conn.sent) : conn.sent[i].id = id[c]
          \/ \E i \in 1..Len(conn.replies) : conn.replies[i].id = id[c]

(* After a read timeout every request reads the reply of an earlier one. The *)
(* caller that timed out is on its way to replace the connection             *)
(* (retry_request): only a signal that ends its wait leaves a connection     *)
(* that is out of step to the callers that read from it.                     *)
Reading == \E c \in Callers : pc[c] = "recv"

InStream == Len(conn.sent) + Len(conn.replies)

OutOfStep == conn.open /\ InStream > (IF Reading THEN 1 ELSE 0)

Repairing ==
    \E c \in Callers : pc[c] \in {"backoff", "reconnect", "connect", "connectwait"}

RepairedUnlessInterrupted ==
    [][OutOfStep' /\ ~Repairing' =>
          \/ OutOfStep /\ ~Repairing
          \/ \E c \in Callers : /\ answer[c].kind # "interrupted"
                                /\ answer'[c].kind = "interrupted"]_vars

(* SIGTERM is never lost on the way to a waiter: it ends the process, or the *)
(* call of a client that waited for the daemon reports it.                   *)
TermHeard ==
    ("TERM" \in raised) ~>
       (\/ pc[main] \in {"joining", "stopped", "failed"}
        \/ \E c \in Callers : answer[c].kind = "interrupted")

(* As long as the daemon keeps coming back every call returns, and a process *)
(* that is stopping does stop: nobody waits for the connection's lock, or    *)
(* retries on a dead connection, for ever.                                   *)
CallsReturn ==
    []<>up => /\ \A t \in Threads :
                    (pc[t] \in CallStates) ~> (pc[t] = "idle" \/ ~Running)
              /\ (pc[main] = "joining") ~> (pc[main] = "stopped")
=============================================================================
