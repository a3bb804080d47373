------------------------------ MODULE StdioWriter ------------------------------
(***************************************************************************)
(* The server's answers on their way to a client on stdio: the event loop  *)
(* puts them into a bounded queue, a daemon thread writes them to stdout,  *)
(* and when the queue is full a worker thread waits for room in the loop's *)
(* place.  A sentinel ends the daemon thread when the session is over.     *)
(*                                                                         *)
(* Source: ietf_llm/mcp/stdio.py.  Messages are numbered as the server     *)
(* sends them.                                                             *)
(***************************************************************************)
EXTENDS Integers, Sequences

CONSTANTS
  MaxSent,    \* bound: messages sent
  QueueItems  \* max_queue_items

ASSUME WriterAssumption == MaxSent \in Nat /\ QueueItems \in Nat \ {0}

Sentinel == 0
Nothing  == 0

VARIABLES
  sent,    \* the messages that stdout_writer has taken from the server's stream
  parked,  \* the one whose put waits for room, or Nothing
  queue,   \* write_queue
  held,    \* what the daemon thread is writing, or Nothing
  out,     \* what the client can read
  writer,  \* the daemon thread: it runs, has drained the queue, or met a broken pipe
  serving  \* has the session not ended?

writerVars == <<sent, parked, queue, held, out, writer, serving>>

WriterInit ==
  /\ sent = 0 /\ parked = Nothing
  /\ queue = <<>> /\ held = Nothing /\ out = <<>>
  /\ writer = "running" /\ serving = TRUE

Room == Len(queue) < QueueItems
Put(item) == queue' = Append(queue, item)

-----------------------------------------------------------------------------
(* The event loop.                                                         *)

\* Mutant of SendNow: the loop does not wait for the thread, and a message overtakes it.
SendNowOvertakes ==
  /\ serving /\ sent < MaxSent /\ Room
  /\ sent' = sent + 1
  /\ Put(sent + 1)
  /\ UNCHANGED <<parked, held, out, writer, serving>>

\* stdout_writer takes a message when the one before is in the queue.
SendNow ==
  /\ serving /\ parked = Nothing /\ sent < MaxSent /\ Room
  /\ sent' = sent + 1
  /\ Put(sent + 1)
  /\ UNCHANGED <<parked, held, out, writer, serving>>

\* No room: a thread waits for it, and the loop for the thread.
SendFull ==
  /\ serving /\ parked = Nothing /\ sent < MaxSent /\ ~Room
  /\ sent' = sent + 1
  /\ parked' = sent + 1
  /\ UNCHANGED <<queue, held, out, writer, serving>>

\* _put_or_give_up: there is room, also when the writer ended just after it was looked for ...
PutParked ==
  /\ parked # Nothing /\ Room
  /\ Put(parked) /\ parked' = Nothing
  /\ UNCHANGED <<sent, held, out, writer, serving>>

\* ... or no one to make any.
GiveUp ==
  /\ parked # Nothing /\ writer # "running"
  /\ parked' = Nothing
  /\ UNCHANGED <<sent, queue, held, out, writer, serving>>

\* The session ends; there may be no room for the sentinel.
Shutdown ==
  /\ serving
  /\ serving' = FALSE
  /\ IF Room THEN Put(Sentinel) ELSE UNCHANGED queue
  /\ UNCHANGED <<sent, parked, held, out, writer>>

-----------------------------------------------------------------------------
(* The daemon thread.                                                      *)

Take ==
  /\ writer = "running" /\ held = Nothing /\ queue # <<>>
  /\ queue' = Tail(queue)
  /\ IF Head(queue) = Sentinel THEN writer' = "drained" /\ UNCHANGED held
                               ELSE held' = Head(queue) /\ UNCHANGED writer
  /\ UNCHANGED <<sent, parked, out, serving>>

\* write(2), until all of it is written.
WriteOut ==
  /\ held # Nothing
  /\ out' = Append(out, held) /\ held' = Nothing
  /\ UNCHANGED <<sent, parked, queue, writer, serving>>

BrokenPipe ==
  /\ held # Nothing
  /\ writer' = "broken" /\ held' = Nothing
  /\ UNCHANGED <<sent, parked, queue, out, serving>>

WriterNext ==
  \/ SendNow \/ SendFull \/ PutParked \/ GiveUp \/ Shutdown
  \/ Take \/ WriteOut \/ BrokenPipe

WriterSpec == WriterInit /\ [][WriterNext]_writerVars

-----------------------------------------------------------------------------
(* Properties.                                                             *)

\* Every variable stays within the values its comment gives.
WriterTypeOK ==
  /\ sent \in 0..MaxSent /\ parked \in 0..MaxSent /\ held \in 0..MaxSent
  /\ queue \in Seq(0..MaxSent) /\ Len(queue) <= QueueItems
  /\ out \in Seq(1..MaxSent)
  /\ writer \in {"running", "drained", "broken"} /\ serving \in BOOLEAN

One(item) == IF item = Nothing THEN <<>> ELSE <<item>>

\* The sentinel's place in the queue: there is one at most, and else the place after the last.
SentinelAt(s) ==
  /\ s \in 1..Len(queue) + 1
  /\ \A i \in 1..Len(queue) : queue[i] = Sentinel <=> i = s

\* As long as the daemon thread runs, every message sent is written, being written,
\* queued or waiting for room, once each and in the order of sending, also when
\* the session has ended.
Accounted ==
  writer = "running" =>
    \E s \in 1..Len(queue) + 1 :
      /\ SentinelAt(s)
      /\ out \o One(held) \o SubSeq(queue, 1, s - 1) \o SubSeq(queue, s + 1, Len(queue)) \o One(parked)
           = [i \in 1..sent |-> i]

\* The client reads the messages in order and without gaps, whatever breaks.
InOrder == \A i \in 1..Len(out) : out[i] = i

\* A session that ends in order loses at most the one message that waited for room
\* while the sentinel was queued.
OneLostAtMost == writer = "drained" => Len(out) >= sent - 1

\* The queue is of its type, in order, and loses nothing that it need not lose.
WriterInv == WriterTypeOK /\ Accounted /\ InOrder /\ OneLostAtMost
=============================================================================
