----------------------------- MODULE AgentSender -----------------------------
(***************************************************************************)
(* How the session of a remote agent shares its one WebSocket                *)
(* (device_agents/hub.py, AgentSession): control messages go first, tunnel     *)
(* data is queued per connection up to a bound and sent in chunks, one          *)
(* connection after the other.  A condition variable wakes the sender task and *)
(* the readers that wait for room.  Sizes are counted in chunks of 8 KB.       *)
(***************************************************************************)
EXTENDS Naturals, Sequences, FiniteSets, SequencesExt

CONSTANTS Conns,      \* tunnel connections
          Controls,   \* callers of send_control
          MaxPending, \* chunks that may be queued for a connection
          MaxPayload  \* chunks read at once from a connection

VARIABLES
  closed,     \* the session is closed
  control,    \* _control_queue
  caller,     \* per caller of send_control: idle, waiting, returned or failed
  queue,      \* _data_queues: per connection, the sizes of its payloads
  pending,    \* _data_pending_bytes
  turns,      \* _round_robin_connections
  gone,       \* _closed_connections
  reader,     \* per connection: the task that reads it: running, blocked or ended
  payload,    \* per connection: what a blocked reader wants to queue
  sender,     \* the sender task: none, ready, or what it is sending
  asleep,     \* who waits on the condition and was not notified yet
  teardown,   \* how far the teardown of the session is: no, closing or done
  passed      \* history: chunks of others since a connection waits for its turn

vars == <<closed, control, caller, queue, pending, turns, gone, reader, payload, sender,
          asleep, teardown, passed>>

NoSender == [pc |-> "none"]
Ready == [pc |-> "ready"]

Init ==
    /\ closed = FALSE /\ control = <<>> /\ turns = <<>> /\ gone = {}
    /\ caller = [w \in Controls |-> "idle"]
    /\ queue = [c \in Conns |-> <<>>] /\ pending = [c \in Conns |-> 0]
    /\ reader = [c \in Conns |-> "running"] /\ payload = [c \in Conns |-> 0]
    /\ sender = NoSender /\ asleep = {} /\ teardown = "no"
    /\ passed = [c \in Conns |-> 0]

NotifyAll == asleep' = {}
\* _ensure_sender_locked
SenderStarted == sender' = IF sender = NoSender THEN Ready ELSE sender

-----------------------------------------------------------------------------
(* Callers.                                                                 *)

\* send_control: queue the message and wait for its future.
SendControl(w) ==
    /\ caller[w] = "idle"
    /\ IF closed
       THEN /\ caller' = [caller EXCEPT ![w] = "failed"]
            /\ UNCHANGED <<control, sender, asleep>>
       ELSE /\ caller' = [caller EXCEPT ![w] = "waiting"]
            /\ control' = Append(control, w)
            /\ SenderStarted /\ NotifyAll
    /\ UNCHANGED <<closed, queue, pending, turns, gone, reader, payload, teardown, passed>>

NoRoom(c, n) == pending[c] + n > MaxPending

\* A slip: the connection is queued for a turn with every payload.
WithTurnAlways(c) == Append(turns, c)

WithTurn(c) == IF queue[c] = <<>> THEN Append(turns, c) ELSE turns

\* send_data under the condition: wait for room, fail, or queue the payload.
TrySend(c, n) ==
    \/ /\ ~closed /\ c \notin gone /\ NoRoom(c, n)
       /\ reader' = [reader EXCEPT ![c] = "blocked"]
       /\ payload' = [payload EXCEPT ![c] = n]
       /\ asleep' = asleep \cup {c}
       /\ UNCHANGED <<queue, pending, turns, passed>>
    \/ /\ closed \/ c \in gone
       /\ reader' = [reader EXCEPT ![c] = "ended"]
       /\ payload' = [payload EXCEPT ![c] = 0]
       /\ UNCHANGED <<queue, pending, turns, asleep, passed>>
    \/ /\ ~closed /\ c \notin gone /\ ~NoRoom(c, n)
       /\ queue' = [queue EXCEPT ![c] = Append(@, n)]
       /\ pending' = [pending EXCEPT ![c] = @ + n]
       /\ turns' = WithTurn(c)
       /\ passed' = [passed EXCEPT ![c] = IF queue[c] = <<>> THEN 0 ELSE @]
       /\ reader' = [reader EXCEPT ![c] = "running"]
       /\ payload' = [payload EXCEPT ![c] = 0]
       /\ NotifyAll

SendData(c, n) ==
    /\ reader[c] = "running"
    /\ TrySend(c, n) /\ SenderStarted
    /\ UNCHANGED <<closed, control, caller, gone, teardown>>

\* A blocked reader was notified and looks again.
Retry(c) ==
    /\ reader[c] = "blocked" /\ c \notin asleep
    /\ TrySend(c, payload[c])
    /\ UNCHANGED <<closed, control, caller, gone, sender, teardown>>

\* The sequence s without c: deque(item for item in s if item != c).
Without(s, c) ==
    LET kept == {i \in DOMAIN s : s[i] # c}
        rank(i) == Cardinality({j \in kept : j <= i})
    IN [k \in 1 .. Cardinality(kept) |-> s[CHOOSE i \in kept : rank(i) = k]]

\* A slip: the reader that waits for room is not told that its connection is closed.
DiscardQuietly(c) ==
    /\ c \notin gone
    /\ gone' = gone \cup {c}
    /\ queue' = [queue EXCEPT ![c] = <<>>] /\ pending' = [pending EXCEPT ![c] = 0]
    /\ turns' = Without(turns, c)
    /\ UNCHANGED <<closed, control, caller, reader, payload, sender, asleep, teardown, passed>>

\* discard_connection_data, when either side has closed the connection.
Discard(c) ==
    /\ c \notin gone
    /\ gone' = gone \cup {c}
    /\ queue' = [queue EXCEPT ![c] = <<>>] /\ pending' = [pending EXCEPT ![c] = 0]
    /\ turns' = Without(turns, c)
    /\ NotifyAll
    /\ UNCHANGED <<closed, control, caller, reader, payload, sender, teardown, passed>>

-----------------------------------------------------------------------------
(* The sender task.                                                         *)

SenderSleeps ==
    /\ sender = Ready /\ "sender" \notin asleep
    /\ ~closed /\ control = <<>> /\ turns = <<>>
    /\ asleep' = asleep \cup {"sender"}
    /\ UNCHANGED <<closed, control, caller, queue, pending, turns, gone, reader, payload,
                   sender, teardown, passed>>

SenderEnds ==
    /\ sender = Ready /\ "sender" \notin asleep /\ closed
    /\ sender' = NoSender
    /\ UNCHANGED <<closed, control, caller, queue, pending, turns, gone, reader, payload,
                   asleep, teardown, passed>>

TakeControl ==
    /\ sender = Ready /\ "sender" \notin asleep /\ ~closed /\ control # <<>>
    /\ sender' = [pc |-> "control", caller |-> Head(control)]
    /\ control' = Tail(control)
    /\ UNCHANGED <<closed, caller, queue, pending, turns, gone, reader, payload, asleep,
                   teardown, passed>>

\* A slip: nobody is told of the room that the chunk leaves.
RoomMadeQuietly == UNCHANGED asleep

RoomMade == NotifyAll

\* A slip: a connection with more data keeps its turn.
NextTurnsKept(c, rest) == IF rest = <<>> THEN Tail(turns) ELSE <<c>> \o Tail(turns)

NextTurns(c, rest) == IF rest = <<>> THEN Tail(turns) ELSE Append(Tail(turns), c)

\* One chunk of the connection whose turn it is; the rest of its payload stays in front.
TakeChunk ==
    /\ sender = Ready /\ "sender" \notin asleep /\ ~closed /\ control = <<>> /\ turns # <<>>
    /\ LET c == Head(turns)
           rest == IF Head(queue[c]) = 1 THEN Tail(queue[c])
                   ELSE <<Head(queue[c]) - 1>> \o Tail(queue[c])
       IN /\ queue' = [queue EXCEPT ![c] = rest]
          /\ pending' = [pending EXCEPT ![c] = @ - 1]
          /\ turns' = NextTurns(c, rest)
          /\ passed' = [d \in Conns |-> IF d = c \/ d \notin ToSet(turns) THEN 0
                                        ELSE IF passed[d] <= Cardinality(Conns) THEN passed[d] + 1
                                        ELSE passed[d]]
    /\ sender' = [pc |-> "data"]
    /\ RoomMade
    /\ UNCHANGED <<closed, control, caller, gone, reader, payload, teardown>>

Sent ==
    /\ sender.pc \in {"control", "data"}
    /\ caller' = IF sender.pc = "control" /\ caller[sender.caller] = "waiting"
                 THEN [caller EXCEPT ![sender.caller] = "returned"] ELSE caller
    /\ sender' = Ready
    /\ UNCHANGED <<closed, control, queue, pending, turns, gone, reader, payload, asleep,
                   teardown, passed>>

\* shutdown_sender under the condition.
Emptied ==
    /\ closed' = TRUE /\ control' = <<>> /\ turns' = <<>>
    /\ queue' = [c \in Conns |-> <<>>] /\ pending' = [c \in Conns |-> 0]
    /\ sender' = NoSender /\ NotifyAll

\* The WebSocket fails under the sender.
SendFails ==
    /\ sender.pc \in {"control", "data"}
    /\ caller' = [w \in Controls |->
                    IF w \in ToSet(control) \/ sender = [pc |-> "control", caller |-> w]
                    THEN "failed" ELSE caller[w]]
    /\ Emptied
    /\ UNCHANGED <<gone, reader, payload, teardown, passed>>

-----------------------------------------------------------------------------
(* The end of the session.                                                  *)

\* _teardown_session: closed without a notification yet.
BeginTeardown ==
    /\ teardown = "no" /\ ~closed
    /\ closed' = TRUE /\ teardown' = "closing"
    /\ UNCHANGED <<control, caller, queue, pending, turns, gone, reader, payload, sender,
                   asleep, passed>>

\* shutdown_sender by the teardown: the sender task is cancelled, also in the middle of a
\* message, whose future nobody sets then.
Shutdown ==
    /\ teardown = "closing" /\ gone = Conns
    /\ teardown' = "done"
    /\ caller' = [w \in Controls |-> IF w \in ToSet(control) THEN "failed" ELSE caller[w]]
    /\ Emptied
    /\ UNCHANGED <<gone, reader, payload, passed>>

Sender == SenderSleeps \/ SenderEnds \/ TakeControl \/ TakeChunk

Next ==
    \/ \E w \in Controls : SendControl(w)
    \/ \E c \in Conns : Retry(c) \/ Discard(c) \/ \E n \in 1 .. MaxPayload : SendData(c, n)
    \/ Sender \/ Sent \/ SendFails \/ BeginTeardown \/ Shutdown

Spec == Init /\ [][Next]_vars

\* The event loop runs what is ready - the sender, blocked readers, the teardown - and a
\* WebSocket takes a message or fails.
Fairness ==
    /\ WF_vars(Sender \/ Sent \/ SendFails)
    /\ \A c \in Conns : WF_vars(Retry(c))
    /\ WF_vars(Shutdown \/ (teardown = "closing" /\ \E c \in Conns : Discard(c)))

FairSpec == Spec /\ Fairness

-----------------------------------------------------------------------------
(* All parts have their types; a sender is there when something is to be sent. *)
TypeOK ==
    /\ closed \in BOOLEAN /\ control \in Seq(Controls) /\ turns \in Seq(Conns)
    /\ caller \in [Controls -> {"idle", "waiting", "returned", "failed"}]
    /\ queue \in [Conns -> Seq(1 .. MaxPayload)] /\ pending \in [Conns -> 0 .. MaxPending]
    /\ gone \subseteq Conns /\ reader \in [Conns -> {"running", "blocked", "ended"}]
    /\ payload \in [Conns -> 0 .. MaxPayload]
    /\ sender \in {NoSender, Ready, [pc |-> "data"]} \cup [pc : {"control"}, caller : Controls]
    /\ asleep \subseteq Conns \cup {"sender"}
    /\ teardown \in {"no", "closing", "done"}

\* What a queue holds, chunk by chunk.
Chunks(q) == {x \in (1 .. Len(q)) \X (1 .. MaxPayload) : x[2] <= q[x[1]]}

(* The counter of a connection is what its queue holds, within the bound, and   *)
(* a connection has one turn coming exactly if it has data: none is served      *)
(* twice a round, none is forgotten with data in its queue.                     *)
QueuesAccounted ==
    \A c \in Conns :
        /\ pending[c] = Cardinality(Chunks(queue[c])) /\ pending[c] <= MaxPending
        /\ Cardinality({i \in DOMAIN turns : turns[i] = c}) = IF queue[c] = <<>> THEN 0 ELSE 1

(* A connection with data waits for at most one chunk of each other one ("so    *)
(* that a video stream does not keep the WebSocket to itself").                 *)
NoMonopoly == \A c \in Conns : passed[c] <= Cardinality(Conns) - 1

(* Whoever sleeps on the condition has reason to, and somebody is there to wake  *)
(* it: there is no room for a reader's payload, and while the session is open    *)
(* the sender is at work on what fills the queue; a session that was closed       *)
(* without a notification is being torn down; and the sender sleeps only when    *)
(* there is nothing to send.                                                     *)
SleepersAreOwed ==
    /\ \A c \in Conns \cap asleep :
          /\ reader[c] = "blocked" /\ c \notin gone /\ NoRoom(c, payload[c])
          /\ ~closed => sender # NoSender /\ "sender" \notin asleep
    /\ "sender" \in asleep => sender = Ready /\ control = <<>> /\ turns = <<>>
    /\ closed /\ asleep # {} => teardown = "closing"

(* A reader that waits for room goes on, or learns that its connection or the   *)
(* session is closed: no wake-up is lost between the sender, the discarding of  *)
(* a connection and the teardown.                                               *)
BlockedReaderGoesOn ==
    \A c \in Conns : reader[c] = "blocked" /\ c \in asleep ~> c \notin asleep

(* "Ends the sender task and lets everybody leave at once who waits for a       *)
(* control message or for room" (shutdown_sender).                              *)
ShutdownAnswersAll == teardown = "done" => \A w \in Controls : caller[w] # "waiting"

=============================================================================
