---------------------------- MODULE Wasip3Runtime ----------------------------
(***************************************************************************)
(* The in-guest provider of wasip3-impl: one peer connection's `Shared`     *)
(* state (runtime.rs), the detached pump that owns the sans-I/O core, and   *)
(* the exported data-channel / peer-connection methods (provider.rs) that   *)
(* observe the shared state and park on its StateWatch.                     *)
(*                                                                          *)
(* All tasks run on one cooperative executor, so an action is the code      *)
(* between two await points.  The one exception is the pump's drain of the  *)
(* core's events, which the code does under a single borrow of `Shared`:    *)
(* it is a sequence of actions, one per event, during which Borrowed keeps  *)
(* every other task out.                                                    *)
(*                                                                          *)
(* The core (the external `rtc` crate) and the network are an environment:  *)
(* at each drain the core may report any event its protocol allows.         *)
(* Messages of a channel are numbered 1, 2, ... in the order the core       *)
(* yields them; a workload w gives their sizes: w[n] is the number of bytes *)
(* in the first n messages.                                                 *)
(***************************************************************************)
EXTENDS Integers, Sequences

CONSTANTS Channels,   \* ids of the connection's data channels
          Tasks,      \* guest tasks: each runs one async call at a time
          Limit,      \* max_inbound_buffer_bytes()
          MaxMsgs,    \* bound: messages the core yields per channel
          MaxOut,     \* bound: datagrams queued in the core for transmission
          Workloads   \* sets of cumulative message sizes

ASSUME LimitAssumption == Limit \in Nat
ASSUME BoundAssumption == MaxMsgs \in Nat /\ MaxOut \in Nat
ASSUME ChannelsAssumption == Channels # {}
ASSUME WorkloadAssumption ==
  \A w \in Workloads :
    /\ w \in [0..MaxMsgs -> Nat]
    /\ w[0] = 0
    /\ \A m, n \in 0..MaxMsgs : m <= n => w[m] <= w[n]

VARIABLES
  chan,              \* Shared.channels: what is tracked of each channel
  created,           \* channels created by create-data-channel
  connected, failed, closed,                              \* Shared flags
  close_requested, shutdown_complete, drain_deadline,     \* Shared flags
  pc, done, had_events,      \* the pump: await point and locals
  wake,              \* a unit is queued on the pump's wake channel
  outbox,            \* core: datagrams poll_transmit would return
  workload, arrived, \* core: sizes and number of the messages yielded so far
  call,              \* the call each task is executing
  parked,            \* tasks whose waker is registered with the StateWatch
  taken,             \* history: number of the last message handed out
  ended,             \* history: the ending `receive` last reported
  lost               \* history: the core was closed with transmits queued

connVars == <<connected, failed, closed, close_requested, shutdown_complete, drain_deadline>>
pumpVars == <<pc, done, had_events>>
chanVars == <<chan, created>>
coreVars == <<workload, arrived>>
histVars == <<taken, ended, lost>>
vars == <<chanVars, connVars, pumpVars, wake, outbox, coreVars, call, parked, histVars>>

-----------------------------------------------------------------------------
(* State *)

Ops == {"idle", "send", "receive", "wait_connected", "pump_receive"}
NoCall == [op |-> "idle", ch |-> CHOOSE c \in Channels : TRUE, held |-> 0]
Calls == [op : Ops, ch : Channels, held : 0..MaxMsgs]

ChannelRecord == [tracked : BOOLEAN, inbox : Seq(1..MaxMsgs), inbox_bytes : Nat,
                  overflowed : BOOLEAN, stream_claimed : BOOLEAN, closed : BOOLEAN]
Untracked == [tracked |-> FALSE, inbox |-> <<>>, inbox_bytes |-> 0, overflowed |-> FALSE,
              stream_claimed |-> FALSE, closed |-> FALSE]
\* Mutant of NewChannel: a late open yields a usable channel.
NewOpenChannel(isClosed) == [Untracked EXCEPT !.tracked = TRUE]
NewChannel(isClosed) == [Untracked EXCEPT !.tracked = TRUE, !.closed = isClosed]

dead == closed \/ failed
Size(c, n) == workload[c][n] - workload[c][n - 1]

\* The drain holds the only mutable borrow of Shared.
Borrowed == pc \in {"events", "messages"}

\* A guest holds a handle onto a channel it created or that the pump surfaced.
Handle(c) == c \in created \/ chan[c].tracked

ChannelState(c) ==
  IF chan[c].tracked
    THEN IF chan[c].closed THEN "closed" ELSE "open"
    ELSE IF dead THEN "closed" ELSE "opening"

\* StateWatch::notify wakes, and unregisters, every waiter.
Notify == parked' = {}

\* Mutant of NotifyIfChanged: only connection state changes wake.
NotifyIfDead == IF dead THEN Notify ELSE UNCHANGED parked
\* The pump notifies after a drain that applied something.
NotifyIfChanged == IF had_events THEN Notify ELSE UNCHANGED parked

CloseAll(ch) == [c \in Channels |-> IF ch[c].tracked THEN [ch[c] EXCEPT !.closed = TRUE] ELSE ch[c]]

\* Mutant of Oldest: the backlog is used as a stack.
Newest(c) == chan[c].inbox[Len(chan[c].inbox)]
Oldest(c) == Head(chan[c].inbox)

\* Mutants of Pop: the bytes are not released, or released twice.
PopKeepsBytes(c) == [chan EXCEPT ![c].inbox = Tail(@)]
PopReleasesTwice(c) == [chan EXCEPT ![c].inbox = Tail(@), ![c].inbox_bytes = @ - 2 * Size(c, Oldest(c))]
Pop(c) ==
  LET m == chan[c]
  IN [chan EXCEPT ![c] = [m EXCEPT !.inbox = Tail(m.inbox),
                                   !.inbox_bytes = m.inbox_bytes - Size(c, Oldest(c))]]

\* Mutant of Finished: the backlog is not drained first.
FinishedEarly(c) == chan[c].overflowed \/ ChannelState(c) = "closed"
\* The backlog is drained and nothing will be added to it.
Finished(c) == chan[c].inbox = <<>> /\ (chan[c].overflowed \/ ChannelState(c) = "closed")

TypeOK ==
  /\ chan \in [Channels -> ChannelRecord]
  /\ created \in SUBSET Channels
  /\ connected \in BOOLEAN /\ failed \in BOOLEAN /\ closed \in BOOLEAN
  /\ close_requested \in BOOLEAN /\ shutdown_complete \in BOOLEAN
  /\ drain_deadline \in {"unset", "set", "lapsed"}
  /\ pc \in {"unstarted", "flush", "events", "messages", "reflush", "park", "stopped"}
  /\ done \in BOOLEAN /\ had_events \in BOOLEAN
  /\ wake \in BOOLEAN
  /\ outbox \in 0..MaxOut
  /\ workload \in [Channels -> Workloads]
  /\ arrived \in [Channels -> 0..MaxMsgs]
  /\ call \in [Tasks -> Calls]
  /\ parked \in SUBSET Tasks
  /\ taken \in [Channels -> 0..MaxMsgs]
  /\ ended \in [Channels -> {"none", "closed", "overflow"}]
  /\ lost \in BOOLEAN

\* A live connection before its first async call, or the `dead_shared` one a
\* failed bind leaves behind.
Init ==
  /\ chan = [c \in Channels |-> Untracked]
  /\ created = {}
  /\ connected = FALSE
  /\ \/ failed = FALSE /\ closed = FALSE /\ shutdown_complete = FALSE /\ pc = "unstarted"
     \/ failed = TRUE /\ closed = TRUE /\ shutdown_complete = TRUE /\ pc = "stopped"
  /\ close_requested = FALSE
  /\ drain_deadline = "unset"
  /\ done = FALSE /\ had_events = FALSE
  /\ wake = FALSE
  /\ outbox = 0
  /\ workload \in [Channels -> Workloads]
  /\ arrived = [c \in Channels |-> 0]
  /\ call = [t \in Tasks |-> NoCall]
  /\ parked = {}
  /\ taken = [c \in Channels |-> 0]
  /\ ended = [c \in Channels |-> "none"]
  /\ lost = FALSE

-----------------------------------------------------------------------------
(* Calls of the guest *)

\* create-data-channel: the core allocates an id; the channel is tracked only
\* once the pump drains its open event.
CreateDataChannel(c) ==
  /\ ~Borrowed
  /\ ~Handle(c)
  /\ created' = created \union {c}
  /\ UNCHANGED <<chan, connVars, pumpVars, wake, outbox, coreVars, call, parked, histVars>>

\* create-offer, create-answer, set-*-description and add-ice-candidate: start
\* the pump if this is the first async call, change the core, nudge the pump.
Signal ==
  /\ ~Borrowed
  /\ pc' = IF pc = "unstarted" THEN "flush" ELSE pc
  /\ wake' \in {wake, TRUE}
  /\ UNCHANGED <<chanVars, connVars, done, had_events, outbox, coreVars, call, parked, histVars>>

\* Mutant of RequestClose: the core is closed at once, with what it has queued.
CloseCoreNow ==
  /\ UNCHANGED close_requested
  /\ lost' = (lost \/ outbox > 0)
  /\ outbox' = 0
\* The core's close is left to the pump, which flushes first.
RequestClose == close_requested' = TRUE /\ UNCHANGED <<lost, outbox>>

\* Mutant of NotifyClose: the closing task wakes no one.
NotifyNobody == UNCHANGED parked
NotifyClose == Notify

\* close: Shared::begin_close, then a wake.
BeginClose ==
  /\ ~Borrowed
  /\ IF dead
       THEN UNCHANGED <<chan, connVars, parked, lost, outbox>>
       ELSE /\ closed' = TRUE
            /\ RequestClose
            /\ chan' = CloseAll(chan)
            /\ drain_deadline' = "set"
            /\ NotifyClose
            /\ UNCHANGED <<connected, failed, shutdown_complete>>
  /\ wake' = TRUE
  /\ UNCHANGED <<created, pumpVars, coreVars, call, taken, ended>>

StartCall(t, op, c) ==
  /\ ~Borrowed
  /\ call[t].op = "idle"
  /\ call' = [call EXCEPT ![t] = [op |-> op, ch |-> c, held |-> 0]]
  /\ UNCHANGED <<chanVars, connVars, done, had_events, outbox, coreVars, histVars>>

CallReceive(t, c) ==
  /\ Handle(c)
  /\ StartCall(t, "receive", c)
  /\ UNCHANGED <<parked, pc, wake>>

CallSend(t, c) ==
  /\ Handle(c)
  /\ StartCall(t, "send", c)
  /\ UNCHANGED <<parked, pc, wake>>

CallWaitConnected(t) ==
  /\ StartCall(t, "wait_connected", NoCall.ch)
  /\ pc' = IF pc = "unstarted" THEN "flush" ELSE pc
  /\ UNCHANGED <<parked, wake>>

NotifyClaim == Notify

\* receive-via-stream: the once-only check and the claim only see a channel
\* that is tracked; on success a pump_receive task is spawned either way.
ReceiveViaStream(t, c) ==
  /\ Handle(c)
  /\ ~chan[c].stream_claimed
  /\ ChannelState(c) # "closed"
  /\ ~Borrowed
  /\ call[t].op = "idle"
  /\ call' = [call EXCEPT ![t] = [op |-> "pump_receive", ch |-> c, held |-> 0]]
  /\ IF chan[c].tracked
       THEN chan' = [chan EXCEPT ![c].stream_claimed = TRUE] /\ NotifyClaim
       ELSE UNCHANGED <<chan, parked>>
  /\ UNCHANGED <<created, connVars, pumpVars, wake, outbox, coreVars, histVars>>

-----------------------------------------------------------------------------
(* Polls of the calls: the code from one await to the next *)

Runnable(t, op) == ~Borrowed /\ call[t].op = op /\ t \notin parked

Return(t) == call' = [call EXCEPT ![t] = NoCall] /\ UNCHANGED parked
Park(t) == parked' = parked \union {t} /\ UNCHANGED call

\* The loop body of `receive`: claim, backlog, overflow, closed, in that order.
ReceivePoll(t) ==
  /\ Runnable(t, "receive")
  /\ LET c == call[t].ch
         m == chan[c]
     IN \/ /\ m.stream_claimed
           /\ Return(t)
           /\ UNCHANGED <<chan, taken, ended>>
        \/ /\ ~m.stream_claimed /\ m.inbox # <<>>
           /\ chan' = Pop(c)
           /\ taken' = [taken EXCEPT ![c] = Oldest(c)]
           /\ Return(t)
           /\ UNCHANGED ended
        \/ /\ ~m.stream_claimed /\ Finished(c)
           /\ ended' = [ended EXCEPT ![c] = IF m.overflowed THEN "overflow" ELSE "closed"]
           /\ Return(t)
           /\ UNCHANGED <<chan, taken>>
        \/ /\ ~m.stream_claimed /\ m.inbox = <<>> /\ ~Finished(c)
           /\ Park(t)
           /\ UNCHANGED <<chan, taken, ended>>
  /\ UNCHANGED <<created, connVars, pumpVars, wake, outbox, coreVars, lost>>

\* The loop body of `when_open` with the core's send as its `op`; the core may
\* refuse the message (error.other).  A handle surfaced by
\* incoming-data-channels has no waker: its sends leave on the next tick.
SendPoll(t) ==
  /\ Runnable(t, "send")
  /\ LET c == call[t].ch
     IN \/ /\ ChannelState(c) = "open"
           /\ \/ outbox < MaxOut /\ outbox' = outbox + 1 /\ wake' = (wake \/ c \in created)
              \/ UNCHANGED <<outbox, wake>>
           /\ Return(t)
        \/ /\ ChannelState(c) = "closed"
           /\ Return(t)
           /\ UNCHANGED <<outbox, wake>>
        \/ /\ ChannelState(c) = "opening"
           /\ Park(t)
           /\ UNCHANGED <<outbox, wake>>
  /\ UNCHANGED <<chanVars, connVars, pumpVars, coreVars, histVars>>

WaitConnectedPoll(t) ==
  /\ Runnable(t, "wait_connected")
  /\ IF connected \/ dead THEN Return(t) ELSE Park(t)
  /\ UNCHANGED <<chanVars, connVars, pumpVars, wake, outbox, coreVars, histVars>>

TimerArmed(t) == call[t].op = "wait_connected" /\ t \in parked

\* The CONNECT_TIMEOUT timer of a parked wait: its next poll returns timed-out.
ConnectTimeout(t) ==
  /\ ~Borrowed
  /\ TimerArmed(t)
  /\ ~connected /\ ~dead
  /\ call' = [call EXCEPT ![t] = NoCall]
  /\ parked' = parked \ {t}
  /\ UNCHANGED <<chanVars, connVars, pumpVars, wake, outbox, coreVars, histVars>>

\* The loop of pump_receive up to its write: pop a message and offer it, park,
\* or end the stream.
StreamPoll(t) ==
  /\ Runnable(t, "pump_receive")
  /\ call[t].held = 0
  /\ LET c == call[t].ch
     IN \/ /\ chan[c].inbox # <<>>
           /\ chan' = Pop(c)
           /\ taken' = [taken EXCEPT ![c] = Oldest(c)]
           /\ call' = [call EXCEPT ![t].held = Oldest(c)]
           /\ UNCHANGED parked
        \/ /\ chan[c].inbox = <<>> /\ ChannelState(c) = "closed"
           /\ Return(t)
           /\ UNCHANGED <<chan, taken>>
        \/ /\ chan[c].inbox = <<>> /\ ChannelState(c) # "closed"
           /\ Park(t)
           /\ UNCHANGED <<chan, taken>>
  /\ UNCHANGED <<created, connVars, pumpVars, wake, outbox, coreVars, ended, lost>>

\* The guest reads the offered stream-message, or has dropped the stream, in
\* which case the message is lost and the task ends.
StreamWrite(t) ==
  /\ Runnable(t, "pump_receive")
  /\ call[t].held # 0
  /\ call' \in {[call EXCEPT ![t].held = 0], [call EXCEPT ![t] = NoCall]}
  /\ UNCHANGED <<chanVars, connVars, pumpVars, wake, outbox, coreVars, parked, histVars>>

-----------------------------------------------------------------------------
(* The pump *)

\* The core queues protocol datagrams of its own (acks, resets, close chunks).
CoreTransmits == outbox' \in {outbox} \union (IF outbox < MaxOut THEN {outbox + 1} ELSE {})

\* flush: one datagram per await of the socket.
FlushOne ==
  /\ pc \in {"flush", "reflush"}
  /\ outbox > 0
  /\ outbox' = outbox - 1
  /\ UNCHANGED <<chanVars, connVars, pumpVars, wake, coreVars, call, parked, histVars>>

\* The flush found nothing to send: take the borrow, perform a requested close.
BeginDrain ==
  /\ pc = "flush" /\ outbox = 0
  /\ pc' = "events"
  /\ had_events' = FALSE
  /\ IF close_requested
       THEN /\ close_requested' = FALSE
            /\ lost' = (lost \/ outbox > 0)
            /\ CoreTransmits
       ELSE UNCHANGED <<close_requested, lost, outbox>>
  /\ UNCHANGED <<chanVars, connected, failed, closed, shutdown_complete, drain_deadline, done,
                 wake, coreVars, call, parked, taken, ended>>

\* drain_events lists every connection and channel event before any message.
ApplyEvent ==
  /\ pc = "events"
  /\ had_events' = TRUE
  /\ UNCHANGED <<created, close_requested, drain_deadline, pc, done, wake, outbox, coreVars,
                 call, parked, histVars>>

ApplyConnected ==
  /\ ~connected
  /\ connected' = TRUE
  /\ ApplyEvent
  /\ UNCHANGED <<chan, failed, closed, shutdown_complete>>

ApplyFailed ==
  /\ ~failed
  /\ failed' = TRUE
  /\ chan' = CloseAll(chan)
  /\ ApplyEvent
  /\ UNCHANGED <<connected, closed, shutdown_complete>>

\* `disconnected` and `closed` of the core both arrive as PeerEvent::Closed.
ApplyClosed ==
  /\ ~shutdown_complete
  /\ closed' = TRUE
  /\ shutdown_complete' = TRUE
  /\ chan' = CloseAll(chan)
  /\ ApplyEvent
  /\ UNCHANGED <<connected, failed>>

ApplyChannelOpen(c) ==
  /\ ~chan[c].tracked
  /\ chan' = [chan EXCEPT ![c] = NewChannel(closed \/ failed)]
  /\ ApplyEvent
  /\ UNCHANGED <<connected, failed, closed, shutdown_complete>>

ApplyChannelClosed(c) ==
  /\ chan[c].tracked /\ ~chan[c].closed
  /\ chan' = [chan EXCEPT ![c].closed = TRUE]
  /\ ApplyEvent
  /\ UNCHANGED <<connected, failed, closed, shutdown_complete>>

\* Mutant of Discards: an overflowed channel takes a message that fits again.
DiscardsClosed(m) == m.closed /\ ~m.overflowed
Discards(m) == m.overflowed \/ m.closed

\* PeerEvent::Message: dropped on a channel that is over; over the bound it
\* closes the channel in Shared and in the core; else it joins the backlog.
ApplyMessage(c) ==
  /\ Borrowed
  /\ pc' = "messages"
  /\ had_events' = TRUE
  /\ chan[c].tracked
  /\ arrived[c] < MaxMsgs
  /\ LET n == arrived[c] + 1
         m == chan[c]
     IN /\ arrived' = [arrived EXCEPT ![c] = n]
        /\ \/ /\ Discards(m)
              /\ UNCHANGED <<chan, outbox>>
           \/ /\ ~Discards(m)
              /\ m.inbox_bytes + Size(c, n) > Limit
              /\ chan' = [chan EXCEPT ![c] = [m EXCEPT !.overflowed = TRUE, !.closed = TRUE]]
              /\ CoreTransmits
           \/ /\ ~Discards(m)
              /\ m.inbox_bytes + Size(c, n) <= Limit
              /\ chan' = [chan EXCEPT ![c] = [m EXCEPT !.inbox = Append(m.inbox, n),
                                                     !.inbox_bytes = m.inbox_bytes + Size(c, n)]]
              /\ UNCHANGED outbox
  /\ UNCHANGED <<created, connVars, done, wake, workload, call, parked, histVars>>

\* Mutant of LastTurn: the pump waits for the peer to answer the close.
LastTurnWhenAnswered == failed \/ shutdown_complete
LastTurn == failed \/ (closed /\ (shutdown_complete \/ drain_deadline # "set"))

\* The batch is applied: decide whether this is the last turn, wake the
\* waiters if anything happened, release the borrow.
EndDrain ==
  /\ Borrowed
  /\ done' = LastTurn
  /\ NotifyIfChanged
  /\ pc' = "reflush"
  /\ UNCHANGED <<chanVars, connVars, had_events, wake, outbox, coreVars, call, histVars>>

\* The second flush is over: leave the state terminally closed and return ...
PumpExit ==
  /\ pc = "reflush" /\ outbox = 0
  /\ done
  /\ closed' = TRUE
  /\ chan' = CloseAll(chan)
  /\ Notify
  /\ pc' = "stopped"
  /\ UNCHANGED <<created, connected, failed, close_requested, shutdown_complete, drain_deadline,
                 done, had_events, wake, outbox, coreVars, call, histVars>>

\* ... or park on a datagram, the tick and the wake channel.
PumpPark ==
  /\ pc = "reflush" /\ outbox = 0
  /\ ~done
  /\ pc' = "park"
  /\ UNCHANGED <<chanVars, connVars, done, had_events, wake, outbox, coreVars, call, parked,
                 histVars>>

\* A datagram or the tick: the core advances and may have transmits queued.
ParkInput ==
  /\ pc = "park"
  /\ pc' = "flush"
  /\ CoreTransmits
  /\ UNCHANGED <<chanVars, connVars, done, had_events, wake, coreVars, call, parked, histVars>>

ParkWake ==
  /\ pc = "park"
  /\ wake
  /\ wake' = FALSE
  /\ pc' = "flush"
  /\ UNCHANGED <<chanVars, connVars, done, had_events, outbox, coreVars, call, parked, histVars>>

\* CLOSE_DRAIN passes.
DrainLapse ==
  /\ drain_deadline = "set"
  /\ drain_deadline' = "lapsed"
  /\ UNCHANGED <<chanVars, connected, failed, closed, close_requested, shutdown_complete,
                 pumpVars, wake, outbox, coreVars, call, parked, histVars>>

-----------------------------------------------------------------------------

GuestNext ==
  \/ Signal
  \/ BeginClose
  \/ \E c \in Channels : CreateDataChannel(c)
  \/ \E t \in Tasks : CallWaitConnected(t)
  \/ \E t \in Tasks, c \in Channels : CallReceive(t, c) \/ CallSend(t, c) \/ ReceiveViaStream(t, c)

Poll(t) == ReceivePoll(t) \/ SendPoll(t) \/ WaitConnectedPoll(t) \/ StreamPoll(t)

\* What the core reports in a drain.
CoreNext ==
  \/ ApplyConnected \/ ApplyFailed \/ ApplyClosed
  \/ \E c \in Channels : ApplyChannelOpen(c) \/ ApplyChannelClosed(c) \/ ApplyMessage(c)

PumpStep == FlushOne \/ BeginDrain \/ EndDrain \/ PumpExit \/ PumpPark \/ ParkInput

Next ==
  \/ GuestNext
  \/ \E t \in Tasks : Poll(t) \/ StreamWrite(t) \/ ConnectTimeout(t)
  \/ CoreNext
  \/ PumpStep \/ ParkWake \/ DrainLapse

\* The executor runs every woken task, the tick fires every MAX_WAIT_NANOS, and
\* clocks advance.  Fairness of the tasks is strong because Borrowed disables
\* them during a drain, which the executor runs as one piece.  Nothing is
\* assumed of the guest, the core or the network.
Fairness ==
  /\ WF_vars(PumpStep)
  /\ WF_vars(DrainLapse)
  /\ \A t \in Tasks : SF_vars(Poll(t)) /\ SF_vars(ConnectTimeout(t))

Spec == Init /\ [][Next]_vars
FairSpec == Spec /\ Fairness

-----------------------------------------------------------------------------
(* Properties *)

\* runtime.rs:352-360, 443-447: once the connection is over, or the pump has
\* returned, no tracked channel is usable - whichever of close, failure, a late
\* open or the drain deadline came first - and an overflowed channel is closed;
\* a channel whose open is still to come has nothing recorded.
OverMeansClosed ==
  /\ \A c \in Channels :
       IF chan[c].tracked THEN dead \/ chan[c].overflowed => chan[c].closed
                          ELSE chan[c] = Untracked
  /\ pc = "stopped" => closed

\* runtime.rs:458-475: what the guest was handed and what is still buffered are
\* together an initial run of the messages that arrived, without a gap or a
\* repetition; on a channel that is not over they are all of them.
BacklogInOrder ==
  \A c \in Channels :
    /\ \A i \in 1..Len(chan[c].inbox) : chan[c].inbox[i] = taken[c] + i
    /\ taken[c] + Len(chan[c].inbox) <= arrived[c]
    /\ ~chan[c].closed => taken[c] + Len(chan[c].inbox) = arrived[c]

\* runtime.rs:157, 185-189, 464: inbox_bytes is the size of exactly the messages
\* in the inbox - it never underflows and never keeps bytes of a popped message
\* - and the buffered bytes stay within the bound.
BytesExact ==
  \A c \in Channels :
    /\ chan[c].inbox_bytes =
         workload[c][taken[c] + Len(chan[c].inbox)] - workload[c][taken[c]]
    /\ chan[c].inbox_bytes <= Limit

\* What the loop body of a parked call would act on if it ran now.
Ready(t) ==
  LET c == call[t].ch
      m == chan[c]
  IN CASE call[t].op = "send" -> ChannelState(c) # "opening"
       [] call[t].op = "receive" -> \/ m.stream_claimed \/ m.inbox # <<>> \/ m.overflowed
                                    \/ ChannelState(c) = "closed"
       [] call[t].op = "wait_connected" -> connected \/ dead
       [] call[t].op = "pump_receive" -> m.inbox # <<>> \/ ChannelState(c) = "closed"
       [] OTHER -> FALSE

\* runtime.rs:63-68: no wakeup is lost.  A parked task whose condition holds
\* exists only inside a drain that is going to notify.
NoLostWakeup == \A t \in parked : Ready(t) => Borrowed /\ had_events

\* runtime.rs:219-224: no send that was accepted is discarded, neither by the
\* local close nor by the pump returning.
NoSendDiscarded == ~lost /\ (pc = "stopped" => outbox = 0)

\* wit:186-192, 206-210: once a receive reported how the channel ended, every
\* later one reports the same, and no message is handed out any more.
EndingIsFinal ==
  [][\A c \in Channels : ended[c] # "none" => ended'[c] = ended[c] /\ taken'[c] = taken[c]]_vars

\* wit:238-240: a channel's inbound messages are taken over at most once.
ClaimedOnce ==
  \A t, u \in Tasks :
    call[t].op = "pump_receive" /\ call[u].op = "pump_receive" /\ call[t].ch = call[u].ch => t = u

\* runtime.rs:226-232: a close stops the pump, whatever the peer answers.
CloseStopsPump == (closed /\ pc # "unstarted") ~> (pc = "stopped")

\* wit:301-309, 318-321: calls in flight when the connection ends return, and
\* streams end unless the guest does not read them; wait-connected returns even
\* if nothing ever happens.
CallsResolve ==
  \A t \in Tasks :
    /\ (dead /\ call[t].op # "idle") ~> (call[t].op = "idle" \/ call[t].held # 0)
    /\ (call[t].op = "wait_connected") ~> (call[t].op # "wait_connected")

-----------------------------------------------------------------------------
(* The contract of inbound messages *)

Contract == INSTANCE InboundContract WITH
  status <- [c \in Channels |-> IF chan[c].overflowed THEN "overflow" ELSE ChannelState(c)],
  accepted <- [c \in Channels |-> taken[c] + Len(chan[c].inbox)]

\* The runtime implements the contract on every channel.
ImplementsContract == Contract!Spec
=============================================================================
