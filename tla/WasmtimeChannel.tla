--------------------------- MODULE WasmtimeChannel ---------------------------
(***************************************************************************)
(* One data channel of wasmtime-impl: the tokio pump that drains the        *)
(* webrtc wrapper (data_channel.rs), the budget it shares with the readers, *)
(* the wiring future, the connection's close signal, and the host methods   *)
(* (host.rs) that race these against each other.                            *)
(*                                                                          *)
(* The pump, the wiring task and whoever closes the connection run on tokio *)
(* worker threads, so between any two accesses to shared state another of   *)
(* them may run.  Host methods and streams are polled by the store's event  *)
(* loop, one at a time: a poll is two steps, Look and Signals, which no     *)
(* other guest activity interleaves (Polling) but any worker thread may.    *)
(* Polls happen at any time a call is pending, so wakers are not modelled.  *)
(*                                                                          *)
(* The wrapper is an environment: it opens the channel at most once, yields *)
(* messages 1, 2, ... after that, and may report a close once the channel   *)
(* is closed.  It reports nothing when the connection is closed locally     *)
(* (data_channel.rs:181-183).                                               *)
(***************************************************************************)
EXTENDS Integers, Sequences, SequencesExt, FiniteSetsExt

CONSTANTS Receivers, \* guest tasks that receive
          Senders,   \* guest tasks that send
          Stream,    \* the stream of receive-via-stream
          None,      \* nobody
          Limit,     \* max_inbound_buffer_bytes()
          Sizes,     \* message sizes
          MaxMsgs    \* bound: messages the wrapper yields

Calls == Receivers \union Senders
ASSUME CallsAssumption == Stream \notin Calls /\ None \notin Calls \union {Stream}
ASSUME SizesAssumption == Sizes \subseteq Nat /\ {Limit, MaxMsgs} \subseteq Nat

VARIABLES
  ready,                  \* the wrapper's ready_state
  size, arrived,          \* sizes of the messages; how many the wrapper yielded
  pump,                   \* where the pump task is
  open,                   \* open_tx: "pending", "sent" or "dropped"
  wired,                  \* WiredFuture: "pending", "ok", or its error
  queue,                  \* the unbounded channel between pump and readers
  buffered, overflowed,   \* InboundBudget
  claimed,                \* stream_receiving, stream_started
  closeFlag, closeFired,  \* CloseSignal: the flag, then the one-shot
  at, held, holder,       \* readers and senders; message being released; lock
  answer,                 \* what each call last returned
  taken, ended            \* history, as in InboundContract

coreVars == <<ready, size, arrived>>
pumpVars == <<pump, open, queue>>
budget == <<buffered, overflowed>>
closeVars == <<closeFlag, closeFired>>
callVars == <<at, held, holder, answer>>
histVars == <<taken, ended>>
vars == <<coreVars, pumpVars, wired, budget, claimed, closeVars, callVars, histVars>>

Readers == Receivers \union {Stream}
Tasks == Calls \union {Stream}
Answers == {"none", "ok", "message", "closed", "overflow", "claimed", "other"}
Bytes(S) == MapThenSumSet(LAMBDA n : size[n], S)

Init ==
  /\ ready = "connecting" /\ size \in [1..MaxMsgs -> Sizes] /\ arrived = 0
  /\ pump = "none" /\ open = "pending" /\ queue = <<>> /\ wired = "pending"
  /\ buffered = 0 /\ overflowed = FALSE
  /\ claimed = FALSE /\ closeFlag = FALSE /\ closeFired = FALSE
  /\ at = [x \in Tasks |-> "idle"] /\ held = [x \in Readers |-> 0] /\ holder = None
  /\ answer = [r \in Calls |-> "none"]
  /\ taken = 0 /\ ended = "none"

-----------------------------------------------------------------------------
(* Wiring and the pump task *)

\* spawn_channel_wiring starts the pump of a created or remote-opened channel.
SpawnPump ==
  /\ pump = "none" /\ wired = "pending"
  /\ pump' = "poll"
  /\ UNCHANGED <<coreVars, open, queue, wired, budget, claimed, closeVars, callVars, histVars>>

\* Creating the channel failed, or the task that would have was dropped.
WireFails ==
  /\ pump = "none" /\ wired = "pending"
  /\ wired' \in {"closed", "other"}
  /\ UNCHANGED <<coreVars, pumpVars, budget, claimed, closeVars, callVars, histVars>>

\* The wiring task resolves with the channel, or closed if the pump ended first.
Wire ==
  /\ wired = "pending" /\ open # "pending"
  /\ wired' = IF open = "sent" THEN "ok" ELSE "closed"
  /\ UNCHANGED <<coreVars, pumpVars, budget, claimed, closeVars, callVars, histVars>>

OnOpen ==
  /\ pump = "poll" /\ open = "pending" /\ ready = "connecting"
  /\ ready' = "open" /\ open' = "sent"
  /\ UNCHANGED <<size, arrived, pump, queue, wired, budget, claimed, closeVars, callVars, histVars>>

Fits == buffered + size[arrived'] <= Limit
\* OnMessage up to the budget's two loads: what reserve does next depends on
\* what they returned, not on what the readers release afterwards.
OnMessage ==
  /\ pump = "poll" /\ open = "sent" /\ arrived < MaxMsgs
  /\ arrived' = arrived + 1
  /\ pump' = IF overflowed THEN "close" ELSE IF Fits THEN "add" ELSE "latch"
  /\ UNCHANGED <<ready, size, open, queue, wired, budget, claimed, closeVars, callVars, histVars>>

Latch ==
  /\ pump = "latch"
  /\ overflowed' = TRUE /\ pump' = "close"
  /\ UNCHANGED <<coreVars, open, queue, wired, buffered, claimed, closeVars, callVars, histVars>>

\* channel.close().await; the pump then keeps polling.
CloseChannel ==
  /\ pump = "close"
  /\ ready' = "closed" /\ pump' = "poll"
  /\ UNCHANGED <<size, arrived, open, queue, wired, budget, claimed, closeVars, callVars, histVars>>

Add ==
  /\ pump = "add"
  /\ buffered' = buffered + size[arrived] /\ pump' = "push"
  /\ UNCHANGED <<coreVars, open, queue, wired, overflowed, claimed, closeVars, callVars, histVars>>

Push ==
  /\ pump = "push"
  /\ queue' = Append(queue, arrived) /\ pump' = "poll"
  /\ UNCHANGED <<coreVars, open, wired, budget, claimed, closeVars, callVars, histVars>>

\* The wrapper reports the close: the pump ends and drops both its senders.
OnClose ==
  /\ pump = "poll" /\ ready = "closed"
  /\ pump' = "done"
  /\ open' = IF open = "pending" THEN "dropped" ELSE open
  /\ UNCHANGED <<coreVars, queue, wired, budget, claimed, closeVars, callVars, histVars>>

RemoteClose ==
  /\ pump # "none" /\ ready # "closed"
  /\ ready' = "closed"
  /\ UNCHANGED <<size, arrived, pumpVars, wired, budget, claimed, closeVars, callVars, histVars>>

-----------------------------------------------------------------------------
(* The close signal: fired by close and by the connection-state handler *)

SetClosed ==
  /\ ~closeFlag
  /\ closeFlag' = TRUE
  /\ UNCHANGED <<coreVars, pumpVars, wired, budget, claimed, closeFired, callVars, histVars>>

FireClosed ==
  /\ closeFlag /\ ~closeFired
  /\ closeFired' = TRUE
  /\ UNCHANGED <<coreVars, pumpVars, wired, budget, claimed, closeFlag, callVars, histVars>>

-----------------------------------------------------------------------------
(* Readers: the receive calls and the stream *)

Polling == \E x \in Readers : at[x] \in {"looked", "release"}
Unlocked(x) == IF holder = x THEN None ELSE holder
\* The call (or the stream) is over; its future is dropped, and the lock with it.
Return(x, a) ==
  /\ at' = [at EXCEPT ![x] = IF x = Stream THEN "over" ELSE "idle"]
  /\ answer' = IF x = Stream THEN answer ELSE [answer EXCEPT ![x] = a]
  /\ holder' = Unlocked(x)
  /\ UNCHANGED held

Receive(r) ==
  /\ ~Polling /\ at[r] = "idle"
  /\ \/ /\ claimed
        /\ Return(r, "claimed")
     \/ /\ ~claimed
        /\ at' = [at EXCEPT ![r] = "receive"] /\ answer' = [answer EXCEPT ![r] = "none"]
        /\ UNCHANGED <<held, holder>>
  /\ UNCHANGED <<coreVars, pumpVars, wired, budget, claimed, closeVars, histVars>>

\* receive-via-stream: the first call claims the messages and wakes the pending
\* receives; every later call fails and changes nothing.
ReceiveViaStream ==
  /\ ~Polling /\ ~claimed
  /\ claimed' = TRUE
  /\ at' = [at EXCEPT ![Stream] = "receive"]
  /\ UNCHANGED <<held, holder, answer, coreVars, pumpVars, wired, budget, closeVars, histVars>>

\* The guest drops the stream's reader.
DropStream ==
  /\ ~Polling /\ at[Stream] = "receive"
  /\ Return(Stream, "none")
  /\ UNCHANGED <<coreVars, pumpVars, wired, budget, claimed, closeVars, histVars>>

Available(x) == wired = "ok" /\ holder \in {None, x}

\* InboundQueue::next: pop; the bytes are released in the next step.
TakeMessage(x) ==
  /\ Available(x) /\ queue # <<>>
  /\ queue' = Tail(queue)
  /\ held' = [held EXCEPT ![x] = Head(queue)] /\ taken' = Head(queue)
  /\ at' = [at EXCEPT ![x] = "release"] /\ holder' = x
  /\ UNCHANGED <<answer, ended>>

QueueEnding == IF overflowed THEN "overflow" ELSE "closed"
\* Mutant of QueueEnds: the ending is reported before the backlog.
EndsEarly(x) ==
  /\ Available(x) /\ pump = "done"
  /\ Return(x, QueueEnding)
  /\ ended' = IF x = Stream THEN ended ELSE QueueEnding
  /\ UNCHANGED <<queue, taken>>
\* The pump dropped its sender and the backlog is drained.
QueueEnds(x) ==
  /\ Available(x) /\ queue = <<>> /\ pump = "done"
  /\ Return(x, QueueEnding)
  /\ ended' = IF x = Stream THEN ended ELSE QueueEnding
  /\ UNCHANGED <<queue, taken>>

WiringFailed(x) ==
  /\ wired \in {"closed", "other"}
  /\ Return(x, wired)
  /\ ended' = IF x # Stream /\ wired = "closed" THEN "closed" ELSE ended
  /\ UNCHANGED <<queue, taken>>

\* Nothing yet, or another reader has the lock: poll the signals next.
NotReady(x) ==
  /\ wired \notin {"closed", "other"}
  /\ Available(x) => queue = <<>> /\ pump # "done"
  /\ at' = [at EXCEPT ![x] = "looked"]
  /\ holder' = IF Available(x) THEN x ELSE holder
  /\ UNCHANGED <<queue, held, answer, histVars>>

\* The first branch of the biased select.
Look(x) ==
  /\ ~Polling /\ at[x] = "receive"
  /\ TakeMessage(x) \/ QueueEnds(x) \/ WiringFailed(x) \/ NotReady(x)
  /\ UNCHANGED <<coreVars, pump, open, wired, budget, claimed, closeVars>>

\* Mutant of Release: the bytes stay reserved.
ReleaseNothing(x) ==
  /\ at[x] = "release"
  /\ held' = [held EXCEPT ![x] = 0]
  /\ at' = [at EXCEPT ![x] = IF x = Stream THEN "receive" ELSE "idle"]
  /\ answer' = IF x = Stream THEN answer ELSE [answer EXCEPT ![x] = "message"]
  /\ holder' = None
  /\ UNCHANGED <<buffered, coreVars, pumpVars, wired, overflowed, claimed, closeVars, histVars>>
\* InboundBudget::release, and the message is handed out.
Release(x) ==
  /\ at[x] = "release"
  /\ buffered' = buffered - size[held[x]]
  /\ held' = [held EXCEPT ![x] = 0]
  /\ at' = [at EXCEPT ![x] = IF x = Stream THEN "receive" ELSE "idle"]
  /\ answer' = IF x = Stream THEN answer ELSE [answer EXCEPT ![x] = "message"]
  /\ holder' = None
  /\ UNCHANGED <<coreVars, pumpVars, wired, overflowed, claimed, closeVars, histVars>>

\* Mutant of Signals: the close is not among the awaited signals.
SignalsNoClose(x) ==
  /\ at[x] = "looked"
  /\ IF x # Stream /\ claimed
       THEN Return(x, "claimed")
       ELSE /\ at' = [at EXCEPT ![x] = "receive"]
            /\ UNCHANGED <<held, holder, answer>>
  /\ UNCHANGED <<coreVars, pumpVars, wired, budget, claimed, closeVars, histVars>>
\* The other branches, in order: the claim (receive only), then the close.
Signals(x) ==
  /\ at[x] = "looked"
  /\ CASE x # Stream /\ claimed -> Return(x, "claimed")
       [] ~(x # Stream /\ claimed) /\ closeFired -> Return(x, "closed")
       [] OTHER -> /\ at' = [at EXCEPT ![x] = "receive"]
                   /\ UNCHANGED <<held, holder, answer>>
  /\ UNCHANGED <<coreVars, pumpVars, wired, budget, claimed, closeVars, histVars>>

-----------------------------------------------------------------------------
(* Senders *)

Send(r) ==
  /\ ~Polling /\ at[r] = "idle"
  /\ \/ /\ closeFlag
        /\ Return(r, "closed")
     \/ /\ ~closeFlag
        /\ at' = [at EXCEPT ![r] = "send"] /\ answer' = [answer EXCEPT ![r] = "none"]
        /\ UNCHANGED <<held, holder>>
  /\ UNCHANGED <<coreVars, pumpVars, wired, budget, claimed, closeVars, histVars>>

SendViaStream(r) ==
  /\ ~Polling /\ at[r] = "idle"
  /\ at' = [at EXCEPT ![r] = "items"] /\ answer' = [answer EXCEPT ![r] = "none"]
  /\ UNCHANGED <<held, holder, coreVars, pumpVars, wired, budget, claimed, closeVars, histVars>>

\* The next element of the outbound stream: the stream is at its end, or the
\* connection is closed, or the payload is awaited.
Item(r) ==
  /\ ~Polling /\ at[r] = "items" /\ wired = "ok"
  /\ \/ Return(r, "ok")
     \/ closeFlag /\ Return(r, "closed")
     \/ /\ ~closeFlag
        /\ at' = [at EXCEPT ![r] = "payload"]
        /\ UNCHANGED <<held, holder, answer>>
  /\ UNCHANGED <<coreVars, pumpVars, wired, budget, claimed, closeVars, histVars>>

\* The payload is collected: it is as long as declared and goes to the
\* transport, or the call fails; the close is not looked at again.
Collect(r) ==
  /\ ~Polling /\ at[r] = "payload"
  /\ \/ Return(r, "other")
     \/ /\ at' = [at EXCEPT ![r] = "item"]
        /\ UNCHANGED <<held, holder, answer>>
  /\ UNCHANGED <<coreVars, pumpVars, wired, budget, claimed, closeVars, histVars>>

\* send_channel_message: the transport takes the message (even after a close:
\* the wrapper queues it silently), or refuses it.
Transport(r) ==
  /\ ~Polling /\ at[r] \in {"send", "item"} /\ wired = "ok"
  /\ \/ /\ at[r] = "send"
        /\ Return(r, "ok")
     \/ /\ at[r] = "item"
        /\ at' = [at EXCEPT ![r] = "items"]
        /\ UNCHANGED <<held, holder, answer>>
     \/ /\ at' = [at EXCEPT ![r] = "failed"]
        /\ UNCHANGED <<held, holder, answer>>
  /\ UNCHANGED <<coreVars, pumpVars, wired, budget, claimed, closeVars, histVars>>

\* A refused message is classified by the ready_state read afterwards.
Classify(r) ==
  /\ ~Polling /\ at[r] = "failed"
  /\ Return(r, IF ready = "open" THEN "other" ELSE "closed")
  /\ UNCHANGED <<coreVars, pumpVars, wired, budget, claimed, closeVars, histVars>>

SendUnwired(r) ==
  /\ ~Polling /\ at[r] \in {"send", "items"} /\ wired \in {"closed", "other"}
  /\ Return(r, wired)
  /\ UNCHANGED <<coreVars, pumpVars, wired, budget, claimed, closeVars, histVars>>

-----------------------------------------------------------------------------
PumpStep == Latch \/ CloseChannel \/ Add \/ Push
Poll(x) == Look(x) \/ Release(x) \/ Signals(x)
Sending(r) == Item(r) \/ Collect(r) \/ Transport(r) \/ Classify(r) \/ SendUnwired(r)
Next ==
  \/ SpawnPump \/ WireFails \/ Wire \/ OnOpen \/ OnMessage \/ PumpStep \/ OnClose \/ RemoteClose
  \/ SetClosed \/ FireClosed \/ ReceiveViaStream \/ DropStream
  \/ \E x \in Readers : Poll(x)
  \/ \E r \in Receivers : Receive(r)
  \/ \E r \in Senders : Send(r) \/ SendViaStream(r) \/ Sending(r)

Spec == Init /\ [][Next]_vars

\* The worker threads and the event loop run what they can run, and a poll that
\* began ends; what the wrapper yields is left to it, the report of a close
\* included.  The event loop polls every pending call again and again, hence
\* strong fairness: a poll of one call delays the others.  The guest need not
\* read the stream.
FairSpec ==
  /\ Spec
  /\ WF_vars(SpawnPump \/ WireFails) /\ WF_vars(Wire) /\ WF_vars(PumpStep) /\ WF_vars(FireClosed)
  /\ WF_vars(\E x \in Readers : Release(x) \/ Signals(x))
  /\ \A r \in Receivers : SF_vars(Look(r))
  /\ \A r \in Senders : SF_vars(Sending(r))

-----------------------------------------------------------------------------
(* Properties *)

\* The types of the variables; the counter never exceeds the limit.
TypeOK ==
  /\ ready \in {"connecting", "open", "closed"} /\ arrived \in 0..MaxMsgs
  /\ pump \in {"none", "poll", "add", "push", "latch", "close", "done"}
  /\ open \in {"pending", "sent", "dropped"} /\ wired \in {"pending", "ok", "closed", "other"}
  /\ queue \in Seq(1..MaxMsgs) /\ buffered \in 0..Limit
  /\ {overflowed, claimed, closeFlag, closeFired} \subseteq BOOLEAN
  /\ at \in [Tasks -> {"idle", "receive", "looked", "release", "over",
                         "send", "items", "payload", "item", "failed"}]
  /\ held \in [Readers -> 0..MaxMsgs] /\ holder \in Readers \union {None}
  /\ answer \in [Calls -> Answers]
  /\ taken \in 0..MaxMsgs /\ ended \in {"none", "closed", "overflow"}

\* data_channel.rs:85-126: although pump and readers update it in separate
\* steps, the counter is within its limit and exactly what is queued, being
\* pushed or being released.
BudgetExact ==
  /\ TypeOK
  /\ buffered = Bytes(ToSet(queue)) + Bytes({held[x] : x \in Readers} \ {0})
                + (IF pump = "push" THEN size[arrived] ELSE 0)

\* host.rs:402-437, wit:238-245, wit:318-321: a receive that is pending when the
\* messages are claimed, the connection is closed, the wiring fails or the pump
\* ends returns, whoever holds the queue's lock.
Over == claimed \/ closeFlag \/ wired \in {"closed", "other"} \/ pump = "done"
ReceivesReturn ==
  \A r \in Receivers : (Over /\ at[r] \in {"receive", "looked"}) ~> (at[r] = "idle")

\* wit:318-321: a send in flight when the connection closes returns.
\* Violated: nothing resolves the wiring of a channel that was never opened.
SendsReturn == \A r \in Senders : (closeFired /\ at[r] = "send") ~> (at[r] # "send")

\* The queue implements the contract of inbound messages.  A receive answered
\* by the close signal says nothing about the queue and is not an ending of it.
Contract == INSTANCE InboundContract WITH
  Channels <- {Stream},
  status <- [c \in {Stream} |->
    IF overflowed THEN "overflow"
    ELSE IF pump = "done" \/ wired = "closed" THEN "closed"
    ELSE IF open = "sent" THEN "open" ELSE "opening"],
  accepted <- [c \in {Stream} |-> taken + Len(queue)],
  taken <- [c \in {Stream} |-> taken],
  ended <- [c \in {Stream} |-> ended]
ImplementsContract == Contract!Spec
=============================================================================
