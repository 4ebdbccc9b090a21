------------------------------- MODULE JcoHost -------------------------------
(***************************************************************************)
(* The JavaScript host's data-channel and wait-connected                    *)
(* (jco-impl/webrtc.js; conformance/adapters/jco/webrtc.js is its twin).    *)
(*                                                                          *)
(* JavaScript runs one thing at a time: an event listener or a continuation *)
(* of an await is one step.  A promise that resolves queues its             *)
(* continuation; no event is handled before that queue is empty.            *)
(* The RTCDataChannel and the RTCPeerConnection are the environment: a      *)
(* channel that closes fires one event, be it "close" or "error" (the same  *)
(* listeners hear both, webrtc.js:234-237, 623-624), also when the          *)
(* connection was closed locally; connectionState stands for                *)
(* iceConnectionState too (webrtc.js:383-387).                              *)
(***************************************************************************)
EXTENDS Naturals, FiniteSets, Sequences, SequencesExt, FiniteSetsExt

CONSTANTS Receivers,  \* receive calls
          Stream,     \* the reader of the receive-via-stream stream
          Senders,    \* send and send-via-stream calls
          Streamed,   \* those of them that are send-via-stream
          Sizes,      \* lengths of inbound messages, as JavaScript counts them
          Limit,      \* maxInboundBuffered()
          MaxMsgs,    \* bound: messages that arrive
          MaxOut,     \* MAX_BUFFERED_AMOUNT, in messages
          MaxItems    \* bound: items of a send-via-stream

ASSUME JcoAssumption ==
  /\ Stream \notin Receivers /\ Streamed \subseteq Senders /\ IsFiniteSet(Senders)
  /\ {Limit, MaxMsgs, MaxOut, MaxItems} \subseteq Nat /\ Sizes \subseteq Nat

VARIABLES
  state, pc,                      \* readyState, connectionState
  messages, waiters, buffered, overflowed, closed,   \* incomingQueue
  claimed,                        \* #streamClaimed
  jobs,                           \* continuations to run: [who, n, err]
  call,                           \* receive calls and the stream's pull
  arrived, taken, ended,          \* for the contract: what came, what was given out
  send, amount,                   \* send calls, bufferedAmount
  wait                            \* a wait-connected call

queueVars == <<messages, waiters, buffered, overflowed, closed>>
readVars == <<claimed, jobs, call, arrived, taken, ended>>
sendVars == <<send, amount>>
vars == <<state, pc, queueVars, readVars, sendVars, wait>>

Readers == Receivers \union {Stream}
NoSend == [at |-> "idle", items |-> 0]
SendDone == {"ok", "closed", "other"}

Init ==
  /\ state = "connecting" /\ pc = "new"
  /\ messages = <<>> /\ waiters = <<>> /\ buffered = 0 /\ overflowed = FALSE /\ closed = FALSE
  /\ claimed = FALSE /\ jobs = <<>> /\ call = [r \in Readers |-> "idle"]
  /\ arrived = 0 /\ taken = 0 /\ ended = "none"
  /\ send = [s \in Senders |-> NoSend] /\ amount = 0
  /\ wait \in {"idle", "pending"}

-----------------------------------------------------------------------------
(* incomingQueue *)

Given(who, n) == [who |-> who, n |-> n, err |-> "none"]
Rejected(who, e) == [who |-> who, n |-> 0, err |-> e]
\* Mutant of EndError: an overflow is reported as a close.
EndErrorClosed == "closed"
EndError == IF overflowed THEN "overflow" ELSE "closed"
\* An event is handled when no continuation waits.
Quiet == jobs = <<>>

\* push: a waiter takes the message past the buffer.
Push(n, size) ==
  IF waiters # <<>>
    THEN /\ jobs' = Append(jobs, Given(Head(waiters), n))
         /\ waiters' = Tail(waiters)
         /\ UNCHANGED <<messages, buffered>>
    ELSE /\ messages' = Append(messages, [n |-> n, size |-> size])
         /\ buffered' = buffered + size
         /\ UNCHANGED <<jobs, waiters>>

\* Mutant of Fits: the message itself is not counted.
FitsBefore(size) == buffered <= Limit
Fits(size) == buffered + size <= Limit \/ waiters # <<>>

\* `size` is data.length, the UTF-16 units of a text, or byteLength.
OnMessage(size) ==
  /\ Quiet /\ arrived < MaxMsgs /\ (state = "open" \/ (overflowed /\ state = "closing"))
  /\ IF overflowed
       THEN UNCHANGED <<state, queueVars, jobs, arrived>>
       ELSE IF Fits(size)
         THEN Push(arrived + 1, size) /\ arrived' = arrived + 1 /\ UNCHANGED <<state, overflowed, closed>>
         ELSE /\ overflowed' = TRUE /\ state' = "closing"
              /\ UNCHANGED <<messages, waiters, buffered, closed, jobs, arrived>>
  /\ UNCHANGED <<pc, claimed, call, taken, ended, sendVars, wait>>

\* end: every waiter is rejected.
Ends ==
  /\ closed' = TRUE
  /\ waiters' = <<>>
  /\ jobs' = IF closed THEN jobs ELSE jobs \o [i \in DOMAIN waiters |-> Rejected(waiters[i], EndError)]

\* next(), for a caller that awaits it.
Next1(r) ==
  /\ \/ /\ messages # <<>>
        /\ jobs' = Append(jobs, Given(r, Head(messages).n))
        /\ messages' = Tail(messages) /\ buffered' = buffered - Head(messages).size
        /\ UNCHANGED waiters
     \/ /\ messages = <<>> /\ (overflowed \/ closed)
        /\ jobs' = Append(jobs, Rejected(r, EndError))
        /\ UNCHANGED <<messages, buffered, waiters>>
     \/ /\ messages = <<>> /\ ~overflowed /\ ~closed
        /\ waiters' = Append(waiters, r)
        /\ UNCHANGED <<messages, buffered, jobs>>
  /\ call' = [call EXCEPT ![r] = "pending"]
  /\ UNCHANGED <<overflowed, closed>>

Receive(r) ==
  /\ r # Stream /\ call[r] = "idle"
  /\ \/ ~claimed /\ Next1(r)
     \/ claimed /\ call' = [call EXCEPT ![r] = "done"] /\ UNCHANGED <<queueVars, jobs>>
  /\ UNCHANGED <<state, pc, claimed, arrived, taken, ended, sendVars, wait>>

ReceiveViaStream ==
  /\ ~claimed
  /\ claimed' = TRUE
  /\ jobs' = jobs \o [i \in DOMAIN waiters |-> Rejected(waiters[i], "claimed")]
  /\ waiters' = <<>>
  /\ UNCHANGED <<state, pc, messages, buffered, overflowed, closed, call, arrived, taken, ended, sendVars, wait>>

\* The stream's pull, one at a time, until it closed.
Pull ==
  /\ claimed /\ call[Stream] = "idle"
  /\ Next1(Stream)
  /\ UNCHANGED <<state, pc, claimed, arrived, taken, ended, sendVars, wait>>

\* The next continuation runs.
Resume ==
  /\ jobs # <<>>
  /\ LET j == Head(jobs) IN
     /\ call' = [call EXCEPT ![j.who] = IF j.who = Stream /\ j.n > 0 THEN "idle" ELSE "done"]
     /\ taken' = IF j.n > 0 THEN j.n ELSE taken
     /\ ended' = IF j.err \in {"closed", "overflow"} THEN j.err ELSE ended
  /\ jobs' = Tail(jobs)
  /\ UNCHANGED <<state, pc, queueVars, claimed, arrived, sendVars, wait>>

-----------------------------------------------------------------------------
(* send and send-via-stream *)

\* #waitOpen
Enter(s, at) ==
  send' = [send EXCEPT ![s] =
    [at EXCEPT !.at = CASE state = "open" -> "check" [] state = "connecting" -> "opening" [] OTHER -> "closed"]]

Send(s) ==
  /\ s \notin Streamed /\ send[s].at = "idle"
  /\ Enter(s, NoSend)
  /\ UNCHANGED <<state, pc, queueVars, readVars, amount, wait>>

SendViaStream(s) ==
  /\ s \in Streamed /\ send[s].at = "idle"
  /\ send' = [send EXCEPT ![s].at = "item"]
  /\ UNCHANGED <<state, pc, queueVars, readVars, amount, wait>>

\* The next stream-message: none, of the wrong length, or one to send.
Item(s) ==
  /\ send[s].at = "item"
  /\ \/ \E r \in {"ok", "other"} : send' = [send EXCEPT ![s].at = r]
     \/ send[s].items < MaxItems /\ Enter(s, [send[s] EXCEPT !.items = @ + 1])
  /\ UNCHANGED <<state, pc, queueVars, readVars, amount, wait>>

\* Mutant of CheckDrain: nothing is waited for.
CheckNothing(s) ==
  /\ send[s].at = "check"
  /\ send' = [send EXCEPT ![s].at = "ready"]
  /\ UNCHANGED <<state, pc, queueVars, readVars, amount, wait>>
\* #waitForDrain
CheckDrain(s) ==
  /\ send[s].at = "check"
  /\ send' = [send EXCEPT ![s].at = IF amount <= MaxOut THEN "ready" ELSE "drain"]
  /\ UNCHANGED <<state, pc, queueVars, readVars, amount, wait>>

\* What becomes of a call when its message was sent, or was not.
Sent(s, ok) == IF ~ok THEN "closed" ELSE IF s \in Streamed THEN "item" ELSE "ok"

\* RTCDataChannel.send throws unless the channel is open.
Hand(s) ==
  /\ send[s].at = "ready"
  /\ LET ok == state = "open" IN
     /\ send' = [send EXCEPT ![s].at = Sent(s, ok)]
     /\ amount' = IF ok THEN amount + 1 ELSE amount
  /\ UNCHANGED <<state, pc, queueVars, readVars, wait>>

-----------------------------------------------------------------------------
(* wait-connected: no latch; "closed" is not looked at *)

WaitConnected ==
  /\ wait = "idle"
  /\ wait' = IF pc = "connected" THEN "ok" ELSE "pending"
  /\ UNCHANGED <<state, pc, queueVars, readVars, sendVars>>

Timer ==
  /\ Quiet /\ wait = "pending"
  /\ wait' = "timed-out"
  /\ UNCHANGED <<state, pc, queueVars, readVars, sendVars>>

\* Mutant of CheckState: the listener looks at the failure only.
CheckFailed(s) == wait' = IF wait = "pending" /\ s = "failed" THEN "timed-out" ELSE wait
\* What the state-change listener does.
CheckState(s) ==
  wait' = CASE wait = "pending" /\ s = "connected" -> "ok"
            [] wait = "pending" /\ s = "failed" -> "timed-out"
            [] OTHER -> wait

-----------------------------------------------------------------------------
(* The W3C objects *)

PcChanges(s) ==
  /\ Quiet
  /\ \/ pc = "new" /\ s \in {"connected", "failed"}
     \/ pc = "connected" /\ s = "failed"
  /\ pc' = s
  /\ CheckState(s)
  /\ UNCHANGED <<state, queueVars, readVars, sendVars>>

\* close (and the dispose hook) of the connection: no state-change event.
PcClose ==
  /\ pc # "closed"
  /\ pc' = "closed"
  /\ state' = IF state = "closed" THEN "closed" ELSE "closing"
  /\ UNCHANGED <<queueVars, readVars, sendVars, wait>>

OpenEvent ==
  /\ Quiet /\ pc = "connected" /\ state = "connecting"
  /\ state' = "open"
  /\ send' = [s \in Senders |-> IF send[s].at = "opening" THEN [send[s] EXCEPT !.at = "check"] ELSE send[s]]
  /\ UNCHANGED <<pc, queueVars, readVars, amount, wait>>

\* The remote side, or the failure of the connection, closes the channel.
CloseStarts ==
  /\ state \in {"connecting", "open"}
  /\ state' = "closing"
  /\ UNCHANGED <<pc, queueVars, readVars, sendVars, wait>>

CloseEvent ==
  /\ Quiet /\ state = "closing"
  /\ state' = "closed"
  /\ Ends
  /\ send' = [s \in Senders |-> IF send[s].at = "opening" THEN [send[s] EXCEPT !.at = "closed"] ELSE send[s]]
  /\ UNCHANGED <<pc, messages, buffered, overflowed, claimed, call, arrived, taken, ended, amount, wait>>

\* Mutant of Drain: the listener waits for less than half the maximum.
DrainBelow ==
  /\ Quiet /\ state = "open" /\ amount > 0
  /\ amount' = amount - 1
  /\ send' = [s \in Senders |-> IF send[s].at = "drain" /\ amount' < MaxOut \div 2
                                  THEN [send[s] EXCEPT !.at = "ready"] ELSE send[s]]
  /\ UNCHANGED <<state, pc, queueVars, readVars, wait>>
\* The transport takes a message; bufferedamountlow at half the maximum.
Drain ==
  /\ Quiet /\ state = "open" /\ amount > 0
  /\ amount' = amount - 1
  /\ send' = [s \in Senders |-> IF send[s].at = "drain" /\ amount' = MaxOut \div 2
                                  THEN [send[s] EXCEPT !.at = "ready"] ELSE send[s]]
  /\ UNCHANGED <<state, pc, queueVars, readVars, wait>>

-----------------------------------------------------------------------------
SendStep(s) == Item(s) \/ CheckDrain(s) \/ Hand(s)

Next ==
  \/ \E size \in Sizes : OnMessage(size)
  \/ \E r \in Receivers : Receive(r)
  \/ ReceiveViaStream \/ Pull \/ Resume
  \/ \E s \in Senders : Send(s) \/ SendViaStream(s) \/ SendStep(s)
  \/ WaitConnected \/ Timer
  \/ \E s \in {"connected", "failed"} : PcChanges(s)
  \/ PcClose \/ OpenEvent \/ CloseStarts \/ CloseEvent \/ Drain

Spec == Init /\ [][Next]_vars

\* Continuations run; a channel that closes fires its event; the timer fires;
\* an open channel drains.  All of this ends, so one condition serves it.
FairSpec ==
  Spec /\ WF_vars(Resume \/ CloseEvent \/ Timer \/ Drain \/ \E s \in Senders : SendStep(s))

-----------------------------------------------------------------------------
(* Properties *)

MessageSize == [i \in DOMAIN messages |-> messages[i].size]
\* The types; the count of bytes is that of the buffered messages, and within
\* its limit.
TypeOK ==
  /\ state \in {"connecting", "open", "closing", "closed"} /\ pc \in {"new", "connected", "failed", "closed"}
  /\ {overflowed, closed, claimed} \subseteq BOOLEAN
  /\ \A r \in Readers : call[r] \in {"idle", "pending", "done"}
  /\ buffered = MapThenSumSet(LAMBDA i : MessageSize[i], DOMAIN messages) /\ buffered <= Limit
  /\ \A s \in Senders : send[s].at \in {"idle", "item", "opening", "check", "drain", "ready"} \union SendDone
  /\ wait \in {"idle", "pending", "ok", "timed-out"}

\* webrtc.js:567-578: the queue, its waiters and the continuations together keep
\* the inbound contract, also when a message passes the buffer by and when the
\* claim or the close takes the waiters away.  The channel counts as over when
\* the queue knows it.
Contract == INSTANCE InboundContract WITH
  Channels <- {"channel"},
  status <- [c \in {"channel"} |-> IF overflowed THEN "overflow" ELSE IF closed THEN "closed"
                                     ELSE IF state = "connecting" THEN "opening" ELSE "open"],
  accepted <- [c \in {"channel"} |-> arrived], taken <- [c \in {"channel"} |-> taken],
  ended <- [c \in {"channel"} |-> ended]
ImplementsContract == Contract!Spec

\* wit:318-320, webrtc.js:255-266: a receive that is pending when the channel
\* closes, or when the stream claims the messages, returns.  A send on a channel
\* that opened or closed returns; no wake-up is lost among sends that wait for
\* the buffer.  The exception is a send that waits for the buffer of a channel
\* that closed.
CallsReturn ==
  /\ \A r \in Receivers :
       (call[r] = "pending" /\ (claimed \/ state \in {"closing", "closed"})) ~> (call[r] = "done")
  /\ \A s \in Senders :
       (send[s].at # "idle" /\ state # "connecting")
         ~> (send[s].at \in SendDone \/ (send[s].at = "drain" /\ state # "open"))

\* webrtc.js:39: however many sends pass the check before any of them sends,
\* the buffer exceeds its maximum by at most one message each.
SendBufferBounded == amount <= MaxOut + Cardinality(Senders)

\* webrtc.js:389-403: a wait is over as soon as the connection is connected, so
\* its timer never ends a wait on a connected connection.
NoWaitWhenConnected == wait = "pending" => pc # "connected"
=============================================================================
