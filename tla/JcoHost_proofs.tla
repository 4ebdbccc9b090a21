---------------------------- MODULE JcoHost_proofs ----------------------------
(***************************************************************************)
(* Proofs about JcoHost, for every set of calls, any sizes and any limits:  *)
(* the byte count of the queue, the bound of the send buffer, the           *)
(* latch-free wait, and the contract of inbound messages.                   *)
(*                                                                          *)
(* A message is in one of three places: in a continuation that will hand it *)
(* out, in the buffer, or given out.  The numbers in the continuations      *)
(* increase and are exactly those between the last one given out and the    *)
(* first one buffered (Numbered); a continuation that reports an ending has *)
(* no message behind it (Endings).                                          *)
(***************************************************************************)
EXTENDS JcoHost, SumLemmas

SendAts == {"idle", "item", "opening", "check", "drain", "ready"} \union SendDone
Ended == {"closed", "overflow"}
Job == [who : Readers, n : 0..MaxMsgs, err : {"none", "claimed"} \union Ended]
Message == [n : 1..MaxMsgs, size : Nat]

\* The types of the flags and control states; the channel is closed when its
\* close event was handled, and only a channel that closes has overflowed.
ScalarsOK ==
  /\ state \in {"connecting", "open", "closing", "closed"} /\ pc \in {"new", "connected", "failed", "closed"}
  /\ overflowed \in BOOLEAN /\ closed \in BOOLEAN /\ claimed \in BOOLEAN
  /\ call \in [Readers -> {"idle", "pending", "done"}]
  /\ wait \in {"idle", "pending", "ok", "timed-out"} /\ NoWaitWhenConnected
StateInv ==
  /\ closed <=> state = "closed"
  /\ overflowed => state \in {"closing", "closed"}

\* Every send that passed the check may still send, and nobody else.
Ready == {s \in Senders : send[s].at = "ready"}
SendInv ==
  /\ send \in [Senders -> [at : SendAts, items : Nat]] /\ amount \in Nat
  /\ amount + Cardinality(Ready) <= MaxOut + Cardinality(Senders)

\* The buffer holds the last messages that arrived, and their sizes add up.
Before == arrived - Len(messages)
BufferInv ==
  /\ arrived \in 0..MaxMsgs /\ messages \in Seq(Message) /\ Before \in Nat
  /\ \A i \in 1..Len(messages) : messages[i].n = Before + i
  /\ buffered = SumOver(MessageSize, DOMAIN messages) /\ buffered <= Limit

\* The continuations q carry the messages after t up to l, in order.
Numbered(q, t, l) ==
  /\ \A i, j \in DOMAIN q : i < j /\ q[i].n # 0 /\ q[j].n # 0 => q[i].n < q[j].n
  /\ \A m \in Nat : (\E i \in DOMAIN q : q[i].n = m /\ m # 0) <=> t < m /\ m <= l
\* Behind the ending of the channel there is no message, and it is the ending e.
Endings(q, e) ==
  \A i \in DOMAIN q :
    /\ q[i].n # 0 => q[i].err = "none"
    /\ q[i].err \in Ended => q[i].err = e /\ \A j \in DOMAIN q : j > i => q[j].n = 0
HasEnding(q) == \E i \in DOMAIN q : q[i].err \in Ended
JobsInv ==
  /\ jobs \in Seq(Job) /\ waiters \in Seq(Readers)
  /\ taken \in Nat /\ taken <= Before
  /\ Numbered(jobs, taken, Before)
  /\ Endings(jobs, EndError)
  /\ HasEnding(jobs) => messages = <<>> /\ (overflowed \/ closed)
  /\ waiters # <<>> => messages = <<>> /\ ~overflowed /\ ~closed

\* The inductive invariant.
IInv == ScalarsOK /\ StateInv /\ SendInv /\ BufferInv /\ JobsInv

-----------------------------------------------------------------------------
(* Arriving messages *)

Arrives == \E size \in Sizes : OnMessage(size)

-----------------------------------------------------------------------------
(* Flags and states *)

\* The flags and states stay what they are; a connection that is connected has
\* no wait, since both its beginning and the state change look.
LEMMA ScalarsStep ==
  ASSUME IInv, [Next]_vars
  PROVE  ScalarsOK' /\ StateInv'
<1> USE DEF IInv, queueVars, readVars, sendVars
<1>1. ASSUME NEW size \in Sizes, OnMessage(size) PROVE ScalarsOK' /\ StateInv'
  <2>1. /\ UNCHANGED <<pc, claimed, call, wait, closed>>
        /\ \/ UNCHANGED <<state, overflowed>>
           \/ ~overflowed /\ overflowed' = TRUE /\ state = "open" /\ state' = "closing"
    BY <1>1 DEF OnMessage
  <2>2. overflowed' = overflowed \/ overflowed' = TRUE
    BY <2>1
  <2>3. overflowed' \in BOOLEAN
    BY <2>2, Zenon DEF ScalarsOK
  <2>4. ScalarsOK'
    BY <2>1, <2>3 DEF ScalarsOK, NoWaitWhenConnected
  <2>5. StateInv'
    BY <2>1 DEF StateInv
  <2> QED
    BY <2>4, <2>5
<1>2. ASSUME NEW r \in Readers, Next1(r) \/ call' = [call EXCEPT ![r] = "done"]
      PROVE  call' \in [Readers -> {"idle", "pending", "done"}]
  BY <1>2 DEF Next1, ScalarsOK
<1>3. ASSUME NEW r \in Receivers, Receive(r) PROVE ScalarsOK' /\ StateInv'
  <2>1. UNCHANGED <<state, pc, claimed, overflowed, closed, wait>>
    BY <1>3 DEF Receive, Next1
  <2>2. call' \in [Readers -> {"idle", "pending", "done"}]
    BY <1>2, <1>3 DEF Receive, Readers
  <2> QED
    BY <2>1, <2>2 DEF ScalarsOK, StateInv, NoWaitWhenConnected
<1>4. CASE Pull
  <2>1. UNCHANGED <<state, pc, claimed, overflowed, closed, wait>>
    BY <1>4 DEF Pull, Next1
  <2>2. call' \in [Readers -> {"idle", "pending", "done"}]
    BY <1>2, <1>4 DEF Pull, Readers
  <2> QED
    BY <2>1, <2>2 DEF ScalarsOK, StateInv, NoWaitWhenConnected
<1>5. CASE ReceiveViaStream
  <2>1. UNCHANGED <<state, pc, overflowed, closed, call, wait>> /\ claimed' = TRUE
    BY <1>5 DEF ReceiveViaStream
  <2> QED
    BY <2>1 DEF ScalarsOK, StateInv, NoWaitWhenConnected
<1>6. CASE Resume
  <2>1. /\ UNCHANGED <<state, pc, claimed, overflowed, closed, wait>>
        /\ \E r \in {"idle", "done"} : call' = [call EXCEPT ![Head(jobs).who] = r]
    BY <1>6 DEF Resume
  <2>2. call' \in [Readers -> {"idle", "pending", "done"}]
    BY <2>1 DEF ScalarsOK
  <2> QED
    BY <2>1, <2>2 DEF ScalarsOK, StateInv, NoWaitWhenConnected
<1>7. ASSUME NEW s \in Senders, Send(s) \/ SendViaStream(s) \/ SendStep(s) PROVE ScalarsOK' /\ StateInv'
  <2>1. UNCHANGED <<state, pc, claimed, overflowed, closed, call, wait>>
    BY <1>7 DEF Send, SendViaStream, SendStep, Item, CheckDrain, Hand
  <2> QED
    BY <2>1 DEF ScalarsOK, StateInv, NoWaitWhenConnected
<1>8. CASE WaitConnected \/ Timer
  <2>1. UNCHANGED <<state, pc, claimed, overflowed, closed, call>>
        /\ wait' = (IF wait = "idle" THEN IF pc = "connected" THEN "ok" ELSE "pending" ELSE "timed-out")
    BY <1>8 DEF WaitConnected, Timer
  <2> QED
    BY <2>1 DEF ScalarsOK, StateInv, NoWaitWhenConnected
<1>9. ASSUME NEW s \in {"connected", "failed"}, PcChanges(s) PROVE ScalarsOK' /\ StateInv'
  <2>1. /\ UNCHANGED <<state, claimed, overflowed, closed, call>> /\ pc' = s
        /\ wait' \in {wait, "ok", "timed-out"}
        /\ wait = "pending" /\ s = "connected" => wait' = "ok"
    BY <1>9 DEF PcChanges, CheckState
  <2> QED
    BY <2>1 DEF ScalarsOK, StateInv, NoWaitWhenConnected
<1>10. CASE PcClose \/ OpenEvent \/ CloseStarts \/ CloseEvent \/ Drain
  <2>1. /\ UNCHANGED <<claimed, overflowed, call, wait>>
        /\ pc' \in {pc, "closed"}
        /\ \/ UNCHANGED <<state, closed>>
           \/ state # "closed" /\ state' = "closing" /\ UNCHANGED closed
           \/ state = "connecting" /\ state' = "open" /\ UNCHANGED closed
           \/ state' = "closed" /\ closed' = TRUE
    BY <1>10 DEF PcClose, OpenEvent, CloseStarts, CloseEvent, Drain, Ends
  <2>2. closed' = closed \/ closed' = TRUE
    BY <2>1
  <2>3. closed' \in BOOLEAN
    BY <2>2, Zenon DEF ScalarsOK
  <2>4. ScalarsOK'
    BY <2>1, <2>3 DEF ScalarsOK, NoWaitWhenConnected
  <2>5. StateInv'
    BY <2>1 DEF StateInv, ScalarsOK
  <2> QED
    BY <2>4, <2>5
<1>11. CASE UNCHANGED vars
  BY <1>11 DEF vars, ScalarsOK, StateInv, NoWaitWhenConnected
<1> QED
  BY <1>1, <1>3, <1>4, <1>5, <1>6, <1>7, <1>8, <1>9, <1>10, <1>11 DEF Next, Arrives

-----------------------------------------------------------------------------
(* Sending *)

\* The three ways a step keeps the send buffer within its bound: nothing is
\* added; the buffer is at most at its maximum; or one of the sends that passed
\* the check has sent.
LEMMA BoundKept ==
  ASSUME SendInv, amount' \in Nat,
         \/ Ready' \subseteq Ready /\ amount' <= amount
         \/ amount' <= MaxOut
         \/ \E s \in Ready : Ready' \subseteq Ready \ {s} /\ amount' = amount + 1
  PROVE  amount' + Cardinality(Ready)' <= MaxOut + Cardinality(Senders)
<1> DEFINE R == Ready
           Q == Ready'
           n == Cardinality(Senders)
<1>1. /\ IsFiniteSet(Senders) /\ MaxOut \in Nat /\ amount \in Nat
      /\ R \in SUBSET Senders /\ Q \in SUBSET Senders
  BY JcoAssumption DEF SendInv, Ready
<1>2. n \in Nat
  BY <1>1, FS_CardinalityType
<1> HIDE DEF R, Q
<1>3. /\ IsFiniteSet(R) /\ Cardinality(R) \in Nat
      /\ Cardinality(Q) \in Nat /\ Cardinality(Q) <= n
      /\ \A s \in R : R \ {s} \in SUBSET Senders /\ Cardinality(R \ {s}) + 1 = Cardinality(R)
  BY <1>1, SubsetFacts
<1>4. \A X \in SUBSET Senders : Q \subseteq X => Cardinality(Q) <= Cardinality(X)
  BY <1>1, FS_Subset
<1>5. amount + Cardinality(R) <= MaxOut + n
  BY DEF SendInv, R
<1>6. CASE Q \subseteq R /\ amount' <= amount
  <2>1. Cardinality(Q) <= Cardinality(R)
    BY <1>1, <1>4, <1>6
  <2> QED
    BY <1>1, <1>2, <1>3, <1>5, <1>6, <2>1 DEF Q
<1>7. CASE amount' <= MaxOut
  BY <1>1, <1>2, <1>3, <1>7 DEF Q
<1>8. ASSUME NEW s \in R, Q \subseteq R \ {s}, amount' = amount + 1
      PROVE  amount' + Cardinality(Q) <= MaxOut + n
  <2>1. Cardinality(Q) <= Cardinality(R \ {s})
    BY <1>3, <1>4, <1>8
  <2>2. Cardinality(R \ {s}) + 1 = Cardinality(R) /\ Cardinality(R \ {s}) \in Nat
    <3>1. Cardinality(R \ {s}) \in Nat
      BY <1>1, <1>3, SubsetFacts
    <3> QED
      BY <1>3, <3>1
  <2> HIDE DEF n
  <2> QED
    BY <1>1, <1>2, <1>3, <1>5, <1>8, <2>1, <2>2
<1> QED
  BY <1>6, <1>7, <1>8 DEF R, Q

SendRecord == [at : SendAts, items : Nat]

\* Send s moves to the record r without handing a message over.
LEMMA SendMoves ==
  ASSUME SendInv, NEW s \in Senders, NEW r \in SendRecord, send' = [send EXCEPT ![s] = r],
         r.at = "ready" => amount <= MaxOut,
         UNCHANGED amount
  PROVE  SendInv'
<1>1. send' \in [Senders -> SendRecord] /\ send'[s] = r /\ \A x \in Senders \ {s} : send'[x] = send[x]
  BY DEF SendInv, SendRecord
<1>3. r.at # "ready" => Ready' \subseteq Ready
  BY <1>1 DEF Ready
<1>4. amount \in Nat
  BY DEF SendInv
<1>5. amount' + Cardinality(Ready)' <= MaxOut + Cardinality(Senders)
  BY <1>3, <1>4, BoundKept
<1> QED
  BY <1>1, <1>4, <1>5 DEF SendInv, SendRecord

\* Several sends move, none of them hands a message over.
LEMMA SendsMove ==
  ASSUME SendInv, send' \in [Senders -> SendRecord],
         amount' \in Nat, amount' <= amount,
         Ready' \subseteq Ready \/ amount' <= MaxOut
  PROVE  SendInv'
<1>2. amount' + Cardinality(Ready)' <= MaxOut + Cardinality(Senders)
  BY BoundKept
<1> QED
  BY <1>2 DEF SendInv, SendRecord

\* A record of a send with another control state.
LEMMA RecordAt ==
  ASSUME NEW r \in SendRecord, NEW a \in SendAts
  PROVE  [r EXCEPT !.at = a] \in SendRecord /\ [r EXCEPT !.at = a].at = a
  BY DEF SendRecord

\* Handing a message over: one of the sends that passed the check has sent.
LEMMA HandOK ==
  ASSUME SendInv, NEW s \in Senders, Hand(s) PROVE SendInv'
<1> DEFINE b == send[s]
           ok == state = "open"
           r == [b EXCEPT !.at = Sent(s, ok)]
<1>1. b \in SendRecord /\ b.at = "ready" /\ amount \in Nat
  BY DEF SendInv, SendRecord, Hand
<1>2. s \in Ready
  BY <1>1 DEF Ready
<1>3. Sent(s, ok) \in SendAts /\ Sent(s, ok) # "ready"
  BY DEF Sent, SendAts, SendDone
<1>4. send' = [send EXCEPT ![s] = r] /\ amount' = (IF ok THEN amount + 1 ELSE amount)
  BY DEF Hand
<1> HIDE DEF b
<1>5. r \in SendRecord /\ r.at # "ready"
  BY <1>1, <1>3, RecordAt
<1> HIDE DEF r
<1>6. CASE ~ok
  <2>1. amount' = amount
    BY <1>4, <1>6
  <2> QED
    BY <1>4, <1>5, <2>1, SendMoves
<1>7. CASE ok
  <2>1. send' \in [Senders -> SendRecord] /\ send'[s] = r /\ \A x \in Senders \ {s} : send'[x] = send[x]
    BY <1>4, <1>5 DEF SendInv, SendRecord
  <2>2. Ready' \subseteq Ready \ {s}
    BY <1>5, <2>1 DEF Ready
  <2>3. amount' = amount + 1 /\ amount' \in Nat
    BY <1>1, <1>4, <1>7
  <2>4. amount' + Cardinality(Ready)' <= MaxOut + Cardinality(Senders)
    BY <1>2, <2>2, <2>3, BoundKept
  <2> QED
    BY <2>1, <2>3, <2>4 DEF SendInv, SendRecord
<1> QED
  BY <1>6, <1>7

\* The events that move every send that waits for them.
LEMMA EventsOK ==
  ASSUME SendInv, OpenEvent \/ CloseEvent \/ Drain PROVE SendInv'
<1> DEFINE Moved(a, b, c) == [s \in Senders |-> IF send[s].at = a /\ c THEN [send[s] EXCEPT !.at = b] ELSE send[s]]
<1>1. ASSUME NEW a, NEW b \in SendAts, NEW c, send' = Moved(a, b, c)
      PROVE  /\ send' \in [Senders -> SendRecord]
             /\ b # "ready" \/ c = FALSE => Ready' \subseteq Ready
  <2>1. ASSUME NEW s \in Senders
        PROVE  /\ send'[s] \in SendRecord
               /\ send'[s].at = send[s].at \/ (c /\ send'[s].at = b)
    BY <1>1, RecordAt DEF SendInv, SendRecord
  <2>2. send' \in [Senders -> SendRecord]
    BY <1>1, <2>1
  <2> QED
    BY <2>1, <2>2 DEF Ready
<1>2. amount \in Nat /\ MaxOut \in Nat
  BY JcoAssumption DEF SendInv
<1>3. CASE OpenEvent
  <2>1. send' = Moved("opening", "check", TRUE) /\ UNCHANGED amount
    BY <1>3 DEF OpenEvent
  <2>2. "check" \in SendAts
    BY DEF SendAts
  <2> HIDE DEF Moved
  <2>3. /\ send' \in [Senders -> SendRecord]
        /\ Ready' \subseteq Ready
    BY <1>1, <2>1, <2>2
  <2>4. amount' \in Nat /\ amount' <= amount
    BY <1>2, <2>1
  <2> QED
    BY <2>1, <2>3, <2>4, SendsMove
<1>4. CASE CloseEvent
  <2>1. send' = Moved("opening", "closed", TRUE) /\ UNCHANGED amount
    BY <1>4 DEF CloseEvent
  <2>2. "closed" \in SendAts
    BY DEF SendAts, SendDone
  <2> HIDE DEF Moved
  <2>3. /\ send' \in [Senders -> SendRecord]
        /\ Ready' \subseteq Ready
    BY <1>1, <2>1, <2>2
  <2>4. amount' \in Nat /\ amount' <= amount
    BY <1>2, <2>1
  <2> QED
    BY <2>1, <2>3, <2>4, SendsMove
<1>5. CASE Drain
  <2> DEFINE c == amount' = MaxOut \div 2
  <2>1. /\ send' = Moved("drain", "ready", c)
        /\ amount > 0 /\ amount' = amount - 1
    BY <1>5 DEF Drain
  <2>2. "ready" \in SendAts
    BY DEF SendAts
  <2>3. amount' \in Nat /\ amount' <= amount /\ (c => amount' <= MaxOut)
    BY <1>2, <2>1
  <2>4. c \/ c = FALSE
    OBVIOUS
  <2> HIDE DEF Moved, c
  <2>5. /\ send' \in [Senders -> SendRecord]
        /\ c = FALSE => Ready' \subseteq Ready
    BY <1>1, <2>1, <2>2
  <2> QED
    BY <2>1, <2>3, <2>4, <2>5, SendsMove
<1> QED
  BY <1>3, <1>4, <1>5

\* Every step keeps the sends as they ought to be.
LEMMA SendStepOK ==
  ASSUME SendInv, [Next]_vars PROVE SendInv'
<1> USE DEF queueVars, readVars, sendVars
<1>1. ASSUME NEW s \in Senders, Send(s) \/ SendViaStream(s) \/ SendStep(s) PROVE SendInv'
  <2>1. send[s] \in SendRecord /\ NoSend \in SendRecord /\ DOMAIN send = Senders
    BY DEF SendInv, SendRecord, NoSend, SendAts
  <2> DEFINE e == CASE state = "open" -> "check" [] state = "connecting" -> "opening" [] OTHER -> "closed"
  <2>2. e \in SendAts /\ e # "ready"
    BY DEF SendAts, SendDone
  <2>3. CASE Send(s)
    <3>1. send' = [send EXCEPT ![s] = [NoSend EXCEPT !.at = e]] /\ s \notin Streamed /\ UNCHANGED amount
      BY <2>3 DEF Send, Enter
    <3> HIDE DEF e
    <3>2. [NoSend EXCEPT !.at = e] \in SendRecord /\ [NoSend EXCEPT !.at = e].at = e
      BY <2>1, <2>2, RecordAt
    <3> QED
      BY <2>2, <3>1, <3>2, SendMoves
  <2>4. CASE SendViaStream(s) \/ CheckDrain(s)
    <3>1. PICK a \in SendAts : /\ send' = [send EXCEPT ![s] = [send[s] EXCEPT !.at = a]]
                               /\ a = "ready" => amount <= MaxOut
                               /\ UNCHANGED amount
      BY <2>4 DEF SendViaStream, CheckDrain, SendAts
    <3> DEFINE r == [send[s] EXCEPT !.at = a]
    <3>2. r \in SendRecord /\ r.at = a
      BY <2>1, RecordAt
    <3> HIDE DEF r
    <3>3. send' = [send EXCEPT ![s] = r]
      BY <3>1 DEF r
    <3> QED
      BY <3>1, <3>2, <3>3, SendMoves
  <2>5. CASE Item(s)
    <3>1. UNCHANGED amount
      BY <2>5 DEF Item
    <3>2. CASE \E r \in {"ok", "other"} : send' = [send EXCEPT ![s].at = r]
      <4>1. PICK a \in {"ok", "other"} : send' = [send EXCEPT ![s] = [send[s] EXCEPT !.at = a]]
        BY <3>2
      <4> DEFINE r == [send[s] EXCEPT !.at = a]
      <4>2. r \in SendRecord /\ r.at # "ready"
        BY <2>1, RecordAt DEF SendAts, SendDone
      <4> HIDE DEF r
      <4>3. send' = [send EXCEPT ![s] = r]
        BY <4>1 DEF r
      <4> QED
        BY <3>1, <4>2, <4>3, SendMoves
    <3>3. CASE Enter(s, [send[s] EXCEPT !.items = @ + 1])
      <4> DEFINE b == [send[s] EXCEPT !.items = send[s].items + 1]
                 r == [b EXCEPT !.at = e]
      <4>1. b \in SendRecord
        BY <2>1 DEF SendRecord
      <4>2. send' = [send EXCEPT ![s] = r]
        BY <3>3 DEF Enter
      <4> HIDE DEF b, e
      <4>3. r \in SendRecord /\ r.at = e
        BY <2>2, <4>1, RecordAt
      <4> HIDE DEF r
      <4> QED
        BY <2>2, <3>1, <4>1, <4>2, <4>3, SendMoves
    <3> QED
      BY <2>5, <3>2, <3>3 DEF Item
  <2> QED
    BY <1>1, <2>3, <2>4, <2>5, HandOK DEF SendStep
<1>2. CASE UNCHANGED sendVars
  BY <1>2 DEF SendInv, Ready
<1>3. Arrives \/ ReceiveViaStream \/ Pull \/ Resume => UNCHANGED sendVars
  BY DEF Arrives, OnMessage, ReceiveViaStream, Pull, Resume
<1>4. (\E r \in Receivers : Receive(r)) => UNCHANGED sendVars
  BY DEF Receive
<1>5. WaitConnected \/ Timer \/ (\E s \in {"connected", "failed"} : PcChanges(s)) \/ PcClose \/ CloseStarts
        => UNCHANGED sendVars
  BY DEF WaitConnected, Timer, PcChanges, PcClose, CloseStarts
<1>6. UNCHANGED vars => UNCHANGED sendVars
  BY DEF vars
<1> QED
  BY <1>1, <1>2, <1>3, <1>4, <1>5, <1>6, EventsOK DEF Next, Arrives

-----------------------------------------------------------------------------
(* Sequences, and the bytes of the buffered messages *)

LEMMA AppendFacts ==
  ASSUME NEW S, NEW q \in Seq(S), NEW x \in S
  PROVE  /\ Append(q, x) \in Seq(S) /\ Len(q) \in Nat /\ Len(Append(q, x)) = Len(q) + 1
         /\ DOMAIN q = 1..Len(q) /\ DOMAIN Append(q, x) = 1..(Len(q) + 1)
         /\ \A i \in 1..Len(q) : Append(q, x)[i] = q[i]
         /\ Append(q, x)[Len(q) + 1] = x
  OBVIOUS

LEMMA TailFacts ==
  ASSUME NEW S, NEW q \in Seq(S), q # <<>>
  PROVE  /\ Tail(q) \in Seq(S) /\ Len(q) \in Nat \ {0} /\ Len(Tail(q)) = Len(q) - 1
         /\ DOMAIN q = 1..Len(q) /\ DOMAIN Tail(q) = 1..(Len(q) - 1)
         /\ \A i \in 1..(Len(q) - 1) : Tail(q)[i] = q[i + 1]
         /\ Head(q) = q[1] /\ Head(q) \in S
  OBVIOUS

LEMMA ConcatFacts ==
  ASSUME NEW S, NEW q \in Seq(S), NEW k \in Seq(S)
  PROVE  /\ q \o k \in Seq(S) /\ Len(q) \in Nat /\ Len(k) \in Nat /\ Len(q \o k) = Len(q) + Len(k)
         /\ DOMAIN (q \o k) = 1..(Len(q) + Len(k))
         /\ \A i \in 1..Len(q) : (q \o k)[i] = q[i]
         /\ \A i \in 1..(Len(q) + Len(k)) : i > Len(q) => (q \o k)[i] = k[i - Len(q)]
  OBVIOUS

\* A message at the end of the buffer adds its size.
LEMMA SizesAppend ==
  ASSUME messages \in Seq(Message), NEW m \in Message, messages' = Append(messages, m)
  PROVE  SumOver(MessageSize', DOMAIN messages') = SumOver(MessageSize, DOMAIN messages) + m.size
<1> DEFINE n == Len(messages)
           f == MessageSize'
           e == MessageSize
<1>1. /\ n \in Nat /\ DOMAIN messages = 1..n /\ DOMAIN messages' = 1..(n + 1)
      /\ messages' \in Seq(Message) /\ messages'[n + 1] = m
      /\ \A i \in 1..n : messages'[i] = messages[i]
  BY AppendFacts
<1>2. \A i \in 1..(n + 1) : messages'[i] \in Message
  BY <1>1
<1>3. \A i \in 1..(n + 1) : f[i] = messages'[i].size
  BY <1>1 DEF MessageSize
<1>4. \A i \in 1..(n + 1) : f[i] \in Nat
  BY <1>2, <1>3 DEF Message
<1>5. \A i \in 1..n : e[i] = messages[i].size
  BY <1>1 DEF MessageSize
<1>6. \A i \in 1..n : e[i] = f[i]
  <2>1. \A i \in 1..n : i \in 1..(n + 1)
    BY <1>1
  <2> QED
    BY <1>1, <1>3, <1>5, <2>1
<1>7. n + 1 \in 1..(n + 1)
  BY <1>1
<1> HIDE DEF n, f, e
<1>8. SumOver(f, 1..(n + 1)) = SumOver(e, 1..n) + f[n + 1]
  BY <1>1, <1>4, <1>6, SumExtend
<1> QED
  BY <1>1, <1>3, <1>7, <1>8 DEF f, e

\* The message taken from the buffer takes its size away.
LEMMA SizesTail ==
  ASSUME messages \in Seq(Message), messages # <<>>, messages' = Tail(messages)
  PROVE  /\ SumOver(MessageSize, DOMAIN messages)
              = Head(messages).size + SumOver(MessageSize', DOMAIN messages')
         /\ SumOver(MessageSize', DOMAIN messages') \in Nat /\ Head(messages).size \in Nat
<1> DEFINE n == Len(messages) - 1
           e == MessageSize'
           f == MessageSize
<1>1. /\ n \in Nat /\ DOMAIN messages = 1..(n + 1) /\ DOMAIN messages' = 1..n
      /\ \A i \in 1..n : messages'[i] = messages[i + 1]
      /\ Head(messages) = messages[1]
  BY TailFacts
<1>2. \A i \in 1..(n + 1) : messages[i] \in Message
  BY <1>1
<1>3. \A i \in 1..(n + 1) : f[i] = messages[i].size
  BY <1>1 DEF MessageSize
<1>4. \A i \in 1..(n + 1) : f[i] \in Nat
  BY <1>2, <1>3 DEF Message
<1>5. \A i \in 1..n : e[i] = messages'[i].size
  BY <1>1 DEF MessageSize
<1>6. /\ \A i \in 1..n : i + 1 \in 1..(n + 1)
      /\ 1 \in 1..(n + 1)
  BY <1>1
<1>7. \A i \in 1..n : e[i] = f[i + 1]
  BY <1>1, <1>3, <1>5, <1>6
<1> HIDE DEF n, f, e
<1>8. SumOver(f, 1..(n + 1)) = f[1] + SumOver(e, 1..n)
  BY <1>1, <1>4, <1>7, SumShift
<1>9. SumOver(e, 1..n) \in Nat
  <2> DEFINE D == 1..n
  <2>1. IsFiniteSet(D) /\ \A i \in D : e[i] \in Nat
    <3>1. IsFiniteSet(D)
      BY <1>1, FS_Interval
    <3>2. \A i \in 1..n : f[i + 1] \in Nat
      BY <1>4, <1>6
    <3> QED
      BY <1>7, <3>1, <3>2
  <2> HIDE DEF D
  <2>2. SumOver(e, D) \in Nat
    BY <2>1, SumIsNat
  <2> QED
    BY <2>2 DEF D
<1> QED
  BY <1>1, <1>3, <1>4, <1>6, <1>8, <1>9 DEF f, e

-----------------------------------------------------------------------------
(* The continuations *)

\* What is known of a sequence of continuations.
LEMMA JobFacts ==
  ASSUME NEW q \in Seq(Job)
  PROVE  /\ Len(q) \in Nat /\ DOMAIN q = 1..Len(q)
         /\ \A i \in DOMAIN q : q[i] \in Job /\ q[i].n \in Nat
<1>1. Len(q) \in Nat /\ DOMAIN q = 1..Len(q) /\ \A i \in DOMAIN q : q[i] \in Job
  OBVIOUS
<1>2. \A j \in Job : j.n \in Nat
  BY JcoAssumption DEF Job
<1> QED
  BY <1>1, <1>2

\* The next message goes into a continuation behind all others.
LEMMA GiveOK ==
  ASSUME NEW q \in Seq(Job), NEW t \in Nat, NEW l \in Nat, NEW e, t <= l, l + 1 \in 1..MaxMsgs,
         Numbered(q, t, l), Endings(q, e), ~HasEnding(q), NEW r \in Readers
  PROVE  LET p == Append(q, Given(r, l + 1))
         IN  p \in Seq(Job) /\ Numbered(p, t, l + 1) /\ Endings(p, e) /\ ~HasEnding(p)
<1> DEFINE j == Given(r, l + 1)
           p == Append(q, j)
           n == Len(q)
<1>1. j \in Job /\ j.n = l + 1 /\ j.err = "none"
  BY DEF Job, Given
<1> HIDE DEF j
<1>2. /\ p \in Seq(Job) /\ n \in Nat /\ DOMAIN q = 1..n /\ DOMAIN p = 1..(n + 1)
      /\ \A i \in 1..n : p[i] = q[i]
      /\ p[n + 1] = j
  BY <1>1, AppendFacts
<1>3. \A i \in DOMAIN q : q[i].n \in Nat /\ (q[i].n # 0 => q[i].n <= l)
  BY JobFacts DEF Numbered
<1> HIDE DEF p, n
<1>4. \A i \in DOMAIN p : i \in 1..n \/ i = n + 1
  BY <1>2
<1>5. Numbered(p, t, l + 1)
  <2>1. ASSUME NEW i \in DOMAIN p, NEW k \in DOMAIN p, i < k, p[i].n # 0, p[k].n # 0 PROVE p[i].n < p[k].n
    <3>1. i \in 1..n
      BY <1>2, <1>4, <2>1
    <3>2. CASE k \in 1..n
      BY <1>2, <2>1, <3>1, <3>2 DEF Numbered
    <3>3. CASE k = n + 1
      BY <1>1, <1>2, <1>3, <2>1, <3>1, <3>3
    <3> QED
      BY <1>4, <3>2, <3>3
  <2>2. ASSUME NEW m \in Nat PROVE (\E i \in DOMAIN p : p[i].n = m /\ m # 0) <=> t < m /\ m <= l + 1
    <3>1. CASE m = l + 1
      BY <1>1, <1>2, <3>1
    <3>2. CASE m # l + 1
      <4>1. (\E i \in DOMAIN p : p[i].n = m /\ m # 0) <=> (\E i \in DOMAIN q : q[i].n = m /\ m # 0)
        BY <1>1, <1>2, <1>4, <3>2
      <4>2. m <= l + 1 <=> m <= l
        BY <3>2
      <4> QED
        BY <4>1, <4>2 DEF Numbered
    <3> QED
      BY <3>1, <3>2
  <2> QED
    BY <2>1, <2>2 DEF Numbered
<1>6. ~HasEnding(p)
  BY <1>1, <1>2, <1>4 DEF HasEnding, Ended
<1>7. Endings(p, e)
  BY <1>1, <1>2, <1>4, <1>6 DEF Endings, HasEnding
<1> QED
  BY <1>2, <1>5, <1>6, <1>7 DEF p, j

\* Continuations that reject are added: with the claim, or with the ending.
LEMMA RejectOK ==
  ASSUME NEW q \in Seq(Job), NEW p \in Seq(Job), NEW t, NEW l, NEW e, NEW x, x = "claimed" \/ x = e,
         Len(q) <= Len(p), \A i \in 1..Len(q) : p[i] = q[i],
         \A i \in 1..Len(p) : i > Len(q) => p[i].n = 0 /\ p[i].err = x,
         Numbered(q, t, l), Endings(q, e)
  PROVE  /\ Numbered(p, t, l) /\ Endings(p, e)
         /\ HasEnding(p) => HasEnding(q) \/ (x = e /\ Len(q) < Len(p))
<1>1. /\ Len(q) \in Nat /\ Len(p) \in Nat /\ DOMAIN q = 1..Len(q) /\ DOMAIN p = 1..Len(p)
      /\ \A i \in DOMAIN p : p[i].n \in Nat
  BY JobFacts
<1>2. /\ \A i \in DOMAIN p : i \in DOMAIN q \/ (i > Len(q) /\ p[i].n = 0 /\ p[i].err = x /\ Len(q) < Len(p))
      /\ \A i \in DOMAIN q : i \in DOMAIN p /\ p[i] = q[i]
  BY <1>1
<1>3. Numbered(p, t, l)
  BY <1>2 DEF Numbered
<1>4. Endings(p, e)
  <2>1. ASSUME NEW i \in DOMAIN p, p[i].err \in Ended PROVE p[i].err = e /\ \A j \in DOMAIN p : j > i => p[j].n = 0
    <3>1. CASE i \in DOMAIN q
      BY <1>2, <2>1, <3>1 DEF Endings
    <3>2. CASE i \notin DOMAIN q
      BY <1>1, <1>2, <2>1, <3>2 DEF Ended
    <3> QED
      BY <3>1, <3>2
  <2>2. \A i \in DOMAIN p : p[i].n # 0 => p[i].err = "none"
    BY <1>2 DEF Endings
  <2> QED
    BY <2>1, <2>2 DEF Endings
<1>5. HasEnding(p) => HasEnding(q) \/ (x = e /\ Len(q) < Len(p))
  BY <1>2 DEF HasEnding, Ended
<1> QED
  BY <1>3, <1>4, <1>5

\* The first continuation runs: what it hands out is the message after the last
\* one, and when it reports an ending every message was handed out.
LEMMA HeadOK ==
  ASSUME NEW q \in Seq(Job), q # <<>>, NEW t \in Nat, NEW l \in Nat, t <= l, NEW e,
         Numbered(q, t, l), Endings(q, e)
  PROVE  LET h == Head(q)
             u == IF h.n > 0 THEN h.n ELSE t
         IN  /\ Tail(q) \in Seq(Job)
             /\ h.n \in Nat /\ (h.n # 0 => h.n = t + 1 /\ h.n <= l /\ h.err = "none")
             /\ u \in Nat /\ u <= l
             /\ Numbered(Tail(q), u, l) /\ Endings(Tail(q), e)
             /\ HasEnding(Tail(q)) => HasEnding(q)
             /\ h.err \in Ended => h.err = e /\ t = l /\ HasEnding(q)
<1> DEFINE h == Head(q)
           u == IF h.n > 0 THEN h.n ELSE t
           p == Tail(q)
           n == Len(q) - 1
<1>1. /\ p \in Seq(Job) /\ n \in Nat /\ DOMAIN q = 1..(n + 1) /\ DOMAIN p = 1..n
      /\ \A i \in 1..n : p[i] = q[i + 1]
      /\ h = q[1]
  BY TailFacts
<1>2. \A i \in DOMAIN q : q[i].n \in Nat
  BY JobFacts
<1> HIDE DEF h, p, n
<1>3. /\ 1 \in DOMAIN q /\ h.n \in Nat
      /\ \A i \in DOMAIN p : i + 1 \in DOMAIN q /\ i + 1 > 1 /\ p[i] = q[i + 1]
      /\ \A i \in DOMAIN q : i # 1 => i - 1 \in DOMAIN p /\ p[i - 1] = q[i] /\ i > 1
  <2>1. 1 \in DOMAIN q /\ h.n \in Nat
    BY <1>1, <1>2
  <2>2. \A i \in DOMAIN p : i + 1 \in DOMAIN q /\ i + 1 > 1 /\ p[i] = q[i + 1]
    BY <1>1
  <2>3. ASSUME NEW i \in DOMAIN q, i # 1 PROVE i - 1 \in DOMAIN p /\ p[i - 1] = q[i] /\ i > 1
    <3>1. i - 1 \in 1..n /\ (i - 1) + 1 = i /\ i > 1
      BY <1>1, <2>3
    <3> QED
      BY <1>1, <3>1
  <2> QED
    BY <2>1, <2>2, <2>3
<1>4. ASSUME h.n # 0 PROVE h.n = t + 1 /\ h.n <= l /\ h.err = "none"
  <2>1. t < h.n /\ h.n <= l
    BY <1>1, <1>3, <1>4 DEF Numbered
  <2>2. PICK i \in DOMAIN q : q[i].n = t + 1 /\ t + 1 # 0
    <3>1. t + 1 \in Nat /\ t < t + 1 /\ t + 1 <= l
      BY <1>3, <2>1
    <3> QED
      BY <3>1 DEF Numbered
  <2>3. i # 1 => h.n < t + 1
    BY <1>1, <1>3, <1>4, <2>2 DEF Numbered
  <2>4. h.n = t + 1
    BY <1>1, <1>3, <2>1, <2>2, <2>3
  <2> QED
    BY <1>1, <1>3, <1>4, <2>1, <2>4 DEF Endings
<1>5. u \in Nat /\ u <= l /\ (h.n # 0 => u = t + 1) /\ (h.n = 0 => u = t)
  BY <1>3, <1>4
<1> HIDE DEF u
<1>6. Numbered(p, u, l)
  <2>1. ASSUME NEW i \in DOMAIN p, NEW j \in DOMAIN p, i < j, p[i].n # 0, p[j].n # 0 PROVE p[i].n < p[j].n
    <3>1. i + 1 \in DOMAIN q /\ j + 1 \in DOMAIN q /\ i + 1 < j + 1 /\ p[i] = q[i + 1] /\ p[j] = q[j + 1]
      BY <1>1, <1>3, <2>1
    <3> QED
      BY <2>1, <3>1 DEF Numbered
  <2>2. ASSUME NEW m \in Nat PROVE (\E i \in DOMAIN p : p[i].n = m /\ m # 0) <=> u < m /\ m <= l
    <3>1. ASSUME NEW i \in DOMAIN p, p[i].n = m, m # 0 PROVE u < m /\ m <= l
      <4>1. i + 1 \in DOMAIN q /\ i + 1 > 1 /\ q[i + 1].n = m
        BY <1>3, <3>1
      <4>2. t < m /\ m <= l
        BY <3>1, <4>1 DEF Numbered
      <4>3. h.n # 0 => h.n < m
        BY <1>1, <1>3, <3>1, <4>1 DEF Numbered
      <4> QED
        BY <1>4, <1>5, <4>2, <4>3
    <3>2. ASSUME u < m, m <= l PROVE \E i \in DOMAIN p : p[i].n = m /\ m # 0
      <4>1. t < m
        BY <1>5, <3>2
      <4>2. PICK i \in DOMAIN q : q[i].n = m /\ m # 0
        BY <3>2, <4>1 DEF Numbered
      <4>3. i # 1
        BY <1>1, <1>4, <1>5, <3>2, <4>2
      <4> QED
        BY <1>3, <4>2, <4>3
    <3> QED
      BY <3>1, <3>2
  <2> QED
    BY <2>1, <2>2 DEF Numbered
<1>7. Endings(p, e)
  <2>1. ASSUME NEW i \in DOMAIN p PROVE /\ p[i].n # 0 => p[i].err = "none"
                                        /\ p[i].err \in Ended => p[i].err = e
    BY <1>3 DEF Endings
  <2>2. ASSUME NEW i \in DOMAIN p, p[i].err \in Ended, NEW j \in DOMAIN p, j > i PROVE p[j].n = 0
    <3>1. i + 1 \in DOMAIN q /\ j + 1 \in DOMAIN q /\ j + 1 > i + 1 /\ p[i] = q[i + 1] /\ p[j] = q[j + 1]
      BY <1>1, <1>3, <2>2
    <3> QED
      BY <2>2, <3>1 DEF Endings
  <2> QED
    BY <2>1, <2>2 DEF Endings
<1>8. HasEnding(p) => HasEnding(q)
  BY <1>3 DEF HasEnding
<1>9. ASSUME h.err \in Ended PROVE h.err = e /\ t = l /\ HasEnding(q)
  <2>1. HasEnding(q) /\ h.err = e /\ \A i \in DOMAIN q : i > 1 => q[i].n = 0
    BY <1>1, <1>3, <1>9 DEF Endings, HasEnding
  <2>2. h.n = 0
    BY <1>4, <1>9 DEF Ended
  <2>3. \A i \in DOMAIN q : q[i].n = 0
    BY <1>1, <1>3, <2>1, <2>2
  <2>4. t = l
    <3>1. ~(t < l)
      BY <2>3 DEF Numbered
    <3> QED
      BY <3>1
  <2> QED
    BY <2>1, <2>4
<1> QED
  BY <1>1, <1>3, <1>4, <1>5, <1>6, <1>7, <1>8, <1>9 DEF h, u, p

-----------------------------------------------------------------------------
(* The queue *)

Inbound == BufferInv /\ JobsInv

\* What the invariant says of the counters, as numbers.
LEMMA InboundFacts ==
  ASSUME Inbound
  PROVE  /\ Len(messages) \in Nat /\ arrived \in Nat /\ Before \in Nat /\ taken \in Nat /\ MaxMsgs \in Nat
         /\ arrived = Before + Len(messages) /\ arrived <= MaxMsgs /\ taken <= Before
         /\ messages = <<>> => Len(messages) = 0 /\ Before = arrived
         /\ messages # <<>> => Len(messages) > 0
<1>1. messages \in Seq(Message) /\ arrived \in 0..MaxMsgs /\ Before \in Nat /\ MaxMsgs \in Nat /\ taken \in Nat
      /\ taken <= Before
  BY JcoAssumption DEF Inbound, BufferInv, JobsInv
<1>2. Len(messages) \in Nat /\ (messages = <<>> => Len(messages) = 0) /\ (messages # <<>> => Len(messages) > 0)
  BY <1>1
<1> QED
  BY <1>1, <1>2 DEF Before

\* A step that does not touch the queue, its continuations or the counters.
LEMMA InboundFrame ==
  ASSUME Inbound, UNCHANGED <<messages, waiters, buffered, overflowed, closed, jobs, arrived, taken>>
  PROVE  Inbound'
<1>1. BufferInv'
  BY DEF Inbound, BufferInv, Before, MessageSize
<1>2. JobsInv'
  BY DEF Inbound, JobsInv, Before, EndError, Numbered, Endings, HasEnding
<1> QED
  BY <1>1, <1>2 DEF Inbound

\* A message arrives: it goes to the first waiter, into the buffer, or nowhere.
LEMMA OnMessageOK ==
  ASSUME Inbound, StateInv, NEW size \in Sizes, OnMessage(size) PROVE Inbound'
<1> USE DEF queueVars
<1>1. /\ jobs = <<>> /\ arrived < MaxMsgs /\ taken' = taken /\ size \in Nat
      /\ jobs \in Seq(Job) /\ waiters \in Seq(Readers)
      /\ messages \in Seq(Message)
      /\ Len(jobs) = 0 /\ ~HasEnding(jobs)
  BY JcoAssumption DEF OnMessage, Quiet, HasEnding, Inbound, JobsInv, BufferInv
<1>2. CASE overflowed
  <2>1. UNCHANGED <<messages, waiters, buffered, overflowed, closed, jobs, arrived, taken>>
    BY <1>1, <1>2 DEF OnMessage
  <2> QED
    BY <2>1, InboundFrame
<1>3. CASE ~overflowed /\ ~Fits(size)
  <2>1. /\ UNCHANGED <<messages, waiters, buffered, closed, jobs, arrived>> /\ overflowed' = TRUE
        /\ waiters = <<>>
    BY <1>3 DEF OnMessage, Fits
  <2>2. BufferInv'
    BY <2>1 DEF Inbound, BufferInv, Before, MessageSize
  <2>3. JobsInv'
    BY <1>1, <2>1 DEF Inbound, JobsInv, Before, Numbered, Endings, HasEnding
  <2> QED
    BY <2>2, <2>3 DEF Inbound
<1>4. CASE ~overflowed /\ Fits(size) /\ waiters # <<>>
  <2> DEFINE r == Head(waiters)
  <2>1. /\ jobs' = Append(jobs, Given(r, arrived + 1)) /\ waiters' = Tail(waiters) /\ arrived' = arrived + 1
        /\ UNCHANGED <<messages, buffered, overflowed, closed>>
    BY <1>4 DEF OnMessage, Push
  <2>2. messages = <<>> /\ ~closed
    BY <1>4 DEF Inbound, JobsInv
  <2>3. r \in Readers /\ waiters' \in Seq(Readers)
    BY <1>1, <1>4, <2>1, TailFacts
  <2>4. /\ Before = arrived /\ Before' = arrived + 1 /\ arrived \in Nat /\ taken \in Nat /\ taken <= arrived
        /\ arrived + 1 \in 1..MaxMsgs
    BY <1>1, <2>1, <2>2, InboundFacts DEF Before
  <2>5. Numbered(jobs, taken, arrived) /\ Endings(jobs, EndError)
    BY <2>4 DEF Inbound, JobsInv
  <2> HIDE DEF r
  <2>6. jobs' \in Seq(Job) /\ Numbered(jobs', taken, arrived + 1) /\ Endings(jobs', EndError) /\ ~HasEnding(jobs')
    BY <1>1, <2>1, <2>3, <2>4, <2>5, GiveOK
  <2>7. EndError' = EndError
    BY <2>1 DEF EndError
  <2>8. BufferInv'
    <3>1. arrived' \in 0..MaxMsgs /\ Before' \in Nat /\ Len(messages') = 0
      BY <2>1, <2>2, <2>4
    <3> QED
      BY <2>1, <2>2, <3>1 DEF Inbound, BufferInv, MessageSize
  <2>9. taken' \in Nat /\ taken' <= Before'
    BY <1>1, <2>4
  <2>10. JobsInv'
    BY <1>1, <1>4, <2>1, <2>2, <2>3, <2>4, <2>6, <2>7, <2>9 DEF JobsInv, HasEnding
  <2> QED
    BY <2>8, <2>10 DEF Inbound
<1>5. CASE ~overflowed /\ Fits(size) /\ waiters = <<>>
  <2> DEFINE m == [n |-> arrived + 1, size |-> size]
  <2>1. /\ messages' = Append(messages, m) /\ buffered' = buffered + size /\ arrived' = arrived + 1
        /\ UNCHANGED <<waiters, jobs, overflowed, closed>> /\ buffered + size <= Limit
    BY <1>5 DEF OnMessage, Push, Fits
  <2>2. arrived + 1 \in 1..MaxMsgs /\ arrived \in Nat /\ Len(messages) \in Nat
    BY <1>1, InboundFacts
  <2>3. m \in Message /\ m.n = arrived + 1 /\ m.size = size
    BY <1>1, <2>2 DEF Message
  <2> HIDE DEF m
  <2>4. /\ messages' \in Seq(Message) /\ Len(messages') = Len(messages) + 1
        /\ \A i \in 1..Len(messages) : messages'[i] = messages[i]
        /\ messages'[Len(messages) + 1] = m
    BY <1>1, <2>1, <2>3, AppendFacts
  <2>5. Before' = Before /\ Before \in Nat /\ arrived + 1 = Before + (Len(messages) + 1)
    BY <2>1, <2>2, <2>4, InboundFacts DEF Before
  <2>6. \A i \in 1..(Len(messages) + 1) : messages'[i].n = Before + i
    <3>1. \A i \in 1..(Len(messages) + 1) : i \in 1..Len(messages) \/ i = Len(messages) + 1
      BY <2>2
    <3> QED
      BY <2>3, <2>4, <2>5, <3>1 DEF Inbound, BufferInv
  <2>7. SumOver(MessageSize', DOMAIN messages') = SumOver(MessageSize, DOMAIN messages) + m.size
    BY <1>1, <2>1, <2>3, SizesAppend
  <2>8. buffered' = SumOver(MessageSize', DOMAIN messages') /\ buffered' <= Limit
    BY <2>1, <2>3, <2>7 DEF Inbound, BufferInv
  <2>9. BufferInv'
    <3>1. arrived' \in 0..MaxMsgs
      BY <2>1, <2>2
    <3> QED
      BY <2>4, <2>5, <2>6, <2>8, <3>1 DEF BufferInv
  <2>10. JobsInv'
    BY <1>1, <1>5, <2>1, <2>5 DEF Inbound, JobsInv, EndError, Numbered, Endings, HasEnding
  <2> QED
    BY <2>9, <2>10 DEF Inbound
<1> QED
  BY <1>2, <1>3, <1>4, <1>5

\* A caller gets the oldest message, the ending of the drained channel, or a
\* place among the waiters.
LEMMA NextOK ==
  ASSUME Inbound, NEW r \in Readers, Next1(r), UNCHANGED <<arrived, taken>> PROVE Inbound'
<1>1. /\ jobs \in Seq(Job) /\ waiters \in Seq(Readers) /\ messages \in Seq(Message)
      /\ UNCHANGED <<overflowed, closed>> /\ EndError' = EndError
  BY DEF Inbound, JobsInv, BufferInv, Next1, EndError
<1>2. CASE messages # <<>> /\ jobs' = Append(jobs, Given(r, Head(messages).n))
           /\ messages' = Tail(messages) /\ buffered' = buffered - Head(messages).size /\ UNCHANGED waiters
  <2>1. /\ messages' \in Seq(Message) /\ Len(messages) \in Nat \ {0} /\ Len(messages') = Len(messages) - 1
        /\ \A i \in 1..(Len(messages) - 1) : messages'[i] = messages[i + 1]
        /\ Head(messages) = messages[1]
    BY <1>1, <1>2, TailFacts
  <2>2. /\ Before' = Before + 1 /\ Before \in Nat /\ taken \in Nat /\ taken <= Before
        /\ Before + 1 \in 1..MaxMsgs
    BY <1>2, <2>1, InboundFacts DEF Before
  <2>3. Head(messages).n = Before + 1
    BY <2>1 DEF Inbound, BufferInv
  <2>4. ~HasEnding(jobs) /\ Numbered(jobs, taken, Before) /\ Endings(jobs, EndError)
    BY <1>2 DEF Inbound, JobsInv
  <2>5. /\ jobs' \in Seq(Job) /\ Numbered(jobs', taken, Before + 1) /\ Endings(jobs', EndError)
        /\ ~HasEnding(jobs')
    BY <1>1, <1>2, <2>2, <2>3, <2>4, GiveOK
  <2>6. \A i \in 1..Len(messages') : messages'[i].n = Before' + i
    <3> TAKE i \in 1..Len(messages')
    <3>1. i + 1 \in 1..Len(messages) /\ i \in 1..(Len(messages) - 1)
      BY <2>1
    <3>2. messages[i + 1].n = Before + (i + 1)
      BY <3>1 DEF Inbound, BufferInv
    <3>3. Before + (i + 1) = (Before + 1) + i
      BY <2>2
    <3> QED
      BY <2>1, <2>2, <3>1, <3>2, <3>3
  <2>7. buffered' = SumOver(MessageSize', DOMAIN messages') /\ buffered' <= Limit
    <3>1. /\ buffered = Head(messages).size + SumOver(MessageSize', DOMAIN messages')
          /\ SumOver(MessageSize', DOMAIN messages') \in Nat /\ Head(messages).size \in Nat
          /\ buffered <= Limit
      BY <1>1, <1>2, SizesTail DEF Inbound, BufferInv
    <3> QED
      BY <1>2, <3>1, JcoAssumption
  <2>8. BufferInv'
    BY <2>1, <2>2, <2>6, <2>7 DEF Inbound, BufferInv
  <2>9. taken' \in Nat /\ taken' <= Before'
    BY <2>2
  <2>10. JobsInv'
    <3>1. waiters = <<>>
      BY <1>2 DEF Inbound, JobsInv
    <3> QED
      BY <1>1, <1>2, <2>2, <2>5, <2>9, <3>1 DEF JobsInv, HasEnding
  <2> QED
    BY <2>8, <2>10 DEF Inbound
<1>3. CASE messages = <<>> /\ (overflowed \/ closed) /\ jobs' = Append(jobs, Rejected(r, EndError))
           /\ UNCHANGED <<messages, buffered, waiters>>
  <2> DEFINE j == Rejected(r, EndError)
  <2>1. j \in Job /\ j.n = 0 /\ j.err = EndError
    BY JcoAssumption DEF Job, Rejected, EndError, Ended
  <2> HIDE DEF j
  <2>2. /\ jobs' \in Seq(Job) /\ Len(jobs) \in Nat /\ Len(jobs') = Len(jobs) + 1
        /\ \A i \in 1..Len(jobs) : jobs'[i] = jobs[i]
        /\ jobs'[Len(jobs) + 1] = j
    BY <1>1, <1>3, <2>1, AppendFacts DEF j
  <2>3. Len(jobs) <= Len(jobs') /\ \A i \in 1..Len(jobs') : i > Len(jobs) => jobs'[i].n = 0 /\ jobs'[i].err = EndError
    <3>1. \A i \in 1..Len(jobs') : i > Len(jobs) => i = Len(jobs) + 1
      BY <2>2
    <3> QED
      BY <2>1, <2>2, <3>1
  <2>4. Numbered(jobs', taken, Before) /\ Endings(jobs', EndError)
    BY <1>1, <2>2, <2>3, RejectOK DEF Inbound, JobsInv
  <2>5. Before' = Before /\ BufferInv'
    BY <1>3 DEF Inbound, BufferInv, Before, MessageSize
  <2>6. JobsInv'
    BY <1>1, <1>3, <2>2, <2>4, <2>5 DEF Inbound, JobsInv
  <2> QED
    BY <2>5, <2>6 DEF Inbound
<1>4. CASE messages = <<>> /\ ~overflowed /\ ~closed /\ waiters' = Append(waiters, r)
           /\ UNCHANGED <<messages, buffered, jobs>>
  <2>1. waiters' \in Seq(Readers)
    BY <1>1, <1>4, AppendFacts
  <2>2. Before' = Before /\ BufferInv'
    BY <1>4 DEF Inbound, BufferInv, Before, MessageSize
  <2>3. JobsInv'
    BY <1>1, <1>4, <2>1, <2>2 DEF Inbound, JobsInv, Numbered, Endings, HasEnding
  <2> QED
    BY <2>2, <2>3 DEF Inbound
<1> QED
  BY <1>2, <1>3, <1>4 DEF Next1

\* The claim and the close reject every waiter.
LEMMA RejectAllOK ==
  ASSUME Inbound, NEW x \in {"claimed", EndError}, x = EndError => closed',
         jobs' = jobs \o [i \in DOMAIN waiters |-> Rejected(waiters[i], x)], waiters' = <<>>,
         closed' = closed \/ closed' = TRUE,
         UNCHANGED <<messages, buffered, overflowed, arrived, taken>>
  PROVE  Inbound'
<1> DEFINE k == [i \in DOMAIN waiters |-> Rejected(waiters[i], x)]
<1>1. jobs \in Seq(Job) /\ waiters \in Seq(Readers)
  BY DEF Inbound, JobsInv
<1>2. Len(waiters) \in Nat /\ DOMAIN waiters = 1..Len(waiters) /\ \A i \in 1..Len(waiters) : waiters[i] \in Readers
  BY <1>1
<1>3. \A i \in 1..Len(waiters) : k[i] \in Job /\ k[i].n = 0 /\ k[i].err = x
  BY <1>2, JcoAssumption DEF Rejected, Job, EndError, Ended
<1>4. k \in Seq(Job) /\ Len(k) = Len(waiters)
  <2>1. k \in [1..Len(waiters) -> Job]
    BY <1>2, <1>3
  <2> HIDE DEF k
  <2> QED
    BY <1>2, <2>1
<1> HIDE DEF k
<1>5. /\ jobs' \in Seq(Job) /\ Len(jobs) \in Nat /\ Len(jobs') = Len(jobs) + Len(k)
      /\ \A i \in 1..Len(jobs) : jobs'[i] = jobs[i]
      /\ \A i \in 1..(Len(jobs) + Len(k)) : i > Len(jobs) => jobs'[i] = k[i - Len(jobs)]
  BY <1>1, <1>4, ConcatFacts DEF k
<1>6. Len(jobs) <= Len(jobs') /\ \A i \in 1..Len(jobs') : i > Len(jobs) => jobs'[i].n = 0 /\ jobs'[i].err = x
  <2>1. \A i \in 1..Len(jobs') : i > Len(jobs) => i - Len(jobs) \in 1..Len(waiters)
    BY <1>2, <1>4, <1>5
  <2>2. ASSUME NEW i \in 1..Len(jobs'), i > Len(jobs) PROVE jobs'[i].n = 0 /\ jobs'[i].err = x
    <3>1. i \in 1..(Len(jobs) + Len(k)) /\ i - Len(jobs) \in 1..Len(waiters)
      BY <1>5, <2>1, <2>2
    <3>2. jobs'[i] = k[i - Len(jobs)]
      BY <1>5, <2>2, <3>1
    <3> QED
      BY <1>3, <3>1, <3>2
  <2>3. Len(jobs) <= Len(jobs')
    BY <1>2, <1>4, <1>5
  <2> QED
    BY <2>2, <2>3
<1>7. /\ Numbered(jobs', taken, Before) /\ Endings(jobs', EndError)
      /\ HasEnding(jobs') => HasEnding(jobs) \/ (x = EndError /\ Len(jobs) < Len(jobs'))
  <2>1. Numbered(jobs, taken, Before) /\ Endings(jobs, EndError)
    BY DEF Inbound, JobsInv
  <2> DEFINE p == jobs'
             e == EndError
             l == Before
  <2>2. /\ p \in Seq(Job) /\ Len(jobs) <= Len(p) /\ (x = "claimed" \/ x = e)
        /\ \A i \in 1..Len(jobs) : p[i] = jobs[i]
        /\ \A i \in 1..Len(p) : i > Len(jobs) => p[i].n = 0 /\ p[i].err = x
        /\ Numbered(jobs, taken, l) /\ Endings(jobs, e)
    BY <1>5, <1>6, <2>1
  <2> HIDE DEF p, e, l
  <2>3. /\ Numbered(p, taken, l) /\ Endings(p, e)
        /\ HasEnding(p) => HasEnding(jobs) \/ (x = e /\ Len(jobs) < Len(p))
    BY <1>1, <2>2, RejectOK
  <2> QED
    BY <2>3 DEF p, e, l
<1>8. Len(jobs) < Len(jobs') => messages = <<>>
  <2>1. Len(jobs) < Len(jobs') => waiters # <<>>
    BY <1>1, <1>4, <1>5
  <2> QED
    BY <2>1 DEF Inbound, JobsInv
<1>9. EndError' = EndError /\ Before' = Before /\ BufferInv'
  BY DEF Inbound, BufferInv, EndError, Before, MessageSize
<1>10. HasEnding(jobs') => messages = <<>> /\ (overflowed \/ closed')
  BY <1>7, <1>8 DEF Inbound, JobsInv
<1>11. taken' \in Nat /\ taken' <= Before' /\ waiters' \in Seq(Readers)
  BY <1>9 DEF Inbound, JobsInv
<1>12. JobsInv'
  BY <1>5, <1>7, <1>9, <1>10, <1>11 DEF JobsInv, HasEnding
<1> QED
  BY <1>9, <1>12 DEF Inbound

\* The next continuation runs.
LEMMA ResumeOK ==
  ASSUME Inbound, Resume PROVE Inbound'
<1> USE DEF queueVars
<1> DEFINE h == Head(jobs)
<1>1. /\ jobs # <<>> /\ jobs' = Tail(jobs) /\ taken' = IF h.n > 0 THEN h.n ELSE taken
      /\ UNCHANGED <<messages, waiters, buffered, overflowed, closed, arrived>>
  BY DEF Resume
<1>2. jobs \in Seq(Job) /\ taken \in Nat /\ Before \in Nat /\ taken <= Before
      /\ Numbered(jobs, taken, Before) /\ Endings(jobs, EndError)
  BY InboundFacts DEF Inbound, JobsInv
<1>3. /\ jobs' \in Seq(Job) /\ taken' \in Nat /\ taken' <= Before
      /\ Numbered(jobs', taken', Before) /\ Endings(jobs', EndError)
      /\ HasEnding(jobs') => HasEnding(jobs)
  BY <1>1, <1>2, HeadOK
<1>4. EndError' = EndError /\ Before' = Before /\ BufferInv'
  BY <1>1 DEF Inbound, BufferInv, EndError, Before, MessageSize
<1>5. JobsInv'
  BY <1>1, <1>3, <1>4 DEF Inbound, JobsInv, HasEnding
<1> QED
  BY <1>4, <1>5 DEF Inbound

\* Every step keeps the queue and its continuations as they ought to be.
LEMMA InboundStep ==
  ASSUME IInv, [Next]_vars PROVE Inbound'
<1> USE DEF IInv, queueVars, readVars, sendVars
<1>1. Inbound
  BY DEF Inbound
<1>2. ASSUME NEW size \in Sizes, OnMessage(size) PROVE Inbound'
  BY <1>1, <1>2, OnMessageOK
<1>3. ASSUME NEW r \in Receivers, Receive(r) PROVE Inbound'
  <2>1. CASE ~claimed /\ Next1(r)
    BY <1>1, <1>3, <2>1, NextOK DEF Receive, Readers
  <2>2. CASE UNCHANGED <<queueVars, jobs>>
    BY <1>1, <1>3, <2>2, InboundFrame DEF Receive
  <2> QED
    BY <1>3, <2>1, <2>2 DEF Receive
<1>4. CASE Pull
  BY <1>1, <1>4, NextOK DEF Pull, Readers
<1>5. CASE ReceiveViaStream
  BY <1>1, <1>5, RejectAllOK DEF ReceiveViaStream, EndError
<1>6. CASE Resume
  BY <1>1, <1>6, ResumeOK
<1>7. CASE CloseEvent
  <2>1. state = "closing" /\ ~closed
    BY <1>7 DEF CloseEvent, StateInv
  <2>2. /\ closed' = TRUE /\ waiters' = <<>>
        /\ jobs' = jobs \o [i \in DOMAIN waiters |-> Rejected(waiters[i], EndError)]
        /\ UNCHANGED <<messages, buffered, overflowed, arrived, taken>>
    BY <1>7, <2>1 DEF CloseEvent, Ends
  <2> QED
    BY <1>1, <2>2, RejectAllOK
<1>8. ASSUME NEW s \in Senders, Send(s) \/ SendViaStream(s) \/ SendStep(s) PROVE Inbound'
  <2>1. UNCHANGED <<queueVars, readVars>>
    BY <1>8 DEF Send, SendViaStream, SendStep, Item, CheckDrain, Hand
  <2> QED
    BY <1>1, <2>1, InboundFrame
<1>9. ASSUME NEW s \in {"connected", "failed"}, PcChanges(s) PROVE Inbound'
  BY <1>1, <1>9, InboundFrame DEF PcChanges
<1>10. CASE WaitConnected \/ Timer \/ PcClose \/ OpenEvent \/ CloseStarts \/ Drain \/ UNCHANGED vars
  <2>1. UNCHANGED <<queueVars, readVars>>
    BY <1>10 DEF WaitConnected, Timer, PcClose, OpenEvent, CloseStarts, Drain, vars
  <2> QED
    BY <1>1, <2>1, InboundFrame
<1> QED
  BY <1>2, <1>3, <1>4, <1>5, <1>6, <1>7, <1>8, <1>9, <1>10 DEF Next, Arrives

-----------------------------------------------------------------------------
(* The invariant, and the properties that follow from it *)

\* The invariant holds initially.
LEMMA InitOK == Init => IInv
<1> SUFFICES ASSUME Init PROVE IInv
  OBVIOUS
<1>1. ScalarsOK /\ StateInv
  BY DEF Init, ScalarsOK, StateInv, NoWaitWhenConnected
<1>2. SendInv
  <2>1. NoSend \in SendRecord /\ NoSend.at = "idle"
    BY DEF NoSend, SendRecord, SendAts
  <2>2. /\ send = [s \in Senders |-> NoSend] /\ amount = 0
        /\ MaxOut \in Nat /\ IsFiniteSet(Senders)
    BY JcoAssumption DEF Init
  <2>3. Ready = {}
    BY <2>1, <2>2 DEF Ready
  <2>4. Cardinality(Ready) = 0 /\ Cardinality(Senders) \in Nat
    BY <2>2, <2>3, FS_EmptySet, FS_CardinalityType
  <2> QED
    BY <2>1, <2>2, <2>3, <2>4 DEF SendInv, SendRecord
<1>3. /\ messages = <<>> /\ waiters = <<>> /\ jobs = <<>> /\ buffered = 0 /\ arrived = 0 /\ taken = 0
      /\ MaxMsgs \in Nat /\ Limit \in Nat
  BY JcoAssumption DEF Init
<1>4. Len(messages) = 0 /\ Before = 0 /\ DOMAIN messages = {} /\ DOMAIN jobs = {}
  <2>1. Len(messages) = 0 /\ DOMAIN messages = {} /\ DOMAIN jobs = {}
    BY <1>3
  <2>2. arrived = 0
    BY <1>3
  <2> QED
    BY <2>1, <2>2 DEF Before
<1>5. SumOver(MessageSize, {}) = 0
  BY SumOfNothing
<1>6. BufferInv
  BY <1>3, <1>4, <1>5 DEF BufferInv
<1>7. JobsInv
  BY <1>3, <1>4 DEF JobsInv, Numbered, Endings, HasEnding
<1> QED
  BY <1>1, <1>2, <1>6, <1>7 DEF IInv

\* The inductive invariant holds in every reachable state.
THEOREM IInvHolds == Spec => []IInv
<1>1. IInv /\ [Next]_vars => IInv'
  BY ScalarsStep, SendStepOK, InboundStep DEF IInv, Inbound
<1> QED
  BY <1>1, InitOK, PTL DEF Spec

\* The host's byte count is the size of what it buffers, and stays within the
\* limit (webrtc.js:255-330).
THEOREM TypeCorrect == Spec => []TypeOK
<1>1. ASSUME IInv PROVE TypeOK
  <2>1. \A s \in Senders : send[s].at \in SendAts
    BY <1>1 DEF IInv, SendInv
  <2>2. buffered = MapThenSumSet(LAMBDA i : MessageSize[i], DOMAIN messages) /\ buffered <= Limit
    BY <1>1 DEF IInv, BufferInv, SumOver
  <2> QED
    BY <1>1, <2>1, <2>2 DEF IInv, ScalarsOK, TypeOK, SendAts
<1> QED
  BY <1>1, IInvHolds, PTL

\* However many sends pass the check before one of them sends, each adds one
\* message to a buffer at its maximum (webrtc.js:39).
THEOREM SendBufferBoundedHolds == Spec => []SendBufferBounded
<1>1. ASSUME IInv PROVE SendBufferBounded
  <2>1. amount \in Nat /\ MaxOut \in Nat /\ IsFiniteSet(Senders) /\ Ready \in SUBSET Senders
    BY <1>1, JcoAssumption DEF IInv, SendInv, Ready
  <2>2. Cardinality(Ready) \in Nat /\ Cardinality(Senders) \in Nat
    BY <2>1, SubsetFacts, FS_CardinalityType
  <2>3. amount + Cardinality(Ready) <= MaxOut + Cardinality(Senders)
    BY <1>1 DEF IInv, SendInv
  <2> QED
    BY <2>1, <2>2, <2>3 DEF SendBufferBounded
<1> QED
  BY <1>1, IInvHolds, PTL

\* No wait is pending while the connection is connected, although nothing
\* latches that it was (webrtc.js:389-403).
THEOREM NoWaitWhenConnectedHolds == Spec => []NoWaitWhenConnected
<1>1. IInv => NoWaitWhenConnected
  BY DEF IInv, ScalarsOK
<1> QED
  BY <1>1, IInvHolds, PTL

-----------------------------------------------------------------------------
(* The contract of inbound messages *)

\* What the contract sees of the channel.
Status ==
  IF overflowed THEN "overflow" ELSE IF closed THEN "closed"
  ELSE IF state = "connecting" THEN "opening" ELSE "open"

\* Nothing it sees changes; or the status does, and nothing else.
Stutter == Status' = Status /\ UNCHANGED <<arrived, taken, ended>>
LEMMA StutterIsContractStutter ==
  ASSUME Stutter PROVE UNCHANGED Contract!vars
  BY DEF Stutter, Status, Contract!vars

LEMMA StatusStepIsContractStep ==
  ASSUME UNCHANGED <<arrived, taken, ended>>,
         \/ Status = "opening" /\ Status' = "open"
         \/ Status = "open" /\ Status' \in {"overflow", "closed"}
  PROVE  Contract!Next
<1>1. CASE Status = "opening" /\ Status' = "open"
  <2>1. Contract!Open("channel")
    BY <1>1 DEF Status, Contract!Open
  <2> QED
    BY <2>1 DEF Contract!Next
<1>2. CASE Status = "open" /\ Status' = "overflow"
  <2>1. Contract!Overflow("channel")
    BY <1>2 DEF Status, Contract!Overflow
  <2> QED
    BY <2>1 DEF Contract!Next
<1>3. CASE Status = "open" /\ Status' = "closed"
  <2> PICK S \in SUBSET {"channel"} : S = {"channel"}
    OBVIOUS
  <2>1. Contract!Close(S)
    BY <1>3 DEF Status, Contract!Close, Contract!Ending
  <2> QED
    BY <2>1 DEF Contract!Next
<1> QED
  BY <1>1, <1>2, <1>3

\* A message is accepted, overflows the channel, or is dropped.
LEMMA OnMessageContract ==
  ASSUME IInv, NEW size \in Sizes, OnMessage(size) PROVE [Contract!Next]_(Contract!vars)
<1> USE DEF IInv, queueVars
<1>1. UNCHANGED <<taken, ended>>
  BY DEF OnMessage
<1>2. CASE overflowed
  <2>1. Stutter
    BY <1>1, <1>2 DEF OnMessage, Stutter, Status
  <2> QED
    BY <2>1, StutterIsContractStutter
<1>3. CASE ~overflowed
  <2>1. state = "open" /\ ~closed /\ Status = "open" /\ arrived < MaxMsgs
    BY <1>3 DEF OnMessage, Status, StateInv
  <2>2. CASE Fits(size)
    <3>1. arrived' = arrived + 1 /\ UNCHANGED <<state, overflowed, closed>>
      BY <1>3, <2>2 DEF OnMessage
    <3>2. Contract!Accept("channel")
      BY <1>1, <2>1, <3>1 DEF Status, Contract!Accept
    <3> QED
      BY <3>2 DEF Contract!Next
  <2>3. CASE ~Fits(size)
    <3>1. overflowed' = TRUE /\ arrived' = arrived
      BY <1>3, <2>3 DEF OnMessage
    <3>2. Status' = "overflow"
      BY <3>1 DEF Status
    <3> QED
      BY <1>1, <2>1, <3>1, <3>2, StatusStepIsContractStep
  <2> QED
    BY <2>2, <2>3
<1> QED
  BY <1>2, <1>3

\* A continuation hands out the next message, reports the ending of a channel
\* all of whose messages were handed out, or rejects a call for the claim.
LEMMA ResumeContract ==
  ASSUME IInv, Resume PROVE [Contract!Next]_(Contract!vars)
<1> USE DEF IInv, queueVars
<1> DEFINE h == Head(jobs)
<1>1. /\ jobs # <<>> /\ taken' = (IF h.n > 0 THEN h.n ELSE taken) /\ Status' = Status /\ arrived' = arrived
      /\ ended' = IF h.err \in {"closed", "overflow"} THEN h.err ELSE ended
  BY DEF Resume, Status
<1>2. jobs \in Seq(Job) /\ taken \in Nat /\ Before \in Nat /\ taken <= Before /\ Before <= arrived /\ arrived \in Nat
      /\ Numbered(jobs, taken, Before) /\ Endings(jobs, EndError)
  <2>1. Inbound
    BY DEF Inbound
  <2> QED
    BY <2>1, InboundFacts DEF JobsInv
<1>3. /\ h.n \in Nat /\ (h.n # 0 => h.n = taken + 1 /\ h.n <= Before /\ h.err = "none")
      /\ h.err \in Ended => h.err = EndError /\ taken = Before /\ HasEnding(jobs)
  BY <1>1, <1>2, HeadOK
<1> HIDE DEF h
<1>4. CASE h.n # 0
  <2>1. taken' = taken + 1 /\ ended' = ended /\ taken < arrived
    BY <1>1, <1>2, <1>3, <1>4
  <2>2. Contract!Take("channel")
    BY <1>1, <2>1 DEF Status, Contract!Take
  <2> QED
    BY <2>2 DEF Contract!Next
<1>5. CASE h.n = 0 /\ h.err \in Ended
  <2>1. /\ taken' = taken /\ ended' = EndError /\ taken = Before /\ messages = <<>>
        /\ overflowed \/ closed
    BY <1>1, <1>3, <1>5 DEF Ended, JobsInv
  <2>2. taken = arrived
    BY <2>1, InboundFacts DEF Inbound
  <2>3. Status = EndError /\ Status \in {"closed", "overflow"}
    BY <2>1 DEF Status, EndError
  <2>4. Contract!Report("channel")
    BY <1>1, <2>1, <2>2, <2>3 DEF Status, Contract!Report, Contract!Ending
  <2> QED
    BY <2>4 DEF Contract!Next
<1>6. CASE h.n = 0 /\ h.err \notin Ended
  <2>1. Stutter
    BY <1>1, <1>6 DEF Stutter, Ended
  <2> QED
    BY <2>1, StutterIsContractStutter
<1> QED
  BY <1>4, <1>5, <1>6

\* The channel opens, begins to close, or is closed.
LEMMA StateContract ==
  ASSUME IInv, PcClose \/ OpenEvent \/ CloseStarts \/ CloseEvent PROVE [Contract!Next]_(Contract!vars)
<1> USE DEF IInv
<1>1. UNCHANGED <<arrived, taken, ended, overflowed>>
  BY DEF PcClose, OpenEvent, CloseStarts, CloseEvent, queueVars, readVars
<1>2. CASE PcClose \/ OpenEvent \/ CloseStarts
  <2>1. /\ closed' = closed
        /\ \/ state = "connecting" /\ state' \in {"open", "closing"}
           \/ state # "connecting" /\ state' # "connecting"
    BY <1>2 DEF PcClose, OpenEvent, CloseStarts, queueVars
  <2>2. CASE state = "connecting"
    <3>1. Status = "opening" /\ Status' = "open"
      BY <1>1, <2>1, <2>2 DEF Status, StateInv
    <3> QED
      BY <1>1, <3>1, StatusStepIsContractStep
  <2>3. CASE state # "connecting"
    <3>1. Stutter
      BY <1>1, <2>1, <2>3 DEF Stutter, Status
    <3> QED
      BY <3>1, StutterIsContractStutter
  <2> QED
    BY <2>2, <2>3
<1>3. CASE CloseEvent
  <2>1. state = "closing" /\ ~closed /\ closed' = TRUE
    BY <1>3 DEF CloseEvent, Ends, StateInv
  <2>2. CASE overflowed
    <3>1. Stutter
      BY <1>1, <2>2 DEF Stutter, Status
    <3> QED
      BY <3>1, StutterIsContractStutter
  <2>3. CASE ~overflowed
    <3>1. Status = "open" /\ Status' = "closed"
      BY <1>1, <2>1, <2>3 DEF Status
    <3> QED
      BY <1>1, <3>1, StatusStepIsContractStep
  <2> QED
    BY <2>2, <2>3
<1> QED
  BY <1>2, <1>3

\* The host's queue, its waiters and its continuations together implement the
\* contract of inbound messages, also when a message passes the buffer by, and
\* when the claim or the close takes the waiters away (webrtc.js:567-578,
\* wit:179-210).
THEOREM HostImplementsContract == Spec => ImplementsContract
<1>1. Init => Contract!Init
  <2> SUFFICES ASSUME Init PROVE Contract!Init
    OBVIOUS
  <2>1. Status = "opening" /\ arrived = 0 /\ taken = 0 /\ ended = "none"
    BY DEF Init, Status
  <2> QED
    BY <2>1 DEF Status, Contract!Init
<1>2. IInv /\ [Next]_vars => [Contract!Next]_(Contract!vars)
  <2> SUFFICES ASSUME IInv, [Next]_vars PROVE [Contract!Next]_(Contract!vars)
    OBVIOUS
  <2> USE DEF queueVars, readVars, sendVars
  <2>1. ASSUME NEW r \in Receivers, Receive(r) PROVE Stutter
    BY <2>1 DEF Receive, Next1, Stutter, Status
  <2>2. ASSUME NEW s \in Senders, Send(s) \/ SendViaStream(s) \/ SendStep(s) PROVE Stutter
    BY <2>2 DEF Send, SendViaStream, SendStep, Item, CheckDrain, Hand, Stutter, Status
  <2>3. CASE ReceiveViaStream \/ Pull
    <3>1. Stutter
      BY <2>3 DEF ReceiveViaStream, Pull, Next1, Stutter, Status
    <3> QED
      BY <3>1, StutterIsContractStutter
  <2>4. CASE WaitConnected \/ Timer \/ Drain \/ UNCHANGED vars
    <3>1. Stutter
      BY <2>4 DEF WaitConnected, Timer, Drain, vars, Stutter, Status
    <3> QED
      BY <3>1, StutterIsContractStutter
  <2>5. ASSUME NEW s \in {"connected", "failed"}, PcChanges(s) PROVE Stutter
    BY <2>5 DEF PcChanges, Stutter, Status
  <2> QED
    BY <2>1, <2>2, <2>3, <2>4, <2>5, StutterIsContractStutter, OnMessageContract, ResumeContract, StateContract
    DEF Next, Arrives
<1> QED
  BY <1>1, <1>2, IInvHolds, PTL DEF Spec, ImplementsContract, Contract!Spec
=============================================================================
