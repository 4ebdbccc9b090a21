------------------------ MODULE Wasip3Runtime_proofs ------------------------
(***************************************************************************)
(* Proofs about Wasip3Runtime, for every set of channels and tasks, every   *)
(* buffer bound and every workload.                                         *)
(*                                                                          *)
(* Neither the type invariant nor the byte accounting is inductive alone:   *)
(* inbox_bytes stays a natural number because it is the exact size of the   *)
(* backlog, and the backlog's size is known because its messages are        *)
(* consecutive.  IInv is their conjunction (IInvMeaning); it keeps apart    *)
(* the channels from everything else, and ChannelOK states its part         *)
(* about one channel as a relation between that channel's record m, the     *)
(* numbers k and a of messages taken and arrived, the workload w and        *)
(* whether the connection is over, so that each way a record changes is     *)
(* one lemma, whatever action makes the change.                             *)
(***************************************************************************)
EXTENDS Wasip3Runtime, TLAPS

\* The part of the invariant about one channel.
ChannelOK(m, k, a, w, over) ==
  /\ m \in ChannelRecord
  /\ IF m.tracked THEN over \/ m.overflowed => m.closed ELSE m = Untracked
  /\ \A i \in 1..Len(m.inbox) : m.inbox[i] = k + i
  /\ k + Len(m.inbox) <= a
  /\ ~m.closed => k + Len(m.inbox) = a
  /\ m.inbox_bytes = w[k + Len(m.inbox)] - w[k]
  /\ m.inbox_bytes <= Limit

\* Every channel is as it should be.
ChannelsOK ==
  \A c \in Channels : ChannelOK(chan[c], taken[c], arrived[c], workload[c], dead)

\* The type invariant without the channel records.
ScalarsOK ==
  /\ created \in SUBSET Channels
  /\ connected \in BOOLEAN /\ failed \in BOOLEAN /\ closed \in BOOLEAN
  /\ close_requested \in BOOLEAN /\ shutdown_complete \in BOOLEAN
  /\ drain_deadline \in {"unset", "set", "lapsed"}
  /\ pc \in {"unstarted", "flush", "events", "messages", "reflush", "park", "stopped"}
  /\ done \in BOOLEAN /\ had_events \in BOOLEAN
  /\ wake \in BOOLEAN
  /\ outbox \in 0..MaxOut
  /\ workload \in [Channels -> Workloads]
  /\ arrived \in [Channels -> 0..MaxMsgs]
  /\ call \in [Tasks -> Calls]
  /\ parked \in SUBSET Tasks
  /\ taken \in [Channels -> 0..MaxMsgs]
  /\ ended \in [Channels -> {"none", "closed", "overflow"}]
  /\ lost \in BOOLEAN
  /\ chan = [c \in Channels |-> chan[c]]
  /\ pc = "stopped" => closed

\* The inductive invariant.
IInv == ScalarsOK /\ ChannelsOK

\* The inductive invariant is the conjunction of the four checked ones.
LEMMA IInvMeaning == IInv <=> TypeOK /\ OverMeansClosed /\ BacklogInOrder /\ BytesExact
<1>1. ASSUME IInv PROVE TypeOK /\ OverMeansClosed /\ BacklogInOrder /\ BytesExact
  BY <1>1 DEF IInv, TypeOK, OverMeansClosed, BacklogInOrder, BytesExact, ScalarsOK, ChannelsOK,
              ChannelOK
<1>2. ASSUME TypeOK, OverMeansClosed, BacklogInOrder, BytesExact PROVE IInv
  BY <1>2 DEF IInv, TypeOK, OverMeansClosed, BacklogInOrder, BytesExact, ScalarsOK, ChannelsOK,
              ChannelOK
<1> QED
  BY <1>1, <1>2

-----------------------------------------------------------------------------
(* Sequences and workloads *)

\* Removing the head of a non-empty sequence.
LEMMA TailFacts ==
  ASSUME NEW S, NEW s \in Seq(S), s # <<>>
  PROVE  /\ Head(s) \in S /\ Head(s) = s[1]
         /\ Tail(s) \in Seq(S) /\ Len(s) \in Nat \ {0} /\ Len(Tail(s)) = Len(s) - 1
         /\ \A i \in 1..Len(Tail(s)) : Tail(s)[i] = s[i + 1]
  OBVIOUS

\* Adding a message at the end.
LEMMA AppendFacts ==
  ASSUME NEW S, NEW s \in Seq(S), NEW e \in S
  PROVE  /\ Append(s, e) \in Seq(S) /\ Len(s) \in Nat /\ Len(Append(s, e)) = Len(s) + 1
         /\ \A i \in 1..Len(s) : Append(s, e)[i] = s[i]
         /\ Append(s, e)[Len(s) + 1] = e
  OBVIOUS

\* The first messages of a workload weigh no more than the first few more.
LEMMA WorkloadFacts ==
  ASSUME NEW w \in Workloads, NEW i \in 0..MaxMsgs, NEW j \in 0..MaxMsgs, i <= j
  PROVE  w[i] \in Nat /\ w[j] \in Nat /\ w[i] <= w[j]
  BY WorkloadAssumption

-----------------------------------------------------------------------------
(* Each way a channel's record changes *)

\* The two changes of a channel's backlog, and a number and the next: named so
\* that the lemmas can be cited for an instance of them.
After(n) == n + 1
Popped(m, size) == [m EXCEPT !.inbox = Tail(m.inbox), !.inbox_bytes = m.inbox_bytes - size]
Accepted(m, n, size) == [m EXCEPT !.inbox = Append(m.inbox, n), !.inbox_bytes = m.inbox_bytes + size]

\* A channel nothing was recorded of.
LEMMA UntrackedOK ==
  ASSUME NEW w \in Workloads, NEW over \in BOOLEAN
  PROVE  ChannelOK(Untracked, 0, 0, w, over)
<1>1. w[0] \in Nat
  BY WorkloadAssumption, BoundAssumption
<1> QED
  BY <1>1, LimitAssumption DEF ChannelOK, Untracked, ChannelRecord

\* A tracked channel is closed, with the connection or alone.
LEMMA CloseOK ==
  ASSUME NEW m, NEW k, NEW a, NEW w, NEW over, NEW over2, ChannelOK(m, k, a, w, over), m.tracked
  PROVE  ChannelOK([m EXCEPT !.closed = TRUE], k, a, w, over2)
<1> DEFINE r == [m EXCEPT !.closed = TRUE]
<1>1. /\ r \in ChannelRecord /\ r.inbox = m.inbox /\ r.inbox_bytes = m.inbox_bytes
      /\ r.tracked = m.tracked /\ r.closed
  BY DEF ChannelOK, ChannelRecord
<1> HIDE DEF r
<1>2. ChannelOK(r, k, a, w, over2)
  BY <1>1 DEF ChannelOK
<1> QED
  BY <1>2 DEF r

\* What CloseAll does to one channel.
LEMMA CloseAllOK ==
  ASSUME NEW m, NEW k, NEW a, NEW w, NEW over, NEW over2, ChannelOK(m, k, a, w, over)
  PROVE  ChannelOK(IF m.tracked THEN [m EXCEPT !.closed = TRUE] ELSE m, k, a, w, over2)
<1>1. CASE m.tracked
  BY <1>1, CloseOK
<1>2. CASE ~m.tracked
  BY <1>2 DEF ChannelOK
<1> QED
  BY <1>1, <1>2

\* The open of a channel that had nothing recorded.
LEMMA OpenOK ==
  ASSUME NEW m, NEW k \in Nat, NEW a \in Nat, NEW w \in Workloads, NEW over \in BOOLEAN,
         ChannelOK(m, k, a, w, over), ~m.tracked
  PROVE  ChannelOK(NewChannel(over), k, a, w, over)
<1>1. m = Untracked
  BY DEF ChannelOK
<1> DEFINE r == NewChannel(over)
<1>2. /\ r \in ChannelRecord /\ (over => r.closed)
      /\ r.tracked /\ r.overflowed = m.overflowed
      /\ r.inbox = m.inbox /\ r.inbox_bytes = m.inbox_bytes
  <2>1. m \in ChannelRecord
    BY DEF ChannelOK
  <2> QED
    BY <1>1, <2>1 DEF NewChannel, ChannelRecord
<1>3. ~m.closed /\ ~m.overflowed
  BY <1>1 DEF Untracked
<1> HIDE DEF r
<1>4. ChannelOK(r, k, a, w, over)
  BY <1>2, <1>3 DEF ChannelOK
<1> QED
  BY <1>4 DEF r

\* The oldest message is handed out.
LEMMA PopOK ==
  ASSUME NEW m, NEW k \in Nat, NEW a \in 0..MaxMsgs, NEW w \in Workloads, NEW over \in BOOLEAN,
         ChannelOK(m, k, a, w, over), m.inbox # <<>>
  PROVE  /\ Head(m.inbox) = After(k) /\ Head(m.inbox) \in 1..MaxMsgs
         /\ ChannelOK(Popped(m, w[After(k)] - w[k]), After(k), a, w, over)
<1> DEFINE s == m.inbox
           len == Len(m.inbox)
           r == [m EXCEPT !.inbox = Tail(m.inbox), !.inbox_bytes = m.inbox_bytes - (w[k + 1] - w[k])]
<1>1. m \in ChannelRecord /\ s \in Seq(1..MaxMsgs) /\ m.inbox_bytes \in Nat /\ MaxMsgs \in Nat
  BY BoundAssumption DEF ChannelOK, ChannelRecord
<1>2. /\ Head(s) \in 1..MaxMsgs /\ Head(s) = s[1] /\ Tail(s) \in Seq(1..MaxMsgs)
      /\ len \in Nat \ {0} /\ Len(Tail(s)) = len - 1
      /\ \A i \in 1..Len(Tail(s)) : Tail(s)[i] = s[i + 1]
  BY <1>1, TailFacts
<1>3. /\ \A i \in 1..len : s[i] = k + i
      /\ k + len <= a
      /\ m.inbox_bytes = w[k + len] - w[k] /\ m.inbox_bytes <= Limit
  BY DEF ChannelOK
<1> HIDE DEF s, len
<1>4. Head(s) = k + 1
  BY <1>2, <1>3
<1>5. k \in 0..MaxMsgs /\ k + 1 \in 0..MaxMsgs /\ k + len \in 0..MaxMsgs /\ k <= k + 1 /\ k + 1 <= k + len
  BY <1>1, <1>2, <1>3
<1>6. w[k] \in Nat /\ w[k + 1] \in Nat /\ w[k + len] \in Nat /\ w[k] <= w[k + 1] /\ w[k + 1] <= w[k + len]
  BY <1>5, WorkloadFacts
<1>7. m.inbox_bytes - (w[k + 1] - w[k]) = w[k + len] - w[k + 1]
  BY <1>3, <1>6
<1>8. w[k + len] - w[k + 1] \in Nat /\ w[k + len] - w[k + 1] <= Limit
  BY <1>3, <1>6, LimitAssumption
<1>9. ASSUME NEW i \in 1..Len(Tail(s)) PROVE Tail(s)[i] = (k + 1) + i
  <2>1. i \in Nat /\ i + 1 \in 1..len
    BY <1>2
  <2>2. Tail(s)[i] = k + (i + 1)
    BY <1>2, <1>3, <2>1
  <2>3. k + (i + 1) = (k + 1) + i
    BY <2>1
  <2> QED
    BY <2>2, <2>3
<1>10. /\ r \in ChannelRecord /\ r.inbox = Tail(s) /\ r.inbox_bytes = w[k + len] - w[k + 1]
       /\ r.tracked = m.tracked /\ r.closed = m.closed /\ r.overflowed = m.overflowed
  BY <1>1, <1>2, <1>7, <1>8 DEF ChannelRecord, s
<1> HIDE DEF r
<1>11. (k + 1) + Len(Tail(s)) = k + len
  BY <1>2
<1>12. /\ m.tracked /\ (over \/ m.overflowed => m.closed)
       /\ ~m.closed => k + len = a
  BY DEF ChannelOK, Untracked, s, len
<1>13. ChannelOK(r, k + 1, a, w, over)
  BY <1>3, <1>8, <1>9, <1>10, <1>11, <1>12 DEF ChannelOK
<1> QED
  BY <1>2, <1>4, <1>13 DEF s, r, After, Popped

\* A message joins the backlog of an open channel.
LEMMA AcceptOK ==
  ASSUME NEW m, NEW k \in Nat, NEW a \in Nat, a < MaxMsgs, NEW w \in Workloads, NEW over \in BOOLEAN,
         ChannelOK(m, k, a, w, over), m.tracked, ~m.closed, ~m.overflowed,
         m.inbox_bytes + (w[After(a)] - w[a]) <= Limit
  PROVE  ChannelOK(Accepted(m, After(a), w[After(a)] - w[a]), k, After(a), w, over)
<1> DEFINE s == m.inbox
           len == Len(m.inbox)
           r == [m EXCEPT !.inbox = Append(m.inbox, a + 1),
                          !.inbox_bytes = m.inbox_bytes + (w[a + 1] - w[a])]
<1>1. m \in ChannelRecord /\ s \in Seq(1..MaxMsgs) /\ m.inbox_bytes \in Nat /\ a + 1 \in 1..MaxMsgs
  BY BoundAssumption DEF ChannelOK, ChannelRecord
<1>2. /\ Append(s, a + 1) \in Seq(1..MaxMsgs) /\ len \in Nat /\ Len(Append(s, a + 1)) = len + 1
      /\ \A i \in 1..len : Append(s, a + 1)[i] = s[i]
      /\ Append(s, a + 1)[len + 1] = a + 1
  BY <1>1, AppendFacts
<1>3. /\ \A i \in 1..len : s[i] = k + i
      /\ k + len = a
      /\ m.inbox_bytes = w[k + len] - w[k]
      /\ ~over
  BY DEF ChannelOK
<1> HIDE DEF s, len
<1>4. k \in 0..MaxMsgs /\ a \in 0..MaxMsgs /\ a + 1 \in 0..MaxMsgs /\ k <= a /\ a <= a + 1
  BY <1>2, <1>3, BoundAssumption
<1>5. w[k] \in Nat /\ w[a] \in Nat /\ w[a + 1] \in Nat /\ w[a] <= w[a + 1]
  BY <1>4, WorkloadFacts
<1>6. m.inbox_bytes + (w[a + 1] - w[a]) = w[a + 1] - w[k]
  BY <1>3, <1>5
<1>7. m.inbox_bytes + (w[a + 1] - w[a]) \in Nat
  BY <1>1, <1>5
<1>8. k + Len(Append(s, a + 1)) = a + 1
  BY <1>2, <1>3
<1>9. ASSUME NEW i \in 1..Len(Append(s, a + 1)) PROVE Append(s, a + 1)[i] = k + i
  <2>1. CASE i \in 1..len
    BY <1>2, <1>3, <2>1
  <2>2. CASE i = len + 1
    BY <1>2, <1>3, <2>2
  <2> QED
    BY <1>2, <2>1, <2>2
<1>10. /\ r \in ChannelRecord /\ r.inbox = Append(s, a + 1) /\ r.inbox_bytes = w[a + 1] - w[k]
       /\ r.tracked = m.tracked /\ r.closed = m.closed /\ r.overflowed = m.overflowed
       /\ r.inbox_bytes <= Limit
  BY <1>1, <1>2, <1>6, <1>7 DEF ChannelRecord, s, After
<1> HIDE DEF r
<1>11. ChannelOK(r, k, a + 1, w, over)
  BY <1>3, <1>8, <1>9, <1>10 DEF ChannelOK
<1> QED
  BY <1>11 DEF r, After, Accepted

\* A message that does not fit closes the channel.
LEMMA OverflowOK ==
  ASSUME NEW m, NEW k \in Nat, NEW a \in Nat, NEW w, NEW over,
         ChannelOK(m, k, a, w, over), m.tracked,
         NEW r, r = [m EXCEPT !.overflowed = TRUE, !.closed = TRUE]
  PROVE  ChannelOK(r, k, a + 1, w, over)
<1>1. /\ r \in ChannelRecord /\ r.inbox = m.inbox /\ r.inbox_bytes = m.inbox_bytes
      /\ r.tracked = m.tracked /\ r.closed
  BY DEF ChannelOK, ChannelRecord
<1>2. Len(m.inbox) \in Nat
  BY DEF ChannelOK, ChannelRecord
<1> QED
  BY <1>1, <1>2 DEF ChannelOK

\* A message for a channel that is over is dropped.
LEMMA DiscardOK ==
  ASSUME NEW m, NEW k \in Nat, NEW a \in Nat, NEW w, NEW over,
         ChannelOK(m, k, a, w, over), m.tracked, Discards(m)
  PROVE  ChannelOK(m, k, a + 1, w, over)
<1>1. m.closed /\ Len(m.inbox) \in Nat
  BY DEF ChannelOK, ChannelRecord, Discards
<1> QED
  BY <1>1 DEF ChannelOK

\* receive-via-stream claims a tracked channel.
LEMMA ClaimOK ==
  ASSUME NEW m, NEW k, NEW a, NEW w, NEW over, ChannelOK(m, k, a, w, over), m.tracked
  PROVE  ChannelOK([m EXCEPT !.stream_claimed = TRUE], k, a, w, over)
<1> DEFINE r == [m EXCEPT !.stream_claimed = TRUE]
<1>1. /\ r \in ChannelRecord /\ r.inbox = m.inbox /\ r.inbox_bytes = m.inbox_bytes
      /\ r.tracked = m.tracked /\ r.closed = m.closed /\ r.overflowed = m.overflowed
  BY DEF ChannelOK, ChannelRecord
<1> HIDE DEF r
<1>2. ChannelOK(r, k, a, w, over)
  BY <1>1 DEF ChannelOK
<1> QED
  BY <1>2 DEF r

-----------------------------------------------------------------------------
(* The invariant *)

\* The initial states, of a connection alive or dead, satisfy the invariant.
LEMMA InitOK == Init => IInv
<1> SUFFICES ASSUME Init PROVE ScalarsOK /\ ChannelsOK
  BY DEF IInv
<1>1. ScalarsOK
  <2>1. NoCall \in Calls
    BY ChannelsAssumption, BoundAssumption DEF NoCall, Calls, Ops
  <2>2. /\ workload \in [Channels -> Workloads] /\ outbox \in 0..MaxOut
        /\ arrived \in [Channels -> 0..MaxMsgs] /\ taken \in [Channels -> 0..MaxMsgs]
        /\ ended \in [Channels -> {"none", "closed", "overflow"}] /\ call \in [Tasks -> Calls]
        /\ chan = [c \in Channels |-> chan[c]]
    BY <2>1, BoundAssumption DEF Init
  <2>3. /\ connected \in BOOLEAN /\ failed \in BOOLEAN /\ closed \in BOOLEAN
        /\ close_requested \in BOOLEAN /\ shutdown_complete \in BOOLEAN
        /\ done \in BOOLEAN /\ had_events \in BOOLEAN /\ wake \in BOOLEAN /\ lost \in BOOLEAN
    BY Zenon DEF Init
  <2>4. /\ drain_deadline \in {"unset", "set", "lapsed"}
        /\ pc \in {"unstarted", "flush", "events", "messages", "reflush", "park", "stopped"}
        /\ created \in SUBSET Channels /\ parked \in SUBSET Tasks
        /\ pc = "stopped" => closed
    BY DEF Init
  <2> QED
    BY <2>2, <2>3, <2>4 DEF ScalarsOK
<1>2. ASSUME NEW c \in Channels
      PROVE  ChannelOK(chan[c], taken[c], arrived[c], workload[c], dead)
  <2>1. chan[c] = Untracked /\ taken[c] = 0 /\ arrived[c] = 0 /\ workload[c] \in Workloads
    BY DEF Init
  <2>2. dead \in BOOLEAN
    BY DEF dead
  <2> QED
    BY <2>1, <2>2, UntrackedOK
<1> QED
  BY <1>1, <1>2 DEF ChannelsOK

\* A step that changes neither a channel nor whether the connection is over.
LEMMA ChannelsUnchanged ==
  ASSUME ChannelsOK, chan' = chan, taken' = taken, arrived' = arrived, workload' = workload,
         dead' = dead
  PROVE  ChannelsOK'
  BY DEF ChannelsOK

\* A step that changes the records, taken and arrived of channel c only.
LEMMA OneChannelChanged ==
  ASSUME ScalarsOK, ChannelsOK, NEW c \in Channels, NEW r, NEW k, NEW a,
         chan' = [chan EXCEPT ![c] = r], taken' = [taken EXCEPT ![c] = k],
         arrived' = [arrived EXCEPT ![c] = a], workload' = workload, dead' = dead,
         ChannelOK(r, k, a, workload[c], dead)
  PROVE  ChannelsOK' /\ chan' = [d \in Channels |-> chan'[d]]
<1>1. chan'[c] = r /\ taken'[c] = k /\ arrived'[c] = a
  BY DEF ScalarsOK
<1>2. ASSUME NEW d \in Channels, d # c
      PROVE  chan'[d] = chan[d] /\ taken'[d] = taken[d] /\ arrived'[d] = arrived[d]
  BY <1>2 DEF ScalarsOK
<1>3. ASSUME NEW d \in Channels
      PROVE  ChannelOK(chan'[d], taken'[d], arrived'[d], workload'[d], dead')
  <2>1. CASE d = c
    BY <1>1, <2>1
  <2>2. CASE d # c
    BY <1>2, <2>2 DEF ChannelsOK
  <2> QED
    BY <2>1, <2>2
<1>4. chan' = [d \in Channels |-> chan'[d]]
  BY DEF ScalarsOK
<1> QED
  BY <1>3, <1>4 DEF ChannelsOK

\* A step that ends the connection.
LEMMA AllChannelsClosed ==
  ASSUME ChannelsOK, chan' = CloseAll(chan), taken' = taken, arrived' = arrived, workload' = workload
  PROVE  ChannelsOK' /\ chan' = [d \in Channels |-> chan'[d]]
<1>1. ASSUME NEW d \in Channels
      PROVE  ChannelOK(chan'[d], taken'[d], arrived'[d], workload'[d], dead')
  <2>1. chan'[d] = IF chan[d].tracked THEN [chan[d] EXCEPT !.closed = TRUE] ELSE chan[d]
    BY DEF CloseAll
  <2>2. ChannelOK(chan[d], taken[d], arrived[d], workload[d], dead)
    BY DEF ChannelsOK
  <2> QED
    BY <2>1, <2>2, CloseAllOK
<1> QED
  BY <1>1 DEF ChannelsOK, CloseAll

\* The default call and its parts.
LEMMA CallFacts ==
  /\ NoCall \in Calls
  /\ \A op \in Ops, c \in Channels : [op |-> op, ch |-> c, held |-> 0] \in Calls
  /\ NoCall.ch \in Channels
  BY ChannelsAssumption, BoundAssumption DEF NoCall, Calls, Ops

\* The actions that touch no channel, and do not end the connection.
QuietStep ==
  \/ Signal
  \/ \E c \in Channels : CreateDataChannel(c)
  \/ \E t \in Tasks : CallWaitConnected(t)
  \/ \E t \in Tasks, c \in Channels : CallReceive(t, c) \/ CallSend(t, c)
  \/ \E t \in Tasks : SendPoll(t) \/ WaitConnectedPoll(t) \/ ConnectTimeout(t) \/ StreamWrite(t)
  \/ FlushOne \/ BeginDrain \/ ApplyConnected \/ EndDrain \/ PumpPark \/ ParkInput \/ ParkWake \/ DrainLapse

\* A quiet step preserves the invariant: the types of what it changes.
LEMMA QuietStepOK ==
  ASSUME IInv, QuietStep
  PROVE  IInv'
<1> USE CallFacts, BoundAssumption DEF IInv
<1>1. ASSUME Signal
      PROVE  ScalarsOK' /\ UNCHANGED <<chan, taken, arrived, workload, dead>>
  <2>1. wake' \in BOOLEAN
    BY <1>1, Zenon DEF ScalarsOK, Signal, pumpVars, connVars, chanVars, coreVars, histVars
  <2> QED
    BY <1>1, <2>1 DEF ScalarsOK, vars, chanVars, connVars, pumpVars, coreVars, histVars, dead, Signal
<1>2. ASSUME NEW c \in Channels, CreateDataChannel(c)
      PROVE  ScalarsOK' /\ UNCHANGED <<chan, taken, arrived, workload, dead>>
  BY <1>2 DEF ScalarsOK, vars, chanVars, connVars, pumpVars, coreVars, histVars, dead, CreateDataChannel
<1>3. ASSUME NEW t \in Tasks, NEW c \in Channels, CallReceive(t, c)
      PROVE  ScalarsOK' /\ UNCHANGED <<chan, taken, arrived, workload, dead>>
  BY <1>3 DEF ScalarsOK, vars, chanVars, connVars, pumpVars, coreVars, histVars, dead, CallReceive, StartCall, Calls, Ops
<1>4. ASSUME NEW t \in Tasks, NEW c \in Channels, CallSend(t, c)
      PROVE  ScalarsOK' /\ UNCHANGED <<chan, taken, arrived, workload, dead>>
  BY <1>4 DEF ScalarsOK, vars, chanVars, connVars, pumpVars, coreVars, histVars, dead, CallSend, StartCall, Calls, Ops
<1>5. ASSUME NEW t \in Tasks, CallWaitConnected(t)
      PROVE  ScalarsOK' /\ UNCHANGED <<chan, taken, arrived, workload, dead>>
  BY <1>5 DEF ScalarsOK, vars, chanVars, connVars, pumpVars, coreVars, histVars, dead, CallWaitConnected, StartCall, Calls, Ops, NoCall
<1>6. ASSUME NEW t \in Tasks, SendPoll(t)
      PROVE  ScalarsOK' /\ UNCHANGED <<chan, taken, arrived, workload, dead>>
  <2>1. wake' \in BOOLEAN
    BY <1>6, Zenon DEF ScalarsOK, SendPoll, pumpVars, connVars, chanVars, coreVars, histVars
  <2> QED
    BY <1>6, <2>1 DEF ScalarsOK, vars, chanVars, connVars, pumpVars, coreVars, histVars, dead, SendPoll, Return, Park, Calls, Ops, NoCall
<1>7. ASSUME NEW t \in Tasks, WaitConnectedPoll(t)
      PROVE  ScalarsOK' /\ UNCHANGED <<chan, taken, arrived, workload, dead>>
  BY <1>7 DEF ScalarsOK, vars, chanVars, connVars, pumpVars, coreVars, histVars, dead, WaitConnectedPoll, Return, Park, Calls, Ops, NoCall
<1>8. ASSUME NEW t \in Tasks, ConnectTimeout(t)
      PROVE  ScalarsOK' /\ UNCHANGED <<chan, taken, arrived, workload, dead>>
  BY <1>8 DEF ScalarsOK, vars, chanVars, connVars, pumpVars, coreVars, histVars, dead, ConnectTimeout, Calls, Ops, NoCall
<1>9. ASSUME NEW t \in Tasks, StreamWrite(t)
      PROVE  ScalarsOK' /\ UNCHANGED <<chan, taken, arrived, workload, dead>>
  BY <1>9 DEF ScalarsOK, vars, chanVars, connVars, pumpVars, coreVars, histVars, dead, StreamWrite, Calls, Ops, NoCall
<1>10. ASSUME FlushOne
      PROVE  ScalarsOK' /\ UNCHANGED <<chan, taken, arrived, workload, dead>>
  BY <1>10 DEF ScalarsOK, vars, chanVars, connVars, pumpVars, coreVars, histVars, dead, FlushOne
<1>11. ASSUME BeginDrain
      PROVE  ScalarsOK' /\ UNCHANGED <<chan, taken, arrived, workload, dead>>
  <2>1. lost' \in BOOLEAN
    <3>1. lost' = (lost \/ outbox > 0) \/ lost' = lost
      BY <1>11, Zenon DEF BeginDrain
    <3>2. (lost \/ outbox > 0) \in BOOLEAN
      BY Zenon
    <3> QED
      BY <3>1, <3>2, Zenon DEF ScalarsOK
  <2> QED
    <3>1. /\ had_events' = FALSE /\ pc' = "events"
          /\ UNCHANGED <<chan, created, connected, failed, closed, shutdown_complete, drain_deadline, done, wake,
                        workload, arrived, call, parked, taken, ended>>
      BY <1>11 DEF BeginDrain, chanVars, coreVars
    <3>2. CoreTransmits \/ outbox' = outbox
      BY <1>11, Zenon DEF BeginDrain
    <3>3. outbox' \in 0..MaxOut
      BY <3>2 DEF CoreTransmits, ScalarsOK
    <3>4. close_requested' = FALSE \/ close_requested' = close_requested
      BY <1>11, Zenon DEF BeginDrain
    <3> QED
      BY <2>1, <3>1, <3>3, <3>4 DEF ScalarsOK, dead
<1>12. ASSUME ApplyConnected
      PROVE  ScalarsOK' /\ UNCHANGED <<chan, taken, arrived, workload, dead>>
  BY <1>12 DEF ScalarsOK, vars, chanVars, connVars, pumpVars, coreVars, histVars, dead, ApplyConnected, ApplyEvent
<1>13. ASSUME EndDrain
      PROVE  ScalarsOK' /\ UNCHANGED <<chan, taken, arrived, workload, dead>>
  BY <1>13 DEF ScalarsOK, vars, chanVars, connVars, pumpVars, coreVars, histVars, dead, EndDrain, LastTurn, NotifyIfChanged, Notify
<1>14. ASSUME PumpPark
      PROVE  ScalarsOK' /\ UNCHANGED <<chan, taken, arrived, workload, dead>>
  BY <1>14 DEF ScalarsOK, vars, chanVars, connVars, pumpVars, coreVars, histVars, dead, PumpPark
<1>15. ASSUME ParkInput
      PROVE  ScalarsOK' /\ UNCHANGED <<chan, taken, arrived, workload, dead>>
  BY <1>15 DEF ScalarsOK, vars, chanVars, connVars, pumpVars, coreVars, histVars, dead, ParkInput, CoreTransmits
<1>16. ASSUME ParkWake
      PROVE  ScalarsOK' /\ UNCHANGED <<chan, taken, arrived, workload, dead>>
  BY <1>16 DEF ScalarsOK, vars, chanVars, connVars, pumpVars, coreVars, histVars, dead, ParkWake
<1>17. ASSUME DrainLapse
      PROVE  ScalarsOK' /\ UNCHANGED <<chan, taken, arrived, workload, dead>>
  BY <1>17 DEF ScalarsOK, vars, chanVars, connVars, pumpVars, coreVars, histVars, dead, DrainLapse
<1>18. ScalarsOK' /\ UNCHANGED <<chan, taken, arrived, workload, dead>>
  BY <1>1, <1>2, <1>3, <1>4, <1>5, <1>6, <1>7, <1>8, <1>9, <1>10, <1>11, <1>12, <1>13, <1>14, <1>15, <1>16, <1>17 DEF QuietStep
<1> QED
  BY <1>18, ChannelsUnchanged

-----------------------------------------------------------------------------
(* The actions that change channels *)

\* close: every tracked channel closes with the connection.
LEMMA BeginCloseOK ==
  ASSUME IInv, BeginClose
  PROVE  IInv'
<1>1. CASE dead
  <2>1. ScalarsOK' /\ UNCHANGED <<chan, taken, arrived, workload, dead>>
    BY <1>1 DEF IInv, BeginClose, ScalarsOK, dead, connVars, pumpVars, coreVars
  <2> QED
    BY <2>1, ChannelsUnchanged DEF IInv
<1>2. CASE ~dead
  <2>1. /\ chan' = CloseAll(chan) /\ closed' = TRUE /\ close_requested' = TRUE /\ drain_deadline' = "set"
        /\ wake' = TRUE /\ parked' = {}
        /\ UNCHANGED <<created, connected, failed, shutdown_complete, pc, done, had_events, outbox, workload,
                      arrived, call, taken, ended, lost>>
    BY <1>2 DEF BeginClose, RequestClose, NotifyClose, Notify, pumpVars, coreVars
  <2>2. ChannelsOK' /\ chan' = [d \in Channels |-> chan'[d]]
    BY <2>1, AllChannelsClosed DEF IInv
  <2>3. ScalarsOK'
    BY <2>1, <2>2 DEF IInv, ScalarsOK
  <2> QED
    BY <2>2, <2>3 DEF IInv
<1> QED
  BY <1>1, <1>2

\* The core reports a failure.
LEMMA ApplyFailedOK ==
  ASSUME IInv, ApplyFailed
  PROVE  IInv'
<1>1. /\ chan' = CloseAll(chan) /\ failed' = TRUE /\ had_events' = TRUE
      /\ UNCHANGED <<created, connected, closed, close_requested, shutdown_complete, drain_deadline, pc, done,
                    wake, outbox, workload, arrived, call, parked, taken, ended, lost>>
  BY DEF ApplyFailed, ApplyEvent, coreVars, histVars
<1>2. ChannelsOK' /\ chan' = [d \in Channels |-> chan'[d]]
  BY <1>1, AllChannelsClosed DEF IInv
<1> QED
  BY <1>1, <1>2 DEF IInv, ScalarsOK

\* The core reports the close complete.
LEMMA ApplyClosedOK ==
  ASSUME IInv, ApplyClosed
  PROVE  IInv'
<1>1. /\ chan' = CloseAll(chan) /\ closed' = TRUE /\ shutdown_complete' = TRUE /\ had_events' = TRUE
      /\ UNCHANGED <<created, connected, failed, close_requested, drain_deadline, pc, done,
                    wake, outbox, workload, arrived, call, parked, taken, ended, lost>>
  BY DEF ApplyClosed, ApplyEvent, coreVars, histVars
<1>2. ChannelsOK' /\ chan' = [d \in Channels |-> chan'[d]]
  BY <1>1, AllChannelsClosed DEF IInv
<1> QED
  BY <1>1, <1>2 DEF IInv, ScalarsOK

\* The pump returns and leaves the connection closed.
LEMMA PumpExitOK ==
  ASSUME IInv, PumpExit
  PROVE  IInv'
<1>1. /\ chan' = CloseAll(chan) /\ closed' = TRUE /\ pc' = "stopped" /\ parked' = {}
      /\ UNCHANGED <<created, connected, failed, close_requested, shutdown_complete, drain_deadline, done,
                    had_events, wake, outbox, workload, arrived, call, taken, ended, lost>>
  BY DEF PumpExit, Notify, coreVars, histVars
<1>2. ChannelsOK' /\ chan' = [d \in Channels |-> chan'[d]]
  BY <1>1, AllChannelsClosed DEF IInv
<1> QED
  BY <1>1, <1>2 DEF IInv, ScalarsOK

\* The facts about one channel that the lemmas about its record need.
LEMMA ChannelFacts ==
  ASSUME IInv, NEW c \in Channels
  PROVE  /\ ChannelOK(chan[c], taken[c], arrived[c], workload[c], dead)
         /\ chan[c] \in ChannelRecord
         /\ taken[c] \in 0..MaxMsgs /\ arrived[c] \in 0..MaxMsgs
         /\ taken[c] \in Nat /\ arrived[c] \in Nat
         /\ workload[c] \in Workloads /\ dead \in BOOLEAN
         /\ [taken EXCEPT ![c] = taken[c]] = taken /\ [arrived EXCEPT ![c] = arrived[c]] = arrived
<1>1. dead \in BOOLEAN
  BY DEF dead
<1> QED
  BY <1>1, BoundAssumption DEF IInv, ScalarsOK, ChannelsOK, ChannelOK

\* A channel opens, early or late.
LEMMA ApplyChannelOpenOK ==
  ASSUME IInv, NEW c \in Channels, ApplyChannelOpen(c)
  PROVE  IInv'
<1>1. /\ chan' = [chan EXCEPT ![c] = NewChannel(dead)] /\ had_events' = TRUE
      /\ UNCHANGED <<created, connected, failed, closed, close_requested, shutdown_complete, drain_deadline, pc,
                    done, wake, outbox, workload, arrived, call, parked, taken, ended, lost>>
      /\ ~chan[c].tracked
  BY DEF ApplyChannelOpen, ApplyEvent, coreVars, histVars, dead
<1>2. ChannelOK(NewChannel(dead), taken[c], arrived[c], workload[c], dead)
  BY <1>1, ChannelFacts, OpenOK
<1>3. dead' = dead
  BY <1>1 DEF dead
<1>4. ChannelsOK' /\ chan' = [d \in Channels |-> chan'[d]]
  BY <1>1, <1>2, <1>3, ChannelFacts, OneChannelChanged DEF IInv
<1> QED
  BY <1>1, <1>4 DEF IInv, ScalarsOK

\* One channel closes.
LEMMA ApplyChannelClosedOK ==
  ASSUME IInv, NEW c \in Channels, ApplyChannelClosed(c)
  PROVE  IInv'
<1>1. /\ chan' = [chan EXCEPT ![c] = [chan[c] EXCEPT !.closed = TRUE]] /\ had_events' = TRUE
      /\ UNCHANGED <<created, connected, failed, closed, close_requested, shutdown_complete, drain_deadline, pc,
                    done, wake, outbox, workload, arrived, call, parked, taken, ended, lost>>
      /\ chan[c].tracked
  BY DEF ApplyChannelClosed, ApplyEvent, coreVars, histVars
<1>2. ChannelOK([chan[c] EXCEPT !.closed = TRUE], taken[c], arrived[c], workload[c], dead)
  BY <1>1, ChannelFacts, CloseOK
<1>3. dead' = dead
  BY <1>1 DEF dead
<1>4. ChannelsOK' /\ chan' = [d \in Channels |-> chan'[d]]
  BY <1>1, <1>2, <1>3, ChannelFacts, OneChannelChanged DEF IInv
<1> QED
  BY <1>1, <1>4 DEF IInv, ScalarsOK

\* The claim of a channel, tracked or not.
LEMMA ReceiveViaStreamOK ==
  ASSUME IInv, NEW t \in Tasks, NEW c \in Channels, ReceiveViaStream(t, c)
  PROVE  IInv'
<1>1. /\ UNCHANGED <<created, connected, failed, closed, close_requested, shutdown_complete, drain_deadline, pc,
                    done, had_events, wake, outbox, workload, arrived, taken, ended, lost>>
      /\ call' = [call EXCEPT ![t] = [op |-> "pump_receive", ch |-> c, held |-> 0]]
      /\ parked' = {} \/ parked' = parked
  BY DEF ReceiveViaStream, NotifyClaim, Notify, connVars, pumpVars, coreVars, histVars
<1>2. [op |-> "pump_receive", ch |-> c, held |-> 0] \in Calls
  BY CallFacts DEF Ops
<1>3. dead' = dead
  BY <1>1 DEF dead
<1>4. CASE chan[c].tracked
  <2>1. chan' = [chan EXCEPT ![c] = [chan[c] EXCEPT !.stream_claimed = TRUE]]
    BY <1>4 DEF ReceiveViaStream
  <2>2. ChannelOK([chan[c] EXCEPT !.stream_claimed = TRUE], taken[c], arrived[c], workload[c], dead)
    BY <1>4, ChannelFacts, ClaimOK
  <2>3. ChannelsOK' /\ chan' = [d \in Channels |-> chan'[d]]
    BY <1>1, <1>3, <2>1, <2>2, ChannelFacts, OneChannelChanged DEF IInv
  <2> QED
    BY <1>1, <1>2, <2>3 DEF IInv, ScalarsOK
<1>5. CASE ~chan[c].tracked
  <2>1. chan' = chan
    BY <1>5 DEF ReceiveViaStream
  <2>2. ChannelsOK'
    BY <1>1, <1>3, <2>1, ChannelsUnchanged DEF IInv
  <2> QED
    BY <1>1, <1>2, <2>1, <2>2 DEF IInv, ScalarsOK
<1> QED
  BY <1>4, <1>5

\* A message is popped and recorded as taken: what receive and pump_receive share.
PopStep(c) ==
  /\ chan[c].inbox # <<>>
  /\ chan' = Pop(c)
  /\ taken' = [taken EXCEPT ![c] = Oldest(c)]
  /\ UNCHANGED <<arrived, workload, connected, failed, closed>>

\* A pop preserves the invariant: the bytes released are those of the message.
LEMMA PopStepOK ==
  ASSUME IInv, NEW c \in Channels, PopStep(c)
  PROVE  /\ ChannelsOK' /\ chan' = [d \in Channels |-> chan'[d]]
         /\ Oldest(c) \in 1..MaxMsgs /\ Oldest(c) = After(taken[c])
         /\ taken' \in [Channels -> 0..MaxMsgs]
<1> DEFINE m == chan[c]
           k == taken[c]
           size == workload[c][After(k)] - workload[c][k]
<1>1. /\ Head(m.inbox) = After(k) /\ Head(m.inbox) \in 1..MaxMsgs
      /\ ChannelOK(Popped(m, size), After(k), arrived[c], workload[c], dead)
  BY ChannelFacts, PopOK DEF PopStep
<1>2. Oldest(c) = After(k)
  BY <1>1 DEF Oldest
<1>3. Pop(c) = [chan EXCEPT ![c] = Popped(m, size)]
  <2>1. After(k) - 1 = k
    BY ChannelFacts DEF After
  <2> QED
    BY <1>2, <2>1 DEF Pop, Size, Popped
<1>4. /\ chan' = [chan EXCEPT ![c] = Popped(m, size)] /\ taken' = [taken EXCEPT ![c] = After(k)]
      /\ arrived' = [arrived EXCEPT ![c] = arrived[c]] /\ workload' = workload
  BY <1>2, <1>3, ChannelFacts DEF PopStep
<1>5. dead' = dead
  BY DEF dead, PopStep
<1>6. ChannelsOK' /\ chan' = [d \in Channels |-> chan'[d]]
  BY <1>1, <1>4, <1>5, OneChannelChanged DEF IInv
<1>7. Oldest(c) \in 1..MaxMsgs /\ Oldest(c) \in 0..MaxMsgs
  BY <1>1, BoundAssumption DEF Oldest
<1>8. taken' \in [Channels -> 0..MaxMsgs]
  BY <1>7 DEF IInv, ScalarsOK, PopStep
<1> QED
  BY <1>2, <1>6, <1>7, <1>8

\* A receive pops, reports an ending or parks.
LEMMA ReceivePollOK ==
  ASSUME IInv, NEW t \in Tasks, ReceivePoll(t)
  PROVE  IInv'
<1> DEFINE c == call[t].ch
<1>1. /\ UNCHANGED <<created, connected, failed, closed, close_requested, shutdown_complete, drain_deadline, pc,
                    done, had_events, wake, outbox, workload, arrived, lost>>
      /\ call' = [call EXCEPT ![t] = NoCall] \/ call' = call
      /\ parked' = parked \/ parked' = parked \union {t}
  BY DEF ReceivePoll, Return, Park, connVars, pumpVars, coreVars
<1>2. c \in Channels
  BY DEF IInv, ScalarsOK, Calls
<1>3. call' \in [Tasks -> Calls] /\ parked' \in SUBSET Tasks
  BY <1>1, CallFacts DEF IInv, ScalarsOK
<1>4. \/ chan[c].inbox # <<>> /\ chan' = Pop(c) /\ taken' = [taken EXCEPT ![c] = Oldest(c)] /\ ended' = ended
      \/ /\ UNCHANGED <<chan, taken>>
         /\ \/ ended' = ended
            \/ ended' = [ended EXCEPT ![c] = IF chan[c].overflowed THEN "overflow" ELSE "closed"]
  BY DEF ReceivePoll
<1>5. ended' \in [Channels -> {"none", "closed", "overflow"}]
  BY <1>2, <1>4 DEF IInv, ScalarsOK
<1>6. /\ ChannelsOK' /\ chan' = [d \in Channels |-> chan'[d]]
      /\ taken' \in [Channels -> 0..MaxMsgs]
  <2>1. CASE chan[c].inbox # <<>> /\ chan' = Pop(c) /\ taken' = [taken EXCEPT ![c] = Oldest(c)]
    BY <1>1, <1>2, <2>1, PopStepOK DEF PopStep
  <2>2. CASE UNCHANGED <<chan, taken>>
    <3>1. dead' = dead
      BY <1>1 DEF dead
    <3> QED
      BY <1>1, <2>2, <3>1, ChannelsUnchanged DEF IInv, ScalarsOK
  <2> QED
    BY <1>4, <2>1, <2>2
<1> QED
  BY <1>1, <1>3, <1>5, <1>6 DEF IInv, ScalarsOK

\* A stream's pump pops, ends or parks.
LEMMA StreamPollOK ==
  ASSUME IInv, NEW t \in Tasks, StreamPoll(t)
  PROVE  IInv'
<1> DEFINE c == call[t].ch
<1>1. /\ UNCHANGED <<created, connected, failed, closed, close_requested, shutdown_complete, drain_deadline, pc,
                    done, had_events, wake, outbox, workload, arrived, ended, lost>>
      /\ parked' = parked \/ parked' = parked \union {t}
  BY DEF StreamPoll, Return, Park, connVars, pumpVars, coreVars
<1>2. c \in Channels
  BY DEF IInv, ScalarsOK, Calls
<1>3. parked' \in SUBSET Tasks
  BY <1>1 DEF IInv, ScalarsOK
<1>4. \/ /\ chan[c].inbox # <<>> /\ chan' = Pop(c) /\ taken' = [taken EXCEPT ![c] = Oldest(c)]
         /\ call' = [call EXCEPT ![t].held = Oldest(c)]
      \/ /\ UNCHANGED <<chan, taken>>
         /\ call' = [call EXCEPT ![t] = NoCall] \/ call' = call
  BY DEF StreamPoll, Return, Park
<1>5. /\ ChannelsOK' /\ chan' = [d \in Channels |-> chan'[d]]
      /\ taken' \in [Channels -> 0..MaxMsgs] /\ call' \in [Tasks -> Calls]
  <2>1. CASE /\ chan[c].inbox # <<>> /\ chan' = Pop(c) /\ taken' = [taken EXCEPT ![c] = Oldest(c)]
             /\ call' = [call EXCEPT ![t].held = Oldest(c)]
    <3>1. /\ ChannelsOK' /\ chan' = [d \in Channels |-> chan'[d]]
          /\ taken' \in [Channels -> 0..MaxMsgs] /\ Oldest(c) \in 1..MaxMsgs
      BY <1>1, <1>2, <2>1, PopStepOK DEF PopStep
    <3>2. call \in [Tasks -> Calls]
      BY DEF IInv, ScalarsOK
    <3>3. [call[t] EXCEPT !.held = Oldest(c)] \in Calls
      BY <3>1, <3>2 DEF Calls
    <3> QED
      BY <2>1, <3>1, <3>2, <3>3
  <2>2. CASE /\ UNCHANGED <<chan, taken>>
             /\ call' = [call EXCEPT ![t] = NoCall] \/ call' = call
    <3>1. dead' = dead
      BY <1>1 DEF dead
    <3> QED
      BY <1>1, <2>2, <3>1, ChannelsUnchanged, CallFacts DEF IInv, ScalarsOK
  <2> QED
    BY <1>4, <2>1, <2>2
<1> QED
  BY <1>1, <1>3, <1>5 DEF IInv, ScalarsOK

\* A message is accepted, dropped or overflows the channel.
LEMMA ApplyMessageOK ==
  ASSUME IInv, NEW c \in Channels, ApplyMessage(c)
  PROVE  IInv'
<1> DEFINE m == chan[c]
           n == arrived[c] + 1
<1>1. /\ UNCHANGED <<created, connected, failed, closed, close_requested, shutdown_complete, drain_deadline,
                    done, wake, workload, call, parked, taken, ended, lost>>
      /\ pc' = "messages" /\ had_events' = TRUE
      /\ m.tracked /\ arrived[c] < MaxMsgs /\ arrived' = [arrived EXCEPT ![c] = n]
      /\ outbox' = outbox \/ CoreTransmits
  BY DEF ApplyMessage, connVars, histVars
<1>2. outbox' \in 0..MaxOut
  <2>1. outbox \in 0..MaxOut
    BY DEF IInv, ScalarsOK
  <2>2. CASE CoreTransmits
    BY <2>1, <2>2, BoundAssumption DEF CoreTransmits
  <2> QED
    BY <1>1, <2>1, <2>2
<1>3. n \in 0..MaxMsgs
  BY <1>1, ChannelFacts, BoundAssumption
<1>4. dead' = dead
  BY <1>1 DEF dead
<1>5. Size(c, n) = workload[c][n] - workload[c][arrived[c]]
  <2>1. n - 1 = arrived[c]
    BY ChannelFacts
  <2> QED
    BY <2>1 DEF Size
<1>6. Size(c, n) \in Int /\ m.inbox_bytes \in Nat
  <2>1. arrived[c] \in 0..MaxMsgs /\ arrived[c] + 1 \in 0..MaxMsgs /\ workload[c] \in Workloads
    BY <1>3, ChannelFacts
  <2>2. arrived[c] <= arrived[c] + 1
    BY <2>1
  <2>3. workload[c][arrived[c]] \in Nat /\ workload[c][n] \in Nat
    BY <2>1, <2>2, WorkloadFacts
  <2>4. m.inbox_bytes \in Nat
    BY ChannelFacts DEF ChannelRecord
  <2> QED
    BY <1>5, <2>3, <2>4
<1>7. PICK r : chan' = [chan EXCEPT ![c] = r] /\ ChannelOK(r, taken[c], n, workload[c], dead)
  <2>1. CASE Discards(m)
    <3>1. chan' = [chan EXCEPT ![c] = m]
      BY <2>1 DEF ApplyMessage, IInv, ScalarsOK
    <3>2. ChannelOK(m, taken[c], n, workload[c], dead)
      BY <1>1, <2>1, ChannelFacts, DiscardOK
    <3> QED
      BY <3>1, <3>2
  <2>2. CASE ~Discards(m) /\ m.inbox_bytes + Size(c, n) > Limit
    <3>1. chan' = [chan EXCEPT ![c] = [m EXCEPT !.overflowed = TRUE, !.closed = TRUE]]
      <4>1. ~(m.inbox_bytes + Size(c, n) <= Limit)
        BY <2>2, <1>6, LimitAssumption
      <4> QED
        BY <2>2, <4>1 DEF ApplyMessage
    <3>2. ChannelOK([m EXCEPT !.overflowed = TRUE, !.closed = TRUE], taken[c], n, workload[c], dead)
      BY <1>1, ChannelFacts, OverflowOK
    <3> QED
      BY <3>1, <3>2
  <2>3. CASE ~Discards(m) /\ m.inbox_bytes + Size(c, n) <= Limit
    <3> DEFINE size == workload[c][After(arrived[c])] - workload[c][arrived[c]]
    <3>1. n = After(arrived[c]) /\ Size(c, n) = size
      BY <1>5 DEF After
    <3>2. chan' = [chan EXCEPT ![c] = Accepted(m, n, Size(c, n))]
      <4>1. ~(m.inbox_bytes + Size(c, n) > Limit)
        BY <2>3, <1>6, LimitAssumption
      <4> QED
        BY <2>3, <4>1 DEF ApplyMessage, Accepted
    <3>3. ~m.closed /\ ~m.overflowed
      BY <2>3 DEF Discards
    <3>4. m.inbox_bytes + size <= Limit
      BY <2>3, <3>1
    <3>5. ChannelOK(Accepted(m, After(arrived[c]), size), taken[c], After(arrived[c]), workload[c], dead)
      BY <1>1, <3>3, <3>4, ChannelFacts, AcceptOK
    <3> QED
      BY <3>1, <3>2, <3>5
  <2> QED
    BY <2>1, <2>2, <2>3 DEF ApplyMessage
<1>8. [taken EXCEPT ![c] = taken[c]] = taken
  BY ChannelFacts
<1>9. ChannelsOK' /\ chan' = [d \in Channels |-> chan'[d]]
  BY <1>1, <1>4, <1>7, <1>8, OneChannelChanged DEF IInv
<1> QED
  BY <1>1, <1>2, <1>3, <1>9 DEF IInv, ScalarsOK

-----------------------------------------------------------------------------
(* Theorems *)

\* Every action is a quiet step or one of the actions above.
LEMMA StepOK == IInv /\ [Next]_vars => IInv'
<1> SUFFICES ASSUME IInv, [Next]_vars PROVE IInv'
  OBVIOUS
<1>1. CASE UNCHANGED vars
  <2>1. ScalarsOK' /\ UNCHANGED <<chan, taken, arrived, workload, dead>>
    BY <1>1 DEF IInv, ScalarsOK, dead, vars, chanVars, connVars, pumpVars, coreVars, histVars
  <2> QED
    BY <2>1, ChannelsUnchanged DEF IInv
<1>2. ASSUME GuestNext PROVE IInv'
  BY <1>2, QuietStepOK, BeginCloseOK, ReceiveViaStreamOK DEF GuestNext, QuietStep
<1>3. ASSUME NEW t \in Tasks, Poll(t) \/ StreamWrite(t) \/ ConnectTimeout(t) PROVE IInv'
  BY <1>3, QuietStepOK, ReceivePollOK, StreamPollOK DEF Poll, QuietStep
<1>4. ASSUME CoreNext PROVE IInv'
  BY <1>4, QuietStepOK, ApplyFailedOK, ApplyClosedOK, ApplyChannelOpenOK, ApplyChannelClosedOK,
     ApplyMessageOK DEF CoreNext, QuietStep
<1>5. ASSUME PumpStep PROVE IInv'
  BY <1>5, QuietStepOK, PumpExitOK DEF PumpStep, QuietStep
<1>6. CASE ParkWake \/ DrainLapse
  BY <1>6, QuietStepOK DEF QuietStep
<1> QED
  BY <1>1, <1>2, <1>3, <1>4, <1>5, <1>6 DEF Next

\* The inductive invariant holds in every reachable state.
THEOREM IInvHolds == Spec => []IInv
  BY InitOK, StepOK, PTL DEF Spec

\* Every variable has its type; in particular the byte count of a backlog, a
\* usize in the code, is never decremented below zero (runtime.rs:157, 458-475).
THEOREM TypeCorrect == Spec => []TypeOK
<1>1. IInv => TypeOK
  BY IInvMeaning
<1> QED
  BY <1>1, IInvHolds, PTL

\* No channel of a connection that is over is usable (runtime.rs:352-360, 443-447).
THEOREM OverMeansClosedHolds == Spec => []OverMeansClosed
<1>1. IInv => OverMeansClosed
  BY IInvMeaning
<1> QED
  BY <1>1, IInvHolds, PTL

\* Messages are handed out in the order they arrived, none twice, and none is
\* skipped (runtime.rs:458-475, provider.rs:208-243).
THEOREM BacklogInOrderHolds == Spec => []BacklogInOrder
<1>1. IInv => BacklogInOrder
  BY IInvMeaning
<1> QED
  BY <1>1, IInvHolds, PTL

\* The buffered bytes are counted exactly and stay within
\* max-inbound-buffer-bytes (runtime.rs:157, 185-189, 464).
THEOREM BytesExactHolds == Spec => []BytesExact
<1>1. IInv => BytesExact
  BY IInvMeaning
<1> QED
  BY <1>1, IInvHolds, PTL

-----------------------------------------------------------------------------
(* Wakeups *)

\* A parked task executes a call: no call begins with its waker registered.
ParkedBusy == \A t \in parked : call[t].op # "idle"

\* The inductive strengthening of NoLostWakeup.
WakeInv == ParkedBusy /\ NoLostWakeup

\* What a task waits for depends on its call, the channels and the flags.
LEMMA ReadyUnchanged ==
  ASSUME NEW t, call'[t] = call[t], UNCHANGED <<chan, connected, failed, closed>>
  PROVE  Ready(t)' = Ready(t)
  BY DEF Ready, ChannelState, dead

\* Only in a drain that is going to notify may a parked task be ready: outside
\* of one, a step that parks no one, changes no parked task's call and nothing
\* a task waits for keeps every wakeup.
LEMMA QuietWakeup ==
  ASSUME WakeInv, UNCHANGED <<chan, connected, failed, closed>>,
         \A t \in parked' : t \in parked /\ call'[t] = call[t],
         ~(Borrowed /\ had_events) \/ (Borrowed' /\ had_events')
  PROVE  WakeInv'
<1>1. ParkedBusy'
  BY DEF WakeInv, ParkedBusy
<1>2. ASSUME NEW t \in parked', Ready(t)' PROVE Borrowed' /\ had_events'
  <2>1. t \in parked /\ Ready(t)
    BY <1>2, ReadyUnchanged
  <2>2. Borrowed /\ had_events
    BY <2>1 DEF WakeInv, NoLostWakeup
  <2> QED
    BY <2>2
<1> QED
  BY <1>1, <1>2 DEF WakeInv, NoLostWakeup

\* A step outside a drain that parks task t when it is not ready.
LEMMA ParkWakeup ==
  ASSUME WakeInv, ~Borrowed, NEW t \in Tasks, call[t].op # "idle", ~Ready(t), Park(t),
         UNCHANGED <<chan, connected, failed, closed>>
  PROVE  WakeInv'
<1>1. parked' = parked \union {t} /\ call' = call
  BY DEF Park
<1>2. ParkedBusy'
  BY <1>1 DEF WakeInv, ParkedBusy
<1>3. ASSUME NEW u \in parked' PROVE ~Ready(u)'
  <2>1. ~Ready(u)
    BY <1>1 DEF WakeInv, NoLostWakeup
  <2> QED
    BY <1>1, <2>1, ReadyUnchanged
<1> QED
  BY <1>2, <1>3 DEF WakeInv, NoLostWakeup

\* A pop outside a drain, by a task that is not parked, makes no parked task
\* ready: whoever waits for a message of the channel would have been so before.
LEMMA PopWakeup ==
  ASSUME IInv, WakeInv, ~Borrowed, NEW t \in Tasks, t \notin parked, NEW c \in Channels, PopStep(c),
         parked' = parked, connected' = connected, \A u \in parked : call'[u] = call[u]
  PROVE  WakeInv'
<1>1. ParkedBusy'
  BY DEF WakeInv, ParkedBusy
<1> DEFINE r == Popped(chan[c], Size(c, Oldest(c)))
<1>2. chan' = [chan EXCEPT ![c] = r] /\ chan[c].inbox # <<>> /\ UNCHANGED <<connected, failed, closed>>
  BY DEF PopStep, Pop, Popped
<1>3. /\ r.tracked = chan[c].tracked /\ r.closed = chan[c].closed /\ r.overflowed = chan[c].overflowed
      /\ r.stream_claimed = chan[c].stream_claimed
  BY ChannelFacts DEF ChannelRecord, Popped
<1>4. chan'[c] = r /\ \A d : d # c => chan'[d] = chan[d]
  BY <1>2 DEF IInv, ScalarsOK
<1> HIDE DEF r
<1>5. ASSUME NEW u \in parked' PROVE ~Ready(u)'
  <2>1. ~Ready(u)
    BY DEF WakeInv, NoLostWakeup
  <2>2. call'[u] = call[u]
    OBVIOUS
  <2>3. CASE call[u].ch = c
    BY <1>2, <1>3, <1>4, <2>1, <2>2, <2>3 DEF Ready, ChannelState, dead
  <2>4. CASE call[u].ch # c
    BY <1>2, <1>4, <2>1, <2>2, <2>4 DEF Ready, ChannelState, dead
  <2> QED
    BY <2>3, <2>4
<1> QED
  BY <1>1, <1>5 DEF WakeInv, NoLostWakeup

\* The guest's calls begin outside a drain, for tasks that are not parked.
LEMMA GuestWakeup == ASSUME IInv, WakeInv, GuestNext PROVE WakeInv'
<1> USE DEF vars, chanVars, connVars, pumpVars, coreVars, histVars
<1>1. CASE Signal
  <2>1. ~Borrowed /\ UNCHANGED <<chan, connected, failed, closed, call, parked>>
    BY <1>1 DEF Signal
  <2> QED
    BY <2>1, QuietWakeup
<1>2. CASE BeginClose
  <2>1. ~Borrowed /\ call' = call /\ (UNCHANGED <<chan, connected, failed, closed, parked>> \/ parked' = {})
    BY <1>2 DEF BeginClose, NotifyClose, Notify
  <2>2. CASE parked' = {}
    BY <2>2 DEF WakeInv, ParkedBusy, NoLostWakeup
  <2> QED
    BY <2>1, <2>2, QuietWakeup
<1>3. ASSUME NEW c \in Channels, CreateDataChannel(c) PROVE WakeInv'
  <2>1. ~Borrowed /\ UNCHANGED <<chan, connected, failed, closed, call, parked>>
    BY <1>3 DEF CreateDataChannel
  <2> QED
    BY <2>1, QuietWakeup
<1>4. ASSUME NEW t \in Tasks, NEW c \in Channels,
             \/ CallWaitConnected(t) \/ CallReceive(t, c) \/ CallSend(t, c)
             \/ ReceiveViaStream(t, c)
      PROVE  WakeInv'
  <2>1. /\ ~Borrowed /\ call[t].op = "idle" /\ UNCHANGED <<connected, failed, closed>>
        /\ \E k : call' = [call EXCEPT ![t] = k]
        /\ (chan' = chan /\ parked' = parked) \/ parked' = {}
    BY <1>4 DEF CallWaitConnected, CallReceive, CallSend, StartCall, ReceiveViaStream, NotifyClaim, Notify
  <2>2. t \notin parked
    BY <2>1 DEF WakeInv, ParkedBusy
  <2>3. CASE parked' = {}
    BY <2>3 DEF WakeInv, ParkedBusy, NoLostWakeup
  <2>4. CASE chan' = chan /\ parked' = parked
    <3>1. \A u \in parked : call'[u] = call[u]
      BY <2>1, <2>2
    <3> QED
      BY <2>1, <2>4, <3>1, QuietWakeup
  <2> QED
    BY <2>1, <2>3, <2>4
<1> QED
  BY <1>1, <1>2, <1>3, <1>4, ChannelsAssumption DEF GuestNext

\* A polled task returns, parks when it is not ready, or pops a message.
LEMMA TaskWakeup ==
  ASSUME IInv, WakeInv, NEW t \in Tasks, Poll(t) \/ StreamWrite(t) \/ ConnectTimeout(t)
  PROVE  WakeInv'
<1> USE DEF vars, chanVars, connVars, pumpVars, coreVars, histVars
<1> DEFINE c == call[t].ch
<1>1. c \in Channels /\ call \in [Tasks -> Calls] /\ NoCall \in Calls
  BY CallFacts DEF IInv, ScalarsOK, Calls
<1>2. CASE \E k : call' = [call EXCEPT ![t] = k] /\ ~Borrowed /\ parked' \in {parked, parked \ {t}}
                  /\ (t \notin parked \/ t \notin parked') /\ UNCHANGED <<chan, connected, failed, closed>>
  BY <1>2, QuietWakeup
<1>3. CASE ReceivePoll(t)
  <2>1. /\ ~Borrowed /\ t \notin parked /\ call[t].op = "receive"
        /\ UNCHANGED <<connected, failed, closed, arrived, workload>>
        /\ \/ Return(t) /\ UNCHANGED chan
           \/ /\ chan[c].inbox # <<>> /\ chan' = Pop(c) /\ taken' = [taken EXCEPT ![c] = Oldest(c)]
              /\ Return(t)
           \/ ~Ready(t) /\ Park(t) /\ UNCHANGED chan
    BY <1>3 DEF ReceivePoll, Runnable, Finished, Ready
  <2>2. CASE Return(t) /\ UNCHANGED chan
    BY <1>2, <2>1, <2>2 DEF Return
  <2>3. CASE /\ chan[c].inbox # <<>> /\ chan' = Pop(c) /\ taken' = [taken EXCEPT ![c] = Oldest(c)]
             /\ Return(t)
    <3>1. PopStep(c) /\ parked' = parked /\ \A u \in parked : call'[u] = call[u]
      BY <1>1, <2>1, <2>3 DEF PopStep, Return
    <3> QED
      BY <1>1, <2>1, <3>1, PopWakeup
  <2>4. CASE ~Ready(t) /\ Park(t) /\ UNCHANGED chan
    BY <2>1, <2>4, ParkWakeup
  <2> QED
    BY <2>1, <2>2, <2>3, <2>4
<1>4. CASE SendPoll(t)
  <2>1. /\ ~Borrowed /\ t \notin parked /\ call[t].op = "send"
        /\ UNCHANGED <<chan, connected, failed, closed>>
        /\ Return(t) \/ (~Ready(t) /\ Park(t))
    BY <1>4 DEF SendPoll, Runnable, Ready
  <2> QED
    BY <1>1, <1>2, <2>1, ParkWakeup DEF Return
<1>5. CASE WaitConnectedPoll(t)
  <2>1. /\ ~Borrowed /\ t \notin parked /\ call[t].op = "wait_connected"
        /\ UNCHANGED <<chan, connected, failed, closed>>
        /\ Return(t) \/ (~Ready(t) /\ Park(t))
    BY <1>5 DEF WaitConnectedPoll, Runnable, Ready
  <2> QED
    BY <1>1, <1>2, <2>1, ParkWakeup DEF Return
<1>6. CASE StreamPoll(t)
  <2>1. /\ ~Borrowed /\ t \notin parked /\ call[t].op = "pump_receive"
        /\ UNCHANGED <<connected, failed, closed, arrived, workload>>
        /\ \/ Return(t) /\ UNCHANGED chan
           \/ /\ chan[c].inbox # <<>> /\ chan' = Pop(c) /\ taken' = [taken EXCEPT ![c] = Oldest(c)]
              /\ call' = [call EXCEPT ![t].held = Oldest(c)] /\ parked' = parked
           \/ ~Ready(t) /\ Park(t) /\ UNCHANGED chan
    BY <1>6 DEF StreamPoll, Runnable, Ready
  <2>2. CASE Return(t) /\ UNCHANGED chan
    BY <1>2, <2>1, <2>2 DEF Return
  <2>3. CASE /\ chan[c].inbox # <<>> /\ chan' = Pop(c) /\ taken' = [taken EXCEPT ![c] = Oldest(c)]
             /\ call' = [call EXCEPT ![t].held = Oldest(c)] /\ parked' = parked
    <3>1. PopStep(c) /\ \A u \in parked : call'[u] = call[u]
      BY <1>1, <2>1, <2>3 DEF PopStep
    <3> QED
      BY <1>1, <2>1, <2>3, <3>1, PopWakeup
  <2>4. CASE ~Ready(t) /\ Park(t) /\ UNCHANGED chan
    BY <2>1, <2>4, ParkWakeup
  <2> QED
    BY <2>1, <2>2, <2>3, <2>4
<1>7. CASE StreamWrite(t)
  <2>1. /\ ~Borrowed /\ t \notin parked /\ parked' = parked
        /\ UNCHANGED <<chan, connected, failed, closed>>
        /\ call' = [call EXCEPT ![t] = [call[t] EXCEPT !.held = 0]] \/ call' = [call EXCEPT ![t] = NoCall]
    BY <1>7 DEF StreamWrite, Runnable
  <2> QED
    BY <1>2, <2>1
<1>8. CASE ConnectTimeout(t)
  <2>1. /\ ~Borrowed /\ parked' = parked \ {t} /\ call' = [call EXCEPT ![t] = NoCall]
        /\ UNCHANGED <<chan, connected, failed, closed>>
    BY <1>8 DEF ConnectTimeout
  <2> QED
    BY <1>2, <2>1
<1> QED
  BY <1>3, <1>4, <1>5, <1>6, <1>7, <1>8 DEF Poll

\* The drain notes that it applied something, and notifies before it ends.
LEMMA PumpWakeup ==
  ASSUME IInv, WakeInv, CoreNext \/ PumpStep \/ ParkWake \/ DrainLapse
  PROVE  WakeInv'
<1> USE DEF vars, chanVars, connVars, pumpVars, coreVars, histVars
<1>1. CASE CoreNext
  <2>1. Borrowed' /\ had_events' /\ UNCHANGED <<call, parked>>
    BY <1>1 DEF CoreNext, ApplyConnected, ApplyFailed, ApplyClosed, ApplyChannelOpen, ApplyChannelClosed,
                ApplyMessage, ApplyEvent, Borrowed
  <2> QED
    BY <2>1 DEF WakeInv, ParkedBusy, NoLostWakeup
<1>2. CASE EndDrain
  <2>1. \/ parked' = {}
        \/ ~had_events /\ UNCHANGED <<chan, connected, failed, closed, call, parked>>
    BY <1>2 DEF EndDrain, NotifyIfChanged, Notify
  <2>2. CASE parked' = {}
    BY <2>2 DEF WakeInv, ParkedBusy, NoLostWakeup
  <2> QED
    BY <2>1, <2>2, QuietWakeup
<1>3. CASE PumpExit
  BY <1>3 DEF PumpExit, Notify, WakeInv, ParkedBusy, NoLostWakeup
<1>4. CASE FlushOne \/ BeginDrain \/ PumpPark \/ ParkInput \/ ParkWake \/ DrainLapse
  <2>1. /\ UNCHANGED <<chan, connected, failed, closed, call, parked>>
        /\ ~Borrowed \/ UNCHANGED <<pc, had_events>>
    BY <1>4 DEF FlushOne, BeginDrain, PumpPark, ParkInput, ParkWake, DrainLapse, Borrowed
  <2> QED
    BY <2>1, QuietWakeup DEF Borrowed
<1> QED
  BY <1>1, <1>2, <1>3, <1>4 DEF PumpStep

\* No wakeup is lost: a task that is parked while what it waits for has come is
\* one that the drain in progress is about to notify (runtime.rs:63-68).
THEOREM NoLostWakeupHolds == Spec => []NoLostWakeup
<1>1. Init => WakeInv
  BY DEF Init, WakeInv, ParkedBusy, NoLostWakeup
<1>2. IInv /\ WakeInv /\ [Next]_vars => WakeInv'
  <2> SUFFICES ASSUME IInv, WakeInv, [Next]_vars PROVE WakeInv'
    OBVIOUS
  <2>1. CASE UNCHANGED vars
    BY <2>1, QuietWakeup DEF vars, chanVars, connVars, pumpVars, Borrowed
  <2> QED
    BY <2>1, GuestWakeup, TaskWakeup, PumpWakeup DEF Next
<1>3. WakeInv => NoLostWakeup
  BY DEF WakeInv
<1> QED
  BY <1>1, <1>2, <1>3, IInvHolds, PTL DEF Spec

\* Nothing is queued for transmission once the pump has returned, because no
\* channel is open then, and the core is closed only after a flush that left
\* nothing queued (runtime.rs:219-224).
THEOREM NoSendDiscardedHolds == Spec => []NoSendDiscarded
<1>1. Init => NoSendDiscarded
  BY DEF Init, NoSendDiscarded
<1>2. IInv /\ NoSendDiscarded /\ [Next]_vars => NoSendDiscarded'
  <2> SUFFICES ASSUME IInv, NoSendDiscarded, [Next]_vars PROVE NoSendDiscarded'
    OBVIOUS
  <2> USE DEF vars, chanVars, connVars, pumpVars, coreVars, histVars
  <2>1. CASE UNCHANGED vars
    BY <2>1 DEF NoSendDiscarded
  <2>2. CASE GuestNext
    <3>1. UNCHANGED <<lost, outbox>> /\ (pc' = "stopped" => pc = "stopped")
      <4>1. CASE BeginClose
        BY <4>1 DEF BeginClose, RequestClose
      <4>2. CASE Signal \/ (\E c \in Channels : CreateDataChannel(c)) \/ (\E t \in Tasks : CallWaitConnected(t))
        BY <4>2 DEF Signal, CreateDataChannel, CallWaitConnected, StartCall
      <4>3. ASSUME NEW t \in Tasks, NEW c \in Channels,
                   CallReceive(t, c) \/ CallSend(t, c) \/ ReceiveViaStream(t, c)
            PROVE  UNCHANGED <<lost, outbox>> /\ (pc' = "stopped" => pc = "stopped")
        BY <4>3 DEF CallReceive, CallSend, StartCall, ReceiveViaStream
      <4> QED
        BY <2>2, <4>1, <4>2, <4>3 DEF GuestNext
    <3> QED
      BY <3>1 DEF NoSendDiscarded
  <2>3. ASSUME NEW t \in Tasks, SendPoll(t) PROVE NoSendDiscarded'
    <3>1. call[t].ch \in Channels
      BY DEF IInv, ScalarsOK, Calls
    <3>2. pc = "stopped" => ChannelState(call[t].ch) # "open"
      BY <3>1, ChannelFacts DEF IInv, ScalarsOK, ChannelState, dead, ChannelOK
    <3> QED
      BY <2>3, <3>2 DEF NoSendDiscarded, SendPoll
  <2>4. ASSUME NEW t \in Tasks,
               \/ ReceivePoll(t) \/ WaitConnectedPoll(t) \/ StreamPoll(t)
               \/ StreamWrite(t) \/ ConnectTimeout(t)
        PROVE  NoSendDiscarded'
    BY <2>4 DEF NoSendDiscarded, ReceivePoll, WaitConnectedPoll, StreamPoll, StreamWrite, ConnectTimeout
  <2>5. CASE CoreNext
    <3>1. lost' = lost /\ pc' # "stopped"
      BY <2>5 DEF CoreNext, ApplyConnected, ApplyFailed, ApplyClosed, ApplyChannelOpen,
                  ApplyChannelClosed, ApplyMessage, ApplyEvent
    <3> QED
      BY <3>1 DEF NoSendDiscarded
  <2>6. CASE PumpStep \/ ParkWake \/ DrainLapse
    BY <2>6 DEF NoSendDiscarded, PumpStep, FlushOne, BeginDrain, EndDrain, PumpExit, PumpPark, ParkInput,
                ParkWake, DrainLapse, IInv, ScalarsOK
  <2> QED
    BY <2>1, <2>2, <2>3, <2>4, <2>5, <2>6 DEF Next, Poll
<1> QED
  BY <1>1, <1>2, IInvHolds, PTL DEF Spec

-----------------------------------------------------------------------------
(***************************************************************************)
(* wasip3-impl keeps the promise about inbound messages that wit/webrtc.wit *)
(* makes: every step is a step of InboundContract, or leaves everything the *)
(* contract speaks of as it is.  That an ending is final then follows       *)
(* from the contract's own actions.                                         *)
(*                                                                          *)
(* The refinement mapping is stated channel by channel (StatusOf,           *)
(* AcceptedOf), so that a step of one channel, a step that ends the         *)
(* connection and a step that touches no channel each have one lemma.       *)
(***************************************************************************)

\* What the contract sees of one channel.
StatusOf(c) == IF chan[c].overflowed THEN "overflow" ELSE ChannelState(c)
AcceptedOf(c) == taken[c] + Len(chan[c].inbox)

\* Nothing the contract sees of any channel changes.
Stutter ==
  /\ \A c \in Channels : StatusOf(c)' = StatusOf(c) /\ AcceptedOf(c)' = AcceptedOf(c)
  /\ taken' = taken /\ ended' = ended

\* Such a step is a stutter of the contract.
LEMMA StutterIsContractStutter ==
  ASSUME Stutter PROVE UNCHANGED Contract!vars
  BY DEF Stutter, StatusOf, AcceptedOf, Contract!vars

\* Only the status of channel c changes, to s.
StatusBecomes(c, s) ==
  /\ StatusOf(c)' = s
  /\ \A d \in Channels \ {c} : StatusOf(d)' = StatusOf(d)
  /\ \A d \in Channels : AcceptedOf(d)' = AcceptedOf(d)
  /\ taken' = taken /\ ended' = ended

\* The status of one channel changes: it opens, overflows or closes.
LEMMA StatusStepIsContractStep ==
  ASSUME NEW c \in Channels, NEW s, StatusBecomes(c, s),
         \/ StatusOf(c) = "opening" /\ s = "open"
         \/ StatusOf(c) = "open" /\ s \in {"overflow", "closed"}
  PROVE  Contract!Next
<1>1. CASE StatusOf(c) = "opening" /\ s = "open"
  <2>1. Contract!Open(c)
    BY <1>1 DEF StatusBecomes, StatusOf, AcceptedOf, Contract!Open
  <2> QED
    BY <2>1 DEF Contract!Next
<1>2. CASE StatusOf(c) = "open" /\ s = "overflow"
  <2>1. Contract!Overflow(c)
    BY <1>2 DEF StatusBecomes, StatusOf, AcceptedOf, Contract!Overflow
  <2> QED
    BY <2>1 DEF Contract!Next
<1>3. CASE StatusOf(c) = "open" /\ s = "closed"
  <2>1. Contract!Close({c})
    BY <1>3 DEF StatusBecomes, StatusOf, AcceptedOf, Contract!Close, Contract!Ending
  <2> QED
    BY <2>1 DEF Contract!Next
<1> QED
  BY <1>1, <1>2, <1>3

\* One more message is accepted into the backlog of channel c.
LEMMA AcceptIsContractAccept ==
  ASSUME NEW c \in Channels, StatusOf(c) = "open", AcceptedOf(c) < MaxMsgs,
         AcceptedOf(c)' = AcceptedOf(c) + 1,
         \A d \in Channels \ {c} : AcceptedOf(d)' = AcceptedOf(d),
         \A d \in Channels : StatusOf(d)' = StatusOf(d), taken' = taken, ended' = ended
  PROVE  Contract!Accept(c)
  BY DEF StatusOf, AcceptedOf, Contract!Accept

\* The oldest message of the backlog of channel c is handed out.
LEMMA TakeIsContractTake ==
  ASSUME NEW c \in Channels, taken[c] < AcceptedOf(c), taken' = [taken EXCEPT ![c] = taken[c] + 1],
         \A d \in Channels : StatusOf(d)' = StatusOf(d) /\ AcceptedOf(d)' = AcceptedOf(d),
         ended' = ended
  PROVE  Contract!Take(c)
  BY DEF StatusOf, AcceptedOf, Contract!Take

\* A receive reports the ending of channel c.
LEMMA ReportIsContractReport ==
  ASSUME NEW c \in Channels, StatusOf(c) \in {"closed", "overflow"}, taken[c] = AcceptedOf(c),
         ended' = [ended EXCEPT ![c] = StatusOf(c)],
         \A d \in Channels : StatusOf(d)' = StatusOf(d) /\ AcceptedOf(d)' = AcceptedOf(d),
         taken' = taken
  PROVE  Contract!Report(c)
  BY DEF StatusOf, AcceptedOf, Contract!Report, Contract!Ending

\* Every channel that is not over closes, if there is any.
LEMMA AllCloseIsContractClose ==
  ASSUME \A c \in Channels :
           /\ StatusOf(c)' = IF StatusOf(c) \in {"closed", "overflow"} THEN StatusOf(c) ELSE "closed"
           /\ AcceptedOf(c)' = AcceptedOf(c),
         taken' = taken, ended' = ended
  PROVE  [Contract!Next]_(Contract!vars)
<1> PICK S \in SUBSET Channels : S = {c \in Channels : StatusOf(c) \notin {"closed", "overflow"}}
  OBVIOUS
<1>1. CASE S = {}
  <2>1. Stutter
    BY <1>1 DEF Stutter
  <2> QED
    BY <2>1, StutterIsContractStutter
<1>2. CASE S # {}
  <2>1. Contract!Close(S)
    BY <1>2 DEF StatusOf, AcceptedOf, Contract!Close, Contract!Ending
  <2> QED
    BY <2>1 DEF Contract!Next
<1> QED
  BY <1>1, <1>2

-----------------------------------------------------------------------------
(* The steps of the runtime *)

\* The facts about one channel that the steps below use: its backlog is a
\* sequence, it is closed if it overflowed or the connection is over, and
\* nothing is recorded of it before its open.
LEMMA RecordFacts ==
  ASSUME IInv, NEW c \in Channels
  PROVE  /\ chan[c] \in ChannelRecord /\ Len(chan[c].inbox) \in Nat
         /\ taken[c] \in Nat /\ arrived[c] \in Nat /\ AcceptedOf(c) \in Nat
         /\ AcceptedOf(c) <= arrived[c]
         /\ chan[c].tracked => (dead \/ chan[c].overflowed => chan[c].closed)
         /\ ~chan[c].tracked => chan[c] = Untracked /\ ~chan[c].overflowed /\ chan[c].inbox = <<>>
<1>1. ChannelOK(chan[c], taken[c], arrived[c], workload[c], dead) /\ taken[c] \in Nat /\ arrived[c] \in Nat
  BY ChannelFacts
<1>2. chan[c] \in ChannelRecord /\ Len(chan[c].inbox) \in Nat
  BY <1>1 DEF ChannelOK, ChannelRecord
<1> QED
  BY <1>1, <1>2 DEF ChannelOK, AcceptedOf, Untracked

\* A step that touches no channel.
LEMMA QuietContract ==
  ASSUME QuietStep \/ UNCHANGED vars PROVE Stutter
<1>1. UNCHANGED <<chan, taken, ended, connected, failed, closed>> \/ ApplyConnected
  BY DEF QuietStep, vars, chanVars, connVars, pumpVars, coreVars, histVars, Signal, CreateDataChannel,
         CallWaitConnected, CallReceive, CallSend, StartCall, SendPoll, WaitConnectedPoll,
         ConnectTimeout, StreamWrite, FlushOne, BeginDrain, EndDrain, PumpPark, ParkInput, ParkWake,
         DrainLapse
<1>2. UNCHANGED <<chan, taken, ended, dead>>
  BY <1>1 DEF ApplyConnected, ApplyEvent, dead, histVars
<1> QED
  BY <1>2 DEF Stutter, StatusOf, AcceptedOf, ChannelState

\* A step that ends the connection: close, a failure, the end of the core's
\* close, the return of the pump.
LEMMA ConnectionEndsContract ==
  ASSUME IInv, chan' = CloseAll(chan), dead' = TRUE, taken' = taken, ended' = ended
  PROVE  [Contract!Next]_(Contract!vars)
<1>1. ASSUME NEW c \in Channels
      PROVE  /\ StatusOf(c)' = IF StatusOf(c) \in {"closed", "overflow"} THEN StatusOf(c) ELSE "closed"
             /\ AcceptedOf(c)' = AcceptedOf(c)
  <2>1. CASE chan[c].tracked
    <3> DEFINE r == [chan[c] EXCEPT !.closed = TRUE]
    <3>1. chan'[c] = r
      BY <2>1 DEF CloseAll
    <3>2. r.tracked /\ r.closed /\ r.overflowed = chan[c].overflowed /\ r.inbox = chan[c].inbox
      BY <2>1, RecordFacts DEF ChannelRecord
    <3> QED
      BY <2>1, <3>1, <3>2 DEF StatusOf, AcceptedOf, ChannelState
  <2>2. CASE ~chan[c].tracked
    <3>1. chan'[c] = chan[c] /\ ~chan[c].overflowed
      BY <2>2, RecordFacts DEF CloseAll
    <3> QED
      BY <2>2, <3>1 DEF StatusOf, AcceptedOf, ChannelState
  <2> QED
    BY <2>1, <2>2
<1> QED
  BY <1>1, AllCloseIsContractClose

\* A channel opens: late, on a connection that is over, nobody can tell.
LEMMA ApplyChannelOpenContract ==
  ASSUME IInv, NEW c \in Channels, ApplyChannelOpen(c)
  PROVE  [Contract!Next]_(Contract!vars)
<1>1. /\ chan' = [chan EXCEPT ![c] = NewChannel(dead)] /\ ~chan[c].tracked /\ dead' = dead
      /\ taken' = taken /\ ended' = ended
  BY DEF ApplyChannelOpen, ApplyEvent, dead, histVars
<1>2. /\ chan[c] = Untracked /\ ~chan[c].overflowed /\ chan[c].inbox = <<>>
      /\ DOMAIN chan = Channels
  BY <1>1, RecordFacts DEF IInv, ScalarsOK
<1> DEFINE r == NewChannel(dead)
<1>3. r.tracked /\ r.closed = dead /\ ~r.overflowed /\ r.inbox = <<>>
  BY DEF NewChannel, Untracked
<1> HIDE DEF r
<1>4. chan'[c] = r /\ \A d \in Channels \ {c} : chan'[d] = chan[d]
  BY <1>1, <1>2 DEF r
<1>5. CASE dead
  <2>1. Stutter
    BY <1>1, <1>2, <1>3, <1>4, <1>5 DEF Stutter, StatusOf, AcceptedOf, ChannelState
  <2> QED
    BY <2>1, StutterIsContractStutter
<1>6. CASE ~dead
  <2>1. StatusOf(c) = "opening" /\ StatusBecomes(c, "open")
    BY <1>1, <1>2, <1>3, <1>4, <1>6 DEF StatusBecomes, StatusOf, AcceptedOf, ChannelState
  <2> QED
    BY <2>1, StatusStepIsContractStep
<1> QED
  BY <1>5, <1>6

\* One channel closes.
LEMMA ApplyChannelClosedContract ==
  ASSUME IInv, NEW c \in Channels, ApplyChannelClosed(c)
  PROVE  [Contract!Next]_(Contract!vars)
<1> DEFINE r == [chan[c] EXCEPT !.closed = TRUE]
<1>1. /\ chan' = [chan EXCEPT ![c] = r] /\ chan[c].tracked /\ ~chan[c].closed
      /\ dead' = dead /\ taken' = taken /\ ended' = ended
  BY DEF ApplyChannelClosed, ApplyEvent, dead, histVars
<1>2. ~chan[c].overflowed /\ DOMAIN chan = Channels
  BY <1>1, RecordFacts DEF IInv, ScalarsOK
<1>3. r.tracked /\ r.closed /\ ~r.overflowed /\ r.inbox = chan[c].inbox
  BY <1>1, <1>2, RecordFacts DEF ChannelRecord
<1>4. chan'[c] = r /\ \A d \in Channels \ {c} : chan'[d] = chan[d]
  BY <1>1, <1>2
<1> HIDE DEF r
<1>5. StatusOf(c) = "open" /\ StatusBecomes(c, "closed")
  BY <1>1, <1>2, <1>3, <1>4 DEF StatusBecomes, StatusOf, AcceptedOf, ChannelState
<1> QED
  BY <1>5, StatusStepIsContractStep

\* A claim is no business of the contract.
LEMMA ReceiveViaStreamContract ==
  ASSUME IInv, NEW t \in Tasks, NEW c \in Channels, ReceiveViaStream(t, c)
  PROVE  Stutter
<1> DEFINE r == [chan[c] EXCEPT !.stream_claimed = TRUE]
<1>1. /\ chan' = chan \/ chan' = [chan EXCEPT ![c] = r]
      /\ dead' = dead /\ taken' = taken /\ ended' = ended
  BY DEF ReceiveViaStream, dead, histVars, connVars
<1>2. /\ r.tracked = chan[c].tracked /\ r.closed = chan[c].closed /\ r.overflowed = chan[c].overflowed
      /\ r.inbox = chan[c].inbox
  BY RecordFacts DEF ChannelRecord
<1>3. chan' = chan \/ (chan'[c] = r /\ \A d \in Channels \ {c} : chan'[d] = chan[d])
  BY <1>1 DEF IInv, ScalarsOK
<1> HIDE DEF r
<1> QED
  BY <1>1, <1>2, <1>3 DEF Stutter, StatusOf, AcceptedOf, ChannelState

\* Handing out a message is the contract's Take: what is popped is the message
\* after the last one taken.
LEMMA PopContract ==
  ASSUME IInv, NEW c \in Channels, PopStep(c), ended' = ended
  PROVE  Contract!Take(c)
<1> DEFINE m == chan[c]
           k == taken[c]
<1>1. Oldest(c) = k + 1
  BY PopStepOK DEF After
<1> DEFINE r == Popped(m, Size(c, Oldest(c)))
<1>2. chan' = [chan EXCEPT ![c] = r] /\ taken' = [taken EXCEPT ![c] = k + 1] /\ dead' = dead
  BY <1>1 DEF PopStep, Pop, Popped, dead
<1>3. m \in ChannelRecord /\ m.inbox \in Seq(1..MaxMsgs) /\ m.inbox # <<>> /\ k \in Nat
  BY RecordFacts DEF PopStep, ChannelRecord
<1>4. Len(m.inbox) \in Nat \ {0} /\ Len(Tail(m.inbox)) = Len(m.inbox) - 1
  BY <1>3, TailFacts
<1>5. /\ r.tracked = m.tracked /\ r.closed = m.closed /\ r.overflowed = m.overflowed
      /\ r.inbox = Tail(m.inbox)
  BY <1>3 DEF ChannelRecord, Popped
<1> HIDE DEF r
<1>6. /\ chan'[c] = r /\ \A d \in Channels \ {c} : chan'[d] = chan[d]
      /\ taken'[c] = k + 1 /\ \A d \in Channels \ {c} : taken'[d] = taken[d]
  BY <1>2 DEF IInv, ScalarsOK
<1>7. \A d \in Channels : StatusOf(d)' = StatusOf(d)
  BY <1>2, <1>5, <1>6 DEF StatusOf, ChannelState
<1>8. AcceptedOf(c)' = AcceptedOf(c)
  <2>1. Len(chan'[c].inbox) = Len(m.inbox) - 1
    BY <1>4, <1>5, <1>6
  <2>2. (k + 1) + (Len(m.inbox) - 1) = k + Len(m.inbox)
    BY <1>3, <1>4
  <2> QED
    BY <1>6, <2>1, <2>2 DEF AcceptedOf
<1>9. \A d \in Channels : AcceptedOf(d)' = AcceptedOf(d)
  BY <1>6, <1>8 DEF AcceptedOf
<1>10. taken[c] < AcceptedOf(c)
  BY <1>3, <1>4 DEF AcceptedOf
<1> QED
  BY <1>2, <1>7, <1>9, <1>10, TakeIsContractTake

\* receive hands out a message, reports the ending of a drained channel, or
\* returns or parks with nothing.
LEMMA ReceivePollContract ==
  ASSUME IInv, NEW t \in Tasks, ReceivePoll(t)
  PROVE  [Contract!Next]_(Contract!vars)
<1> DEFINE c == call[t].ch
<1>1. c \in Channels
  BY DEF IInv, ScalarsOK, Calls
<1>2. UNCHANGED <<arrived, workload, connected, failed, closed>> /\ dead' = dead
  BY DEF ReceivePoll, connVars, coreVars, dead
<1>3. \/ UNCHANGED <<chan, taken, ended>>
      \/ /\ chan[c].inbox # <<>> /\ chan' = Pop(c) /\ taken' = [taken EXCEPT ![c] = Oldest(c)]
         /\ ended' = ended
      \/ /\ Finished(c) /\ UNCHANGED <<chan, taken>>
         /\ ended' = [ended EXCEPT ![c] = IF chan[c].overflowed THEN "overflow" ELSE "closed"]
  BY DEF ReceivePoll
<1>4. CASE UNCHANGED <<chan, taken, ended>>
  <2>1. Stutter
    BY <1>2, <1>4 DEF Stutter, StatusOf, AcceptedOf, ChannelState
  <2> QED
    BY <2>1, StutterIsContractStutter
<1>5. CASE /\ chan[c].inbox # <<>> /\ chan' = Pop(c) /\ taken' = [taken EXCEPT ![c] = Oldest(c)]
           /\ ended' = ended
  <2>1. Contract!Take(c)
    BY <1>1, <1>2, <1>5, PopContract DEF PopStep
  <2> QED
    BY <1>1, <2>1 DEF Contract!Next
<1>6. CASE /\ Finished(c) /\ UNCHANGED <<chan, taken>>
           /\ ended' = [ended EXCEPT ![c] = IF chan[c].overflowed THEN "overflow" ELSE "closed"]
  <2>1. /\ StatusOf(c) \in {"closed", "overflow"}
        /\ StatusOf(c) = IF chan[c].overflowed THEN "overflow" ELSE "closed"
    BY <1>6 DEF Finished, StatusOf
  <2>2. taken[c] = AcceptedOf(c)
    BY <1>1, <1>6, RecordFacts DEF Finished, AcceptedOf
  <2>3. \A d \in Channels : StatusOf(d)' = StatusOf(d) /\ AcceptedOf(d)' = AcceptedOf(d)
    BY <1>2, <1>6 DEF StatusOf, AcceptedOf, ChannelState
  <2>4. ended' = [ended EXCEPT ![c] = StatusOf(c)]
    BY <1>6, <2>1
  <2>5. Contract!Report(c)
    BY <1>1, <1>6, <2>1, <2>2, <2>3, <2>4, ReportIsContractReport
  <2> QED
    BY <1>1, <2>5 DEF Contract!Next
<1> QED
  BY <1>3, <1>4, <1>5, <1>6

\* The pump of a stream hands out a message, or nothing.
LEMMA StreamPollContract ==
  ASSUME IInv, NEW t \in Tasks, StreamPoll(t)
  PROVE  [Contract!Next]_(Contract!vars)
<1> DEFINE c == call[t].ch
<1>1. c \in Channels
  BY DEF IInv, ScalarsOK, Calls
<1>2. UNCHANGED <<arrived, workload, connected, failed, closed, ended>> /\ dead' = dead
  BY DEF StreamPoll, connVars, coreVars, dead
<1>3. \/ UNCHANGED <<chan, taken>>
      \/ chan[c].inbox # <<>> /\ chan' = Pop(c) /\ taken' = [taken EXCEPT ![c] = Oldest(c)]
  BY DEF StreamPoll
<1>4. CASE UNCHANGED <<chan, taken>>
  <2>1. Stutter
    BY <1>2, <1>4 DEF Stutter, StatusOf, AcceptedOf, ChannelState
  <2> QED
    BY <2>1, StutterIsContractStutter
<1>5. CASE chan[c].inbox # <<>> /\ chan' = Pop(c) /\ taken' = [taken EXCEPT ![c] = Oldest(c)]
  <2>1. Contract!Take(c)
    BY <1>1, <1>2, <1>5, PopContract DEF PopStep
  <2> QED
    BY <1>1, <2>1 DEF Contract!Next
<1> QED
  BY <1>3, <1>4, <1>5

\* A message is accepted, overflows the channel, or is dropped.
LEMMA ApplyMessageContract ==
  ASSUME IInv, NEW c \in Channels, ApplyMessage(c)
  PROVE  [Contract!Next]_(Contract!vars)
<1> DEFINE m == chan[c]
           n == arrived[c] + 1
           over == [m EXCEPT !.overflowed = TRUE, !.closed = TRUE]
           more == [m EXCEPT !.inbox = Append(m.inbox, n), !.inbox_bytes = m.inbox_bytes + Size(c, n)]
<1>1. /\ UNCHANGED <<taken, ended, connected, failed, closed>> /\ dead' = dead
      /\ m.tracked /\ arrived[c] < MaxMsgs
  BY DEF ApplyMessage, connVars, histVars, dead
<1>2. \/ UNCHANGED chan
      \/ ~Discards(m) /\ chan' = [chan EXCEPT ![c] = over]
      \/ ~Discards(m) /\ chan' = [chan EXCEPT ![c] = more]
  BY DEF ApplyMessage
<1>3. m \in ChannelRecord /\ n \in 1..MaxMsgs /\ m.inbox \in Seq(1..MaxMsgs) /\ taken[c] \in Nat
  BY <1>1, RecordFacts, BoundAssumption DEF ChannelRecord
<1>4. CASE UNCHANGED chan
  <2>1. Stutter
    BY <1>1, <1>4 DEF Stutter, StatusOf, AcceptedOf, ChannelState
  <2> QED
    BY <2>1, StutterIsContractStutter
<1>5. CASE ~Discards(m) /\ chan' = [chan EXCEPT ![c] = over]
  <2>1. over.overflowed /\ over.inbox = m.inbox
    BY <1>3 DEF ChannelRecord
  <2>2. chan'[c] = over /\ \A d \in Channels \ {c} : chan'[d] = chan[d]
    BY <1>5 DEF IInv, ScalarsOK
  <2>3. StatusOf(c) = "open"
    BY <1>1, <1>5 DEF Discards, StatusOf, ChannelState
  <2> HIDE DEF over
  <2>4. StatusBecomes(c, "overflow")
    BY <1>1, <2>1, <2>2 DEF StatusBecomes, StatusOf, AcceptedOf, ChannelState
  <2> QED
    BY <2>3, <2>4, StatusStepIsContractStep
<1>6. CASE ~Discards(m) /\ chan' = [chan EXCEPT ![c] = more]
  <2>1. /\ more.tracked = m.tracked /\ more.closed = m.closed /\ more.overflowed = m.overflowed
        /\ more.inbox = Append(m.inbox, n)
    BY <1>3 DEF ChannelRecord
  <2>2. chan'[c] = more /\ \A d \in Channels \ {c} : chan'[d] = chan[d]
    BY <1>6 DEF IInv, ScalarsOK
  <2>3. StatusOf(c) = "open" /\ AcceptedOf(c) < MaxMsgs
    BY <1>1, <1>6, RecordFacts, BoundAssumption DEF Discards, StatusOf, ChannelState
  <2>4. Len(Append(m.inbox, n)) = Len(m.inbox) + 1 /\ Len(m.inbox) \in Nat
    BY <1>3, AppendFacts
  <2> HIDE DEF more
  <2>5. AcceptedOf(c)' = AcceptedOf(c) + 1
    <3>1. Len(chan'[c].inbox) = Len(m.inbox) + 1
      BY <2>1, <2>2, <2>4
    <3>2. taken[c] + (Len(m.inbox) + 1) = (taken[c] + Len(m.inbox)) + 1
      BY <1>3, <2>4
    <3> QED
      BY <1>1, <3>1, <3>2 DEF AcceptedOf
  <2>6. /\ \A d \in Channels \ {c} : AcceptedOf(d)' = AcceptedOf(d)
        /\ \A d \in Channels : StatusOf(d)' = StatusOf(d)
    BY <1>1, <2>1, <2>2 DEF StatusOf, AcceptedOf, ChannelState
  <2>7. Contract!Accept(c)
    BY <1>1, <2>3, <2>5, <2>6, AcceptIsContractAccept
  <2> QED
    BY <2>7 DEF Contract!Next
<1> QED
  BY <1>2, <1>4, <1>5, <1>6

-----------------------------------------------------------------------------
(* The refinement *)

\* The initial states, of a connection alive or dead, are the contract's.
LEMMA InitContract == Init => Contract!Init
<1> SUFFICES ASSUME Init PROVE Contract!Init
  OBVIOUS
<1>1. \A c \in Channels : StatusOf(c) \in {"opening", "closed"} /\ AcceptedOf(c) = 0
  <2> TAKE c \in Channels
  <2>1. chan[c] = Untracked /\ taken[c] = 0
    BY DEF Init
  <2>2. ~chan[c].tracked /\ ~chan[c].overflowed /\ chan[c].inbox = <<>>
    BY <2>1 DEF Untracked
  <2> QED
    BY <2>1, <2>2 DEF StatusOf, AcceptedOf, ChannelState
<1>2. taken = [c \in Channels |-> 0] /\ ended = [c \in Channels |-> "none"]
  BY DEF Init
<1> QED
  BY <1>1, <1>2 DEF Contract!Init, StatusOf, AcceptedOf

\* Every step of the runtime is a step of the contract or a stutter of it.
LEMMA StepContract == IInv /\ [Next]_vars => [Contract!Next]_(Contract!vars)
<1> SUFFICES ASSUME IInv, [Next]_vars PROVE [Contract!Next]_(Contract!vars)
  OBVIOUS
<1>1. CASE QuietStep \/ UNCHANGED vars
  BY <1>1, QuietContract, StutterIsContractStutter
<1>2. CASE BeginClose
  <2>1. CASE dead
    <3>1. UNCHANGED <<chan, taken, ended, dead>>
      BY <1>2, <2>1 DEF BeginClose, dead, connVars
    <3>2. Stutter
      BY <3>1 DEF Stutter, StatusOf, AcceptedOf, ChannelState
    <3> QED
      BY <3>2, StutterIsContractStutter
  <2>2. CASE ~dead
    <3>1. chan' = CloseAll(chan) /\ dead' = TRUE /\ taken' = taken /\ ended' = ended
      BY <1>2, <2>2 DEF BeginClose, dead
    <3> QED
      BY <3>1, ConnectionEndsContract
  <2> QED
    BY <2>1, <2>2
<1>3. CASE ApplyFailed \/ ApplyClosed \/ PumpExit
  <2>1. chan' = CloseAll(chan) /\ dead' = TRUE /\ taken' = taken /\ ended' = ended
    BY <1>3 DEF ApplyFailed, ApplyClosed, PumpExit, ApplyEvent, dead, histVars
  <2> QED
    BY <2>1, ConnectionEndsContract
<1>4. ASSUME NEW t \in Tasks, NEW c \in Channels, ReceiveViaStream(t, c)
      PROVE  [Contract!Next]_(Contract!vars)
  BY <1>4, ReceiveViaStreamContract, StutterIsContractStutter
<1>5. ASSUME NEW t \in Tasks, ReceivePoll(t) \/ StreamPoll(t)
      PROVE  [Contract!Next]_(Contract!vars)
  BY <1>5, ReceivePollContract, StreamPollContract
<1>6. ASSUME NEW c \in Channels, ApplyChannelOpen(c) \/ ApplyChannelClosed(c) \/ ApplyMessage(c)
      PROVE  [Contract!Next]_(Contract!vars)
  BY <1>6, ApplyChannelOpenContract, ApplyChannelClosedContract, ApplyMessageContract
<1> QED
  BY <1>1, <1>2, <1>3, <1>4, <1>5, <1>6
  DEF Next, GuestNext, Poll, CoreNext, PumpStep, QuietStep

\* The runtime implements the contract of inbound messages: messages are handed
\* out in order, without a gap or a repetition, a channel that is over stays so
\* with the ending it had, and a receive reports an ending only once the
\* backlog is drained (wit/webrtc.wit:179-210).
THEOREM RuntimeImplementsContract == Spec => ImplementsContract
<1>1. Init => Contract!Init
  BY InitContract
<1>2. IInv /\ [Next]_vars => [Contract!Next]_(Contract!vars)
  BY StepContract
<1> QED
  BY <1>1, <1>2, IInvHolds, PTL DEF Spec, ImplementsContract, Contract!Spec

\* A channel whose ending was reported is over, with that ending, and drained.
EndedOK ==
  \A c \in Channels :
    ended[c] # "none" => /\ ended[c] = StatusOf(c)
                         /\ StatusOf(c) \in {"closed", "overflow"}
                         /\ taken[c] = AcceptedOf(c)

\* What a step of the contract does to channel c: nothing; something that is not
\* done to a channel that is over; take a message; or report the ending.
LEMMA ContractStepOfChannel ==
  ASSUME ScalarsOK, NEW c \in Channels, [Contract!Next]_(Contract!vars)
  PROVE  \/ /\ StatusOf(c)' = StatusOf(c) /\ AcceptedOf(c)' = AcceptedOf(c)
            /\ taken'[c] = taken[c] /\ ended'[c] = ended[c]
         \/ StatusOf(c) \notin {"closed", "overflow"} /\ ended'[c] = ended[c]
         \/ taken[c] < AcceptedOf(c) /\ ended'[c] = ended[c]
         \/ /\ StatusOf(c) \in {"closed", "overflow"} /\ taken[c] = AcceptedOf(c)
            /\ ended'[c] = StatusOf(c)
            /\ StatusOf(c)' = StatusOf(c) /\ AcceptedOf(c)' = AcceptedOf(c) /\ taken'[c] = taken[c]
<1>1. CASE UNCHANGED Contract!vars
  BY <1>1 DEF Contract!vars, StatusOf, AcceptedOf
<1>2. ASSUME NEW d \in Channels, Contract!Open(d) \/ Contract!Overflow(d)
      PROVE  \/ /\ StatusOf(c)' = StatusOf(c) /\ AcceptedOf(c)' = AcceptedOf(c)
                /\ taken'[c] = taken[c] /\ ended'[c] = ended[c]
             \/ StatusOf(c) \notin {"closed", "overflow"} /\ ended'[c] = ended[c]
  BY <1>2 DEF Contract!Open, Contract!Overflow, StatusOf, AcceptedOf
<1>3. ASSUME NEW d \in Channels, Contract!Accept(d)
      PROVE  \/ /\ StatusOf(c)' = StatusOf(c) /\ AcceptedOf(c)' = AcceptedOf(c)
                /\ taken'[c] = taken[c] /\ ended'[c] = ended[c]
             \/ StatusOf(c) \notin {"closed", "overflow"} /\ ended'[c] = ended[c]
  BY <1>3 DEF Contract!Accept, StatusOf, AcceptedOf
<1>4. ASSUME NEW d \in Channels, Contract!Take(d)
      PROVE  \/ /\ StatusOf(c)' = StatusOf(c) /\ AcceptedOf(c)' = AcceptedOf(c)
                /\ taken'[c] = taken[c] /\ ended'[c] = ended[c]
             \/ taken[c] < AcceptedOf(c) /\ ended'[c] = ended[c]
  BY <1>4 DEF Contract!Take, StatusOf, AcceptedOf, ScalarsOK
<1>5. ASSUME NEW d \in Channels, Contract!Report(d)
      PROVE  \/ /\ StatusOf(c)' = StatusOf(c) /\ AcceptedOf(c)' = AcceptedOf(c)
                /\ taken'[c] = taken[c] /\ ended'[c] = ended[c]
             \/ /\ StatusOf(c) \in {"closed", "overflow"} /\ taken[c] = AcceptedOf(c)
                /\ ended'[c] = StatusOf(c)
                /\ StatusOf(c)' = StatusOf(c) /\ AcceptedOf(c)' = AcceptedOf(c) /\ taken'[c] = taken[c]
  BY <1>5 DEF Contract!Report, Contract!Ending, StatusOf, AcceptedOf, ScalarsOK
<1>6. ASSUME NEW S \in SUBSET Channels, Contract!Close(S)
      PROVE  \/ /\ StatusOf(c)' = StatusOf(c) /\ AcceptedOf(c)' = AcceptedOf(c)
                /\ taken'[c] = taken[c] /\ ended'[c] = ended[c]
             \/ StatusOf(c) \notin {"closed", "overflow"} /\ ended'[c] = ended[c]
  BY <1>6 DEF Contract!Close, Contract!Ending, StatusOf, AcceptedOf
<1> QED
  BY <1>1, <1>2, <1>3, <1>4, <1>5, <1>6 DEF Contract!Next

\* No step of the contract takes a reported ending back, or a message after it.
LEMMA EndedStep ==
  ASSUME IInv, EndedOK, [Contract!Next]_(Contract!vars)
  PROVE  /\ EndedOK'
         /\ \A c \in Channels : ended[c] # "none" => ended'[c] = ended[c] /\ taken'[c] = taken[c]
<1> SUFFICES ASSUME NEW c \in Channels
             PROVE  /\ ended'[c] # "none" => /\ ended'[c] = StatusOf(c)'
                                            /\ StatusOf(c)' \in {"closed", "overflow"}
                                            /\ taken'[c] = AcceptedOf(c)'
                    /\ ended[c] # "none" => ended'[c] = ended[c] /\ taken'[c] = taken[c]
  BY DEF EndedOK
<1>1. /\ ended[c] # "none" => /\ ended[c] = StatusOf(c)
                             /\ StatusOf(c) \in {"closed", "overflow"}
                             /\ taken[c] = AcceptedOf(c)
      /\ taken[c] \in Nat /\ AcceptedOf(c) \in Nat
  BY RecordFacts DEF EndedOK
<1> QED
  BY <1>1, ContractStepOfChannel DEF IInv

\* Once a receive has reported how a channel ended, every later one reports the
\* same and no message of the channel is handed out (wit/webrtc.wit:186-192,
\* 206-210).
THEOREM EndingIsFinalHolds == Spec => EndingIsFinal
<1>1. Init => EndedOK
  BY DEF Init, EndedOK
<1>2. IInv /\ EndedOK /\ [Next]_vars => EndedOK'
  BY StepContract, EndedStep
<1>3. IInv /\ EndedOK /\ [Next]_vars =>
        [\A c \in Channels : ended[c] # "none" => ended'[c] = ended[c] /\ taken'[c] = taken[c]]_vars
  BY StepContract, EndedStep
<1> QED
  BY <1>1, <1>2, <1>3, IInvHolds, PTL DEF Spec, EndingIsFinal
=============================================================================
