------------------------ MODULE WasmtimeChannel_proofs ------------------------
(***************************************************************************)
(* Proofs about WasmtimeChannel, for every set of guest tasks, any sizes    *)
(* and any limit: the budget is exact, and the queue keeps the contract of  *)
(* inbound messages.                                                        *)
(*                                                                          *)
(* The budget's counter is updated one step before a message is pushed and  *)
(* one step after it is popped, by threads that hold no common lock.  It    *)
(* stays exact because the pump alone adds (PumpInv), at most one reader is *)
(* in the middle of a poll (CallInv), and the messages are distinct: the    *)
(* queue holds the consecutive ones after the last one taken (QueueInv).    *)
(* The sums themselves are those of SumLemmas.                              *)
(***************************************************************************)
EXTENDS WasmtimeChannel, SumLemmas

Pumps == {"none", "poll", "add", "push", "latch", "close", "done"}
Ats == {"idle", "receive", "looked", "release", "over", "send", "items", "payload", "item", "failed"}

\* The types of the flags and control states.
ScalarsOK ==
  /\ ready \in {"connecting", "open", "closed"} /\ pump \in Pumps
  /\ open \in {"pending", "sent", "dropped"} /\ wired \in {"pending", "ok", "closed", "other"}
  /\ overflowed \in BOOLEAN /\ claimed \in BOOLEAN /\ closeFlag \in BOOLEAN /\ closeFired \in BOOLEAN
  /\ size \in [1..MaxMsgs -> Nat]
  /\ ended \in {"none", "closed", "overflow"}

\* Where the pump is tells whether the channel opened, and what became of it.
PumpInv ==
  /\ pump = "none" => open = "pending"
  /\ pump \in {"add", "push", "latch"} => ~overflowed /\ open = "sent"
  /\ pump = "close" => overflowed
  /\ overflowed => open = "sent"
  /\ open = "pending" => pump \in {"none", "poll"}
  /\ open = "dropped" => pump = "done"
  /\ open # "sent" => arrived = 0
  /\ wired = "ok" => open = "sent"
  /\ wired \in {"closed", "other"} => pump = "none" \/ open = "dropped"

\* The backlog is consecutive, from the message after the last one taken to the
\* last one that arrived, but for the one in the pump's hands; an overflow ends it.
InHand == pump \in {"add", "push", "latch"}
QueueInv ==
  /\ queue \in Seq(1..MaxMsgs) /\ taken \in 0..MaxMsgs /\ arrived \in 0..MaxMsgs
  /\ \A i \in 1..Len(queue) : queue[i] = taken + i
  /\ taken + Len(queue) <= arrived
  /\ ~overflowed /\ ~InHand => taken + Len(queue) = arrived
  /\ InHand => taken + Len(queue) + 1 = arrived

\* At most one reader is in the middle of a poll, and what it is about to
\* release is the last message taken.
Polled(x) == at[x] \in {"looked", "release"}
CallInv ==
  /\ at \in [Tasks -> Ats] /\ answer \in [Calls -> Answers]
  /\ held \in [Readers -> 0..MaxMsgs] /\ holder \in Readers \union {None}
  /\ \A x, y \in Readers : Polled(x) /\ Polled(y) => x = y
  /\ \A x \in Readers : IF at[x] = "release" THEN held[x] = taken /\ taken # 0 ELSE held[x] = 0

\* The bytes of the messages that are queued, of the one being released, and of
\* the one being pushed.
Held == {held[x] : x \in Readers} \ {0}
Reserved == SumOver(size, ToSet(queue)) + SumOver(size, Held) + (IF pump = "push" THEN size[arrived] ELSE 0)
BudgetInv ==
  /\ buffered = Reserved
  /\ buffered <= Limit
  /\ pump = "add" => buffered + size[arrived] <= Limit

\* The inductive invariant.
IInv == ScalarsOK /\ PumpInv /\ QueueInv /\ CallInv /\ BudgetInv

-----------------------------------------------------------------------------
(* The backlog and its bytes *)

\* What SumLemmas says of sets of messages.  (The provers match SumFacts best
\* while the set has no arithmetic in it.)
Messages == 1..MaxMsgs
LEMMA MessagesFacts ==
  ASSUME IsFiniteSet(Messages), \A m \in Messages : size[m] \in Nat, NEW S \in SUBSET Messages
  PROVE  /\ SumOver(size, S) \in Nat
         /\ SumOver(size, {}) = 0
         /\ \A m \in S : SumOver(size, S) = size[m] + SumOver(size, S \ {m})
         /\ \A m \in Messages \ S : SumOver(size, S \union {m}) = SumOver(size, S) + size[m]
  BY SumFacts

LEMMA BytesFacts ==
  ASSUME ScalarsOK, NEW S \in SUBSET (1..MaxMsgs)
  PROVE  /\ SumOver(size, S) \in Nat
         /\ SumOver(size, {}) = 0
         /\ \A m \in S : SumOver(size, S) = size[m] + SumOver(size, S \ {m})
         /\ \A m \in (1..MaxMsgs) \ S : SumOver(size, S \union {m}) = SumOver(size, S) + size[m]
<1>1. IsFiniteSet(1..MaxMsgs)
  BY SizesAssumption, FS_Interval
<1>2. \A m \in 1..MaxMsgs : size[m] \in Nat
  BY DEF ScalarsOK
<1> QED
  BY <1>1, <1>2, MessagesFacts DEF Messages

\* The messages queued are those after the last one taken, and no more.
LEMMA QueueFacts ==
  ASSUME QueueInv
  PROVE  /\ Len(queue) \in Nat /\ taken \in Nat /\ arrived \in Nat
         /\ ToSet(queue) \in SUBSET (1..MaxMsgs)
         /\ \A m \in ToSet(queue) : m > taken /\ m <= taken + Len(queue)
<1>1. queue \in Seq(1..MaxMsgs) /\ taken \in Nat /\ arrived \in Nat /\ Len(queue) \in Nat
  BY SizesAssumption DEF QueueInv
<1>2. DOMAIN queue = 1..Len(queue) /\ ToSet(queue) \in SUBSET (1..MaxMsgs)
  <2> DEFINE D == 1..MaxMsgs
  <2> HIDE DEF D
  <2>1. queue \in Seq(D)
    BY <1>1 DEF D
  <2>2. DOMAIN queue = 1..Len(queue) /\ \A i \in DOMAIN queue : queue[i] \in D
    BY <2>1
  <2> QED
    BY <2>2 DEF ToSet, D
<1>3. ASSUME NEW m \in ToSet(queue) PROVE m > taken /\ m <= taken + Len(queue)
  <2>1. PICK i \in 1..Len(queue) : m = queue[i]
    BY <1>2 DEF ToSet
  <2>2. m = taken + i
    BY <2>1 DEF QueueInv
  <2> QED
    BY <1>1, <2>2
<1> QED
  BY <1>1, <1>2, <1>3

\* One more message at the end.
LEMMA AppendFacts ==
  ASSUME NEW q \in Seq(1..MaxMsgs), NEW m \in 1..MaxMsgs
  PROVE  /\ Append(q, m) \in Seq(1..MaxMsgs) /\ Len(Append(q, m)) = Len(q) + 1
         /\ \A i \in 1..Len(q) : Append(q, m)[i] = q[i]
         /\ Append(q, m)[Len(q) + 1] = m
         /\ ToSet(Append(q, m)) = ToSet(q) \union {m}
<1>1. /\ Append(q, m) \in Seq(1..MaxMsgs) /\ Len(Append(q, m)) = Len(q) + 1
      /\ \A i \in 1..Len(q) : Append(q, m)[i] = q[i]
      /\ Append(q, m)[Len(q) + 1] = m
  OBVIOUS
<1> DEFINE n == Len(q)
           p == Append(q, m)
<1>2. n \in Nat /\ DOMAIN q = 1..n /\ DOMAIN p = 1..(n + 1) /\ p[n + 1] = m /\ \A i \in 1..n : p[i] = q[i]
  BY <1>1
<1> HIDE DEF n, p
<1>3. /\ \A i \in 1..(n + 1) : i \in 1..n \/ i = n + 1
      /\ n + 1 \in 1..(n + 1) /\ \A i \in 1..n : i \in 1..(n + 1)
  BY <1>2
<1>4. ToSet(p) = ToSet(q) \union {m}
  BY <1>2, <1>3 DEF ToSet
<1> QED
  BY <1>1, <1>4 DEF p

\* The oldest message is the one after the last one taken; without it the rest is.
LEMMA HeadFacts ==
  ASSUME QueueInv, queue # <<>>
  PROVE  /\ Head(queue) = taken + 1 /\ Head(queue) \in ToSet(queue)
         /\ Tail(queue) \in Seq(1..MaxMsgs) /\ Len(queue) > 0 /\ Len(Tail(queue)) = Len(queue) - 1
         /\ \A i \in 1..Len(Tail(queue)) : Tail(queue)[i] = taken + 1 + i
         /\ ToSet(Tail(queue)) = ToSet(queue) \ {Head(queue)}
<1> DEFINE n == Len(queue)
           q == Tail(queue)
<1>1. queue \in Seq(1..MaxMsgs) /\ taken \in Nat
  BY SizesAssumption DEF QueueInv
<1>2. /\ n \in Nat \ {0} /\ DOMAIN queue = 1..n /\ Head(queue) = queue[1]
      /\ q \in Seq(1..MaxMsgs) /\ Len(q) = n - 1 /\ DOMAIN q = 1..(n - 1)
      /\ \A i \in 1..(n - 1) : q[i] = queue[i + 1]
  BY <1>1
<1>3. \A i \in 1..n : queue[i] = taken + i
  BY DEF QueueInv
<1> HIDE DEF n, q
<1>4. 1 \in 1..n /\ \A i \in 1..(n - 1) : i + 1 \in 1..n
  BY <1>2
<1>5. Head(queue) = taken + 1 /\ Head(queue) \in ToSet(queue)
  BY <1>2, <1>3, <1>4 DEF ToSet
<1>6. \A i \in 1..(n - 1) : q[i] = taken + (i + 1) /\ taken + (i + 1) = taken + 1 + i
  BY <1>1, <1>2, <1>3, <1>4
<1>7. ToSet(q) \subseteq ToSet(queue) \ {Head(queue)}
  <2> SUFFICES ASSUME NEW i \in 1..(n - 1) PROVE q[i] \in ToSet(queue) /\ q[i] # Head(queue)
    BY <1>2 DEF ToSet
  <2>1. q[i] = queue[i + 1] /\ i + 1 \in 1..n
    BY <1>2, <1>4
  <2>2. q[i] # taken + 1
    BY <1>1, <1>2, <1>6
  <2> QED
    BY <1>2, <1>5, <2>1, <2>2 DEF ToSet
<1>8. ToSet(queue) \ {Head(queue)} \subseteq ToSet(q)
  <2> SUFFICES ASSUME NEW i \in 1..n, queue[i] # Head(queue) PROVE queue[i] \in ToSet(q)
    BY <1>2 DEF ToSet
  <2>1. i # 1
    BY <1>2
  <2>2. i - 1 \in 1..(n - 1) /\ (i - 1) + 1 = i
    BY <1>2, <2>1
  <2>3. q[i - 1] = queue[i]
    BY <1>2, <2>2
  <2> QED
    BY <1>2, <2>2, <2>3 DEF ToSet
<1>9. n > 0
  BY <1>2
<1> QED
  BY <1>2, <1>5, <1>6, <1>7, <1>8, <1>9 DEF n, q

\* Between polls nothing is being released; in the middle of one, at most one
\* message is.
LEMMA HeldFacts ==
  ASSUME CallInv
  PROVE  /\ ~Polling => Held = {}
         /\ \A x \in Readers : at[x] = "release" => Held = {taken}
         /\ Held \in SUBSET (1..MaxMsgs)
<1>1. \A x \in Readers : held[x] \in 0..MaxMsgs
  BY DEF CallInv
<1>2. Held \in SUBSET (1..MaxMsgs)
  BY <1>1, SizesAssumption DEF Held
<1>3. ASSUME ~Polling PROVE Held = {}
  <2>1. \A x \in Readers : held[x] = 0
    BY <1>3 DEF CallInv, Polling
  <2> QED
    BY <2>1 DEF Held
<1>4. ASSUME NEW x \in Readers, at[x] = "release" PROVE Held = {taken}
  <2>1. held[x] = taken /\ taken # 0
    BY <1>4 DEF CallInv
  <2>2. \A y \in Readers \ {x} : held[y] = 0
    BY <1>4 DEF CallInv, Polled
  <2> QED
    BY <2>1, <2>2 DEF Held
<1> QED
  BY <1>2, <1>3, <1>4

-----------------------------------------------------------------------------
(* The worker threads' side: pump, wiring, wrapper, close signal *)

WorkerStep ==
  SpawnPump \/ WireFails \/ Wire \/ OnOpen \/ OnMessage \/ PumpStep \/ OnClose \/ RemoteClose \/ SetClosed \/ FireClosed

\* None of them touches a call, or what was handed to the guest.
LEMMA WorkerFrame ==
  WorkerStep => UNCHANGED <<size, callVars, claimed, histVars>>
  BY DEF WorkerStep, SpawnPump, WireFails, Wire, OnOpen, OnMessage, PumpStep, Latch, CloseChannel, Add, Push,
         OnClose, RemoteClose, SetClosed, FireClosed, coreVars, pumpVars, budget, closeVars, callVars, histVars

\* So they keep what is said of the calls.
LEMMA WorkerCalls ==
  ASSUME CallInv, WorkerStep PROVE CallInv'
<1>1. UNCHANGED <<at, held, holder, answer, taken>>
  BY WorkerFrame DEF callVars, histVars
<1> QED
  BY <1>1 DEF CallInv, Polled

\* They keep the flags and control states what they are, and the pump's rules.
LEMMA WorkerPump ==
  ASSUME ScalarsOK, PumpInv, QueueInv, WorkerStep PROVE ScalarsOK' /\ PumpInv'
<1> USE DEF coreVars, pumpVars, budget, closeVars, Pumps
<1>1. UNCHANGED <<size, claimed, ended>>
  BY WorkerFrame DEF histVars
<1>2. arrived \in Nat
  BY QueueFacts
<1>3. CASE SpawnPump
  <2>1. /\ pump = "none" /\ wired = "pending" /\ pump' = "poll"
        /\ UNCHANGED <<ready, arrived, open, wired, overflowed, closeFlag, closeFired>>
    BY <1>3 DEF SpawnPump
  <2> QED
    BY <1>1, <2>1 DEF ScalarsOK, PumpInv
<1>4. CASE WireFails \/ Wire
  <2>1. /\ wired' \in {"ok", "closed", "other"}
        /\ wired' = "ok" => open = "sent"
        /\ wired' \in {"closed", "other"} => pump = "none" \/ open \notin {"pending", "sent"}
        /\ UNCHANGED <<ready, arrived, pump, open, overflowed, closeFlag, closeFired>>
    BY <1>4 DEF WireFails, Wire
  <2> QED
    BY <1>1, <2>1 DEF ScalarsOK, PumpInv
<1>5. CASE OnOpen
  <2>1. /\ pump = "poll" /\ open = "pending" /\ ready' = "open" /\ open' = "sent"
        /\ UNCHANGED <<arrived, pump, wired, overflowed, closeFlag, closeFired>>
    BY <1>5 DEF OnOpen
  <2> QED
    BY <1>1, <2>1 DEF ScalarsOK, PumpInv
<1>6. CASE OnMessage
  <2>1. /\ pump = "poll" /\ open = "sent"
        /\ pump' \in {"close", "add", "latch"}
        /\ pump' = "close" <=> overflowed
        /\ UNCHANGED <<ready, open, wired, overflowed, closeFlag, closeFired>>
    BY <1>6 DEF OnMessage
  <2> QED
    BY <1>1, <2>1 DEF ScalarsOK, PumpInv
<1>7. CASE Latch
  <2>1. /\ pump = "latch" /\ overflowed' = TRUE /\ pump' = "close"
        /\ UNCHANGED <<ready, arrived, open, wired, closeFlag, closeFired>>
    BY <1>7 DEF Latch
  <2> QED
    BY <1>1, <2>1 DEF ScalarsOK, PumpInv
<1>8. CASE CloseChannel
  <2>1. /\ pump = "close" /\ ready' = "closed" /\ pump' = "poll"
        /\ UNCHANGED <<arrived, open, wired, overflowed, closeFlag, closeFired>>
    BY <1>8 DEF CloseChannel
  <2> QED
    BY <1>1, <2>1 DEF ScalarsOK, PumpInv
<1>9. CASE Add \/ Push
  <2>1. /\ \/ pump = "add" /\ pump' = "push"
           \/ pump = "push" /\ pump' = "poll"
        /\ UNCHANGED <<ready, arrived, open, wired, overflowed, closeFlag, closeFired>>
    BY <1>9 DEF Add, Push
  <2> QED
    BY <1>1, <2>1 DEF ScalarsOK, PumpInv
<1>10. CASE OnClose
  <2>1. /\ pump = "poll" /\ pump' = "done"
        /\ open' = IF open = "pending" THEN "dropped" ELSE open
        /\ UNCHANGED <<ready, arrived, wired, overflowed, closeFlag, closeFired>>
    BY <1>10 DEF OnClose
  <2> QED
    BY <1>1, <2>1 DEF ScalarsOK, PumpInv
<1>11. CASE RemoteClose \/ SetClosed \/ FireClosed
  <2>1. /\ ready' \in {ready, "closed"} 
        /\ closeFlag' = closeFlag \/ closeFlag' = TRUE
        /\ closeFired' = closeFired \/ closeFired' = TRUE
        /\ UNCHANGED <<arrived, pump, open, wired, overflowed>>
    BY <1>11 DEF RemoteClose, SetClosed, FireClosed
  <2>2. closeFlag' \in BOOLEAN /\ closeFired' \in BOOLEAN
    BY <2>1, Zenon DEF ScalarsOK
  <2> QED
    BY <1>1, <2>1, <2>2 DEF ScalarsOK, PumpInv
<1> QED
  BY <1>3, <1>4, <1>5, <1>6, <1>7, <1>8, <1>9, <1>10, <1>11 DEF WorkerStep, PumpStep

\* A step that neither adds to the counter nor pushes a message.
LEMMA WorkerQuiet ==
  ASSUME ScalarsOK, QueueInv, BudgetInv,
         UNCHANGED <<size, held, taken, queue, arrived, buffered>>, pump' \in Pumps \ {"add", "push"},
         pump \notin {"add", "push"},
         InHand' => InHand, ~overflowed' => ~overflowed, InHand => InHand' \/ overflowed'
  PROVE  QueueInv' /\ BudgetInv'
<1>1. QueueInv'
  BY DEF QueueInv
<1>2. BudgetInv'
  BY DEF BudgetInv, Reserved, Held
<1> QED
  BY <1>1, <1>2

\* The workers keep the backlog consecutive and the budget exact.
LEMMA WorkerBudget ==
  ASSUME ScalarsOK, PumpInv, QueueInv, CallInv, BudgetInv, WorkerStep
  PROVE  QueueInv' /\ BudgetInv'
<1> USE DEF coreVars, pumpVars, budget, closeVars
<1>1. UNCHANGED <<size, held, taken>>
  BY WorkerFrame DEF callVars, histVars
<1>2. CASE SpawnPump \/ WireFails \/ Wire \/ OnOpen \/ Latch \/ CloseChannel \/ OnClose
           \/ RemoteClose \/ SetClosed \/ FireClosed
  <2>1. /\ UNCHANGED <<queue, arrived, buffered>>
        /\ \/ UNCHANGED <<pump, overflowed>>
           \/ pump = "none" /\ pump' = "poll" /\ UNCHANGED overflowed
           \/ pump = "latch" /\ pump' = "close" /\ overflowed' = TRUE
           \/ pump = "close" /\ pump' = "poll" /\ UNCHANGED overflowed
           \/ pump = "poll" /\ pump' = "done" /\ UNCHANGED overflowed
    BY <1>2 DEF SpawnPump, WireFails, Wire, OnOpen, Latch, CloseChannel, OnClose, RemoteClose, SetClosed, FireClosed
  <2>2. CASE UNCHANGED <<pump, overflowed>>
    BY <1>1, <2>1, <2>2 DEF QueueInv, InHand, BudgetInv, Reserved, Held
  <2>3. CASE ~UNCHANGED <<pump, overflowed>>
    <3>1. /\ pump' \in Pumps \ {"add", "push"} /\ pump \notin {"add", "push"}
          /\ InHand' => InHand
          /\ ~overflowed' => ~overflowed
          /\ InHand => InHand' \/ overflowed'
      BY <2>1, <2>3 DEF InHand, Pumps
    <3> QED
      BY <1>1, <2>1, <3>1, WorkerQuiet
  <2> QED
    BY <2>2, <2>3
<1>3. CASE OnMessage
  <2>1. /\ pump = "poll" /\ arrived < MaxMsgs /\ arrived' = arrived + 1
        /\ pump' = IF overflowed THEN "close" ELSE IF buffered + size[arrived'] <= Limit THEN "add" ELSE "latch"
        /\ UNCHANGED <<queue, buffered, overflowed>>
    BY <1>3 DEF OnMessage, Fits
  <2>2. taken \in Nat /\ Len(queue) \in Nat /\ arrived + 1 \in 0..MaxMsgs
    BY <2>1, QueueFacts, SizesAssumption
  <2>3. QueueInv'
    BY <1>1, <2>1, <2>2 DEF QueueInv, InHand
  <2>4. BudgetInv'
    BY <1>1, <2>1 DEF BudgetInv, Reserved, Held
  <2> QED
    BY <2>3, <2>4
<1>4. CASE Add
  <2>1. /\ pump = "add" /\ buffered' = buffered + size[arrived] /\ pump' = "push"
        /\ UNCHANGED <<queue, arrived, overflowed>>
    BY <1>4 DEF Add
  <2>2. QueueInv'
    BY <1>1, <2>1 DEF QueueInv, InHand
  <2>3. SumOver(size, ToSet(queue)) \in Nat /\ SumOver(size, Held) \in Nat
    BY BytesFacts, QueueFacts, HeldFacts
  <2>4. buffered = SumOver(size, ToSet(queue)) + SumOver(size, Held) + 0
    BY <2>1 DEF BudgetInv, Reserved
  <2>5. ToSet(queue)' = ToSet(queue) /\ Held' = Held
    BY <1>1, <2>1 DEF Held
  <2>6. buffered' = Reserved'
    <3>1. Reserved' = SumOver(size, ToSet(queue)) + SumOver(size, Held) + size[arrived]
      BY <1>1, <2>1, <2>5 DEF Reserved
    <3> QED
      BY <2>1, <2>3, <2>4, <3>1
  <2>7. BudgetInv'
    BY <1>1, <2>1, <2>6 DEF BudgetInv
  <2> QED
    BY <2>2, <2>7
<1>5. CASE Push
  <2>1. /\ pump = "push" /\ queue' = Append(queue, arrived) /\ pump' = "poll"
        /\ UNCHANGED <<arrived, buffered, overflowed>>
    BY <1>5 DEF Push
  <2>2. /\ InHand /\ taken \in Nat /\ Len(queue) \in Nat /\ taken + Len(queue) + 1 = arrived
        /\ arrived \in 1..MaxMsgs /\ queue \in Seq(1..MaxMsgs)
    BY <2>1, QueueFacts DEF QueueInv, InHand
  <2>3. /\ queue' \in Seq(1..MaxMsgs) /\ Len(queue') = Len(queue) + 1
        /\ \A i \in 1..Len(queue) : queue'[i] = queue[i]
        /\ queue'[Len(queue) + 1] = arrived
        /\ ToSet(queue') = ToSet(queue) \union {arrived}
    BY <2>1, <2>2, AppendFacts
  <2>4. QueueInv'
    <3>1. \A i \in 1..(Len(queue) + 1) : queue'[i] = taken + i
      <4>1. \A i \in 1..(Len(queue) + 1) : i \in 1..Len(queue) \/ i = Len(queue) + 1
        BY <2>2
      <4> QED
        BY <2>2, <2>3, <4>1 DEF QueueInv
    <3>2. taken + (Len(queue) + 1) = arrived
      BY <2>2
    <3> QED
      BY <1>1, <2>1, <2>2, <2>3, <3>1, <3>2 DEF QueueInv, InHand
  <2>5. arrived \notin ToSet(queue)
    BY <2>2, QueueFacts
  <2>6. SumOver(size, ToSet(queue')) = SumOver(size, ToSet(queue)) + size[arrived]
    BY <2>2, <2>3, <2>5, BytesFacts, QueueFacts
  <2>7. SumOver(size, ToSet(queue)) \in Nat /\ SumOver(size, Held) \in Nat /\ size[arrived] \in Nat
    BY <2>2, BytesFacts, QueueFacts, HeldFacts DEF ScalarsOK
  <2>8. buffered = SumOver(size, ToSet(queue)) + SumOver(size, Held) + size[arrived]
    BY <2>1 DEF BudgetInv, Reserved
  <2>9. Reserved' = SumOver(size, ToSet(queue')) + SumOver(size, Held) + 0
    BY <1>1, <2>1 DEF Reserved, Held
  <2>10. buffered' = Reserved'
    BY <2>1, <2>6, <2>7, <2>8, <2>9
  <2> QED
    BY <1>1, <2>1, <2>4, <2>10 DEF BudgetInv
<1> QED
  BY <1>2, <1>3, <1>4, <1>5 DEF WorkerStep, PumpStep

-----------------------------------------------------------------------------
(* The event loop's side: calls, polls and the stream *)

GuestStep ==
  \/ ReceiveViaStream \/ DropStream
  \/ \E x \in Readers : Poll(x)
  \/ \E r \in Receivers : Receive(r)
  \/ \E r \in Senders : Send(r) \/ SendViaStream(r) \/ Sending(r)

\* None of them touches the pump, the wiring or the close signal.
LEMMA GuestFrame ==
  GuestStep => UNCHANGED <<coreVars, pump, open, wired, overflowed, closeVars>>
<1> USE DEF coreVars, pumpVars, budget, closeVars, callVars, histVars
<1>1. \A x \in Readers : Poll(x) => UNCHANGED <<coreVars, pump, open, wired, overflowed, closeVars>>
  BY DEF Poll, Look, Release, Signals
<1>2. ReceiveViaStream \/ DropStream => UNCHANGED <<coreVars, pump, open, wired, overflowed, closeVars>>
  BY DEF ReceiveViaStream, DropStream
<1>3. \A r \in Receivers : Receive(r) => UNCHANGED <<coreVars, pump, open, wired, overflowed, closeVars>>
  BY DEF Receive
<1>4. \A r \in Senders : Send(r) \/ SendViaStream(r) \/ Sending(r)
        => UNCHANGED <<coreVars, pump, open, wired, overflowed, closeVars>>
  BY DEF Send, SendViaStream, Sending, Item, Collect, Transport, Classify, SendUnwired
<1> QED
  BY <1>1, <1>2, <1>3, <1>4 DEF GuestStep

\* A step of task x that moves no message: it goes to control state s.
Quiet(x, s) ==
  /\ at' = [at EXCEPT ![x] = s]
  /\ at[x] # "release" /\ s \in Ats \ {"release"}
  /\ s = "looked" => ~Polling
  /\ answer' \in [Calls -> Answers] /\ holder' \in Readers \union {None}
  /\ UNCHANGED <<held, queue, taken, buffered>>

\* What Return does, for whoever is not in the middle of a release.
LEMMA ReturnIsQuiet ==
  ASSUME CallInv, NEW x \in Tasks, NEW a \in Answers, Return(x, a), at[x] # "release",
         UNCHANGED <<queue, taken, buffered>>
  PROVE  \E s \in {"over", "idle"} : Quiet(x, s)
<1>1. /\ at' = [at EXCEPT ![x] = IF x = Stream THEN "over" ELSE "idle"]
      /\ answer' = IF x = Stream THEN answer ELSE [answer EXCEPT ![x] = a]
      /\ holder' \in {None, holder} /\ held' = held
  BY DEF Return, Unlocked
<1>2. answer \in [Calls -> Answers] /\ holder \in Readers \union {None}
  BY DEF CallInv
<1>3. answer' \in [Calls -> Answers]
  BY <1>1, <1>2
<1>4. holder' \in Readers \union {None}
  BY <1>1, <1>2
<1> QED
  BY <1>1, <1>3, <1>4 DEF Quiet, Ats

\* What a call that begins or goes on does.
LEMMA MoveIsQuiet ==
  ASSUME CallInv, NEW x \in Tasks, NEW s \in Ats \ {"release"}, at' = [at EXCEPT ![x] = s], at[x] # "release",
         s = "looked" => ~Polling,
         answer' = answer \/ (x \in Calls /\ answer' = [answer EXCEPT ![x] = "none"]),
         holder' \in {holder, x} /\ (holder' = x => x \in Readers \/ holder = x),
         UNCHANGED <<held, queue, taken, buffered>>
  PROVE  Quiet(x, s)
<1>1. answer \in [Calls -> Answers] /\ holder \in Readers \union {None}
  BY DEF CallInv
<1>2. answer' \in [Calls -> Answers]
  BY <1>1 DEF Answers
<1>3. holder' \in Readers \union {None}
  BY <1>1
<1> QED
  BY <1>2, <1>3 DEF Quiet

\* A step that moves no message keeps every invariant.
LEMMA QuietOK ==
  ASSUME ScalarsOK, PumpInv, QueueInv, CallInv, BudgetInv, NEW x \in Tasks, NEW s, Quiet(x, s),
         UNCHANGED <<coreVars, pump, open, wired, overflowed, closeVars>>
  PROVE  QueueInv' /\ CallInv' /\ BudgetInv'
<1> USE DEF coreVars, closeVars
<1>1. at' = [at EXCEPT ![x] = s] /\ at[x] # "release" /\ s \in Ats \ {"release"} /\ (s = "looked" => ~Polling)
  BY DEF Quiet
<1>2. UNCHANGED <<held, queue, taken, buffered, size, arrived, pump, overflowed>>
  BY DEF Quiet
<1>3. at \in [Tasks -> Ats]
  BY DEF CallInv
<1>4. at' \in [Tasks -> Ats] /\ at'[x] = s /\ \A y \in Tasks \ {x} : at'[y] = at[y]
  BY <1>1, <1>3
<1>5. \A y \in Readers : y \in Tasks
  BY DEF Readers, Tasks, Calls
<1>6. ASSUME NEW y \in Readers, NEW z \in Readers, Polled(y)', Polled(z)' PROVE y = z
  <2>1. CASE s = "looked"
    BY <1>1, <1>4, <1>5, <1>6, <2>1 DEF Polled, Polling
  <2>2. CASE s # "looked"
    <3>1. y # x /\ z # x
      BY <1>1, <1>4, <1>6, <2>2 DEF Polled
    <3>2. Polled(y) /\ Polled(z)
      BY <1>4, <1>5, <1>6, <3>1 DEF Polled
    <3> QED
      BY <3>2 DEF CallInv
  <2> QED
    BY <2>1, <2>2
<1>7. \A y \in Readers : IF at'[y] = "release" THEN held'[y] = taken' /\ taken' # 0 ELSE held'[y] = 0
  <2> TAKE y \in Readers
  <2>1. at'[y] = "release" <=> at[y] = "release"
    BY <1>1, <1>4, <1>5
  <2> QED
    BY <1>2, <2>1 DEF CallInv
<1>8. CallInv'
  BY <1>2, <1>4, <1>6, <1>7 DEF CallInv, Quiet
<1>9. QueueInv'
  BY <1>2 DEF QueueInv, InHand
<1>10. BudgetInv'
  BY <1>2 DEF BudgetInv, Reserved, Held
<1> QED
  BY <1>8, <1>9, <1>10

\* Taking a message: it leaves the queue and is held, its bytes still reserved.
LEMMA TakeOK ==
  ASSUME ScalarsOK, PumpInv, QueueInv, CallInv, BudgetInv, NEW x \in Readers, ~Polling, TakeMessage(x),
         UNCHANGED <<coreVars, pump, open, wired, budget, closeVars>>
  PROVE  QueueInv' /\ CallInv' /\ BudgetInv'
<1> USE DEF coreVars, closeVars, budget
<1> DEFINE m == Head(queue)
<1>1. /\ queue # <<>> /\ queue' = Tail(queue) /\ held' = [held EXCEPT ![x] = m] /\ taken' = m
      /\ at' = [at EXCEPT ![x] = "release"] /\ holder' = x /\ answer' = answer
      /\ UNCHANGED <<size, arrived, pump, overflowed, buffered>>
  BY DEF TakeMessage
<1>2. /\ m = taken + 1 /\ m \in ToSet(queue) /\ m \in 1..MaxMsgs
      /\ Tail(queue) \in Seq(1..MaxMsgs) /\ Len(queue) > 0 /\ Len(Tail(queue)) = Len(queue) - 1
      /\ \A i \in 1..Len(Tail(queue)) : Tail(queue)[i] = taken + 1 + i
      /\ ToSet(Tail(queue)) = ToSet(queue) \ {m}
  BY <1>1, HeadFacts, QueueFacts
<1>3. Len(queue) \in Nat /\ taken \in Nat
  BY QueueFacts
<1> HIDE DEF m
<1>4. QueueInv'
  <2>1. taken' = taken + 1 /\ taken' \in 0..MaxMsgs
    BY <1>1, <1>2
  <2>2. taken' + Len(queue') = taken + Len(queue)
    BY <1>1, <1>2, <1>3
  <2> QED
    BY <1>1, <1>2, <2>1, <2>2 DEF QueueInv, InHand
<1>5. /\ at \in [Tasks -> Ats] /\ held \in [Readers -> 0..MaxMsgs] /\ x \in Tasks
      /\ \A y \in Readers : y \in Tasks
  BY DEF CallInv, Readers, Tasks, Calls
<1>6. \A y \in Readers : at[y] \notin {"looked", "release"}
  BY DEF Polling
<1>7. CallInv'
  <2>1. at' \in [Tasks -> Ats] /\ at'[x] = "release" /\ \A y \in Tasks \ {x} : at'[y] = at[y]
    BY <1>1, <1>5 DEF Ats
  <2>2. held' \in [Readers -> 0..MaxMsgs] /\ held'[x] = m /\ \A y \in Readers \ {x} : held'[y] = held[y]
    BY <1>1, <1>2, <1>5
  <2>3. \A y \in Readers \ {x} : held[y] = 0 /\ ~Polled(y)'
    BY <1>5, <1>6, <2>1 DEF CallInv, Polled
  <2>4. m # 0
    BY <1>2
  <2>5. \A y \in Readers : IF at'[y] = "release" THEN held'[y] = taken' /\ taken' # 0 ELSE held'[y] = 0
    BY <1>1, <1>5, <1>6, <2>1, <2>2, <2>3, <2>4
  <2>6. \A y, z \in Readers : Polled(y)' /\ Polled(z)' => y = z
    BY <2>3
  <2>7. answer' \in [Calls -> Answers] /\ holder' \in Readers \union {None}
    BY <1>1 DEF CallInv
  <2> QED
    BY <2>1, <2>2, <2>5, <2>6, <2>7 DEF CallInv
<1>8. BudgetInv'
  <2>1. Held = {}
    BY HeldFacts
  <2>2. Held' = {m}
    <3>1. at'[x] = "release"
      BY <1>1, <1>5
    <3>2. Held' = {taken'}
      <4>1. held'[x] = taken' /\ taken' # 0
        BY <1>7, <3>1 DEF CallInv
      <4>2. \A y \in Readers \ {x} : held'[y] = 0
        BY <1>7, <3>1 DEF CallInv, Polled
      <4> QED
        BY <4>1, <4>2 DEF Held
    <3> QED
      BY <1>1, <3>2
  <2>3. {m} \in SUBSET (1..MaxMsgs) /\ {m} \ {m} = {}
    BY <1>2
  <2>4. SumOver(size, {m}) = size[m] + SumOver(size, {m} \ {m}) /\ SumOver(size, {}) = 0
    BY <2>3, BytesFacts
  <2>5. SumOver(size, ToSet(queue)) = size[m] + SumOver(size, ToSet(queue) \ {m})
    BY <1>2, BytesFacts, QueueFacts
  <2>6. SumOver(size, ToSet(queue) \ {m}) \in Nat /\ size[m] \in Nat
    BY <1>2, BytesFacts, QueueFacts DEF ScalarsOK
  <2>7. Reserved = SumOver(size, ToSet(queue)) + 0 + (IF pump = "push" THEN size[arrived] ELSE 0)
    BY <2>1, <2>4 DEF Reserved
  <2>8. Reserved' = SumOver(size, ToSet(queue) \ {m}) + SumOver(size, {m}) + (IF pump = "push" THEN size[arrived] ELSE 0)
    BY <1>1, <1>2, <2>2 DEF Reserved
  <2>9. SumOver(size, {m}) = size[m] + 0
    BY <2>3, <2>4
  <2>10. Reserved' = Reserved
    BY <2>5, <2>6, <2>7, <2>8, <2>9
  <2> QED
    BY <1>1, <2>10 DEF BudgetInv
<1> QED
  BY <1>4, <1>7, <1>8

\* Releasing it: the bytes of exactly that message are given back.
LEMMA ReleaseOK ==
  ASSUME ScalarsOK, PumpInv, QueueInv, CallInv, BudgetInv, NEW x \in Readers, Release(x)
  PROVE  QueueInv' /\ CallInv' /\ BudgetInv'
<1> USE DEF coreVars, closeVars, budget, pumpVars, histVars
<1> DEFINE m == held[x]
           s == IF x = Stream THEN "receive" ELSE "idle"
<1>1. /\ at[x] = "release" /\ buffered' = buffered - size[m] /\ held' = [held EXCEPT ![x] = 0]
      /\ at' = [at EXCEPT ![x] = s] /\ holder' = None
      /\ answer' = IF x = Stream THEN answer ELSE [answer EXCEPT ![x] = "message"]
      /\ UNCHANGED <<size, arrived, pump, overflowed, queue, taken>>
  BY DEF Release
<1>2. /\ at \in [Tasks -> Ats] /\ held \in [Readers -> 0..MaxMsgs] /\ x \in Tasks
      /\ \A y \in Readers : y \in Tasks
      /\ m = taken /\ m # 0 /\ m \in 1..MaxMsgs
      /\ answer \in [Calls -> Answers]
  BY <1>1, SizesAssumption DEF CallInv, Readers, Tasks, Calls
<1>3. s \in Ats \ {"looked", "release"}
  BY DEF Ats
<1> HIDE DEF m, s
<1>4. QueueInv'
  BY <1>1 DEF QueueInv, InHand
<1>5. CallInv'
  <2>1. at' \in [Tasks -> Ats] /\ at'[x] = s /\ \A y \in Tasks \ {x} : at'[y] = at[y]
    BY <1>1, <1>2, <1>3
  <2>2. held' \in [Readers -> 0..MaxMsgs] /\ held'[x] = 0 /\ \A y \in Readers \ {x} : held'[y] = held[y]
    BY <1>1, <1>2, SizesAssumption
  <2>3. \A y \in Readers \ {x} : ~Polled(y) /\ held[y] = 0
    BY <1>1 DEF CallInv, Polled
  <2>4. \A y \in Readers : ~Polled(y)' /\ at'[y] # "release" /\ held'[y] = 0
    BY <1>2, <1>3, <2>1, <2>2, <2>3 DEF Polled
  <2>5. answer' \in [Calls -> Answers]
    BY <1>1, <1>2 DEF Answers
  <2> QED
    BY <1>1, <2>1, <2>2, <2>4, <2>5 DEF CallInv
<1>6. BudgetInv'
  <2>1. Held = {m}
    BY <1>1, <1>2, HeldFacts
  <2>2. Held' = {}
    <3>1. \A y \in Readers : held'[y] = 0
      <4>1. \A y \in Readers \ {x} : held[y] = 0
        BY <1>1 DEF CallInv, Polled
      <4> QED
        BY <1>1, <1>2, <4>1
    <3> QED
      BY <3>1 DEF Held
  <2>3. {m} \in SUBSET (1..MaxMsgs) /\ {m} \ {m} = {}
    BY <1>2
  <2>4. SumOver(size, {m}) = size[m] + SumOver(size, {m} \ {m}) /\ SumOver(size, {}) = 0
    BY <2>3, BytesFacts
  <2>5. SumOver(size, {m}) = size[m] + 0
    BY <2>3, <2>4
  <2> DEFINE p == IF pump = "push" THEN size[arrived] ELSE 0
             q == SumOver(size, ToSet(queue))
  <2>6. q \in Nat /\ size[m] \in Nat
    BY <1>2, BytesFacts, QueueFacts DEF ScalarsOK
  <2>7. p \in Nat
    <3>1. pump = "push" => arrived \in 1..MaxMsgs
      BY QueueFacts DEF QueueInv, InHand
    <3> QED
      BY <3>1 DEF ScalarsOK
  <2>8. Reserved = q + SumOver(size, {m}) + p
    BY <2>1 DEF Reserved
  <2>9. Reserved' = q + SumOver(size, {}) + p
    BY <1>1, <2>2 DEF Reserved
  <2> HIDE DEF p, q
  <2>10. buffered = q + size[m] + p /\ buffered \in Nat
    BY <2>5, <2>6, <2>7, <2>8 DEF BudgetInv
  <2>11. buffered' = Reserved' /\ buffered' <= buffered /\ buffered' \in Nat
    BY <1>1, <2>4, <2>6, <2>7, <2>9, <2>10
  <2>12. Limit \in Nat /\ (pump = "add" => size[arrived] \in Nat)
    <3>1. pump = "add" => arrived \in 1..MaxMsgs
      BY QueueFacts DEF QueueInv, InHand
    <3> QED
      BY <3>1, SizesAssumption DEF ScalarsOK
  <2> QED
    BY <1>1, <2>10, <2>11, <2>12 DEF BudgetInv
<1> QED
  BY <1>4, <1>5, <1>6

\* The types that the guest's steps can touch.
LEMMA GuestScalars ==
  ASSUME ScalarsOK, PumpInv, GuestStep PROVE ScalarsOK' /\ PumpInv'
<1> USE DEF coreVars, pumpVars, budget, closeVars, callVars, histVars
<1>1. UNCHANGED <<ready, size, arrived, pump, open, wired, overflowed, closeFlag, closeFired>>
  BY GuestFrame
<1>2. claimed' = claimed \/ claimed' = TRUE
  <2>1. \A x \in Readers : Poll(x) => claimed' = claimed
    BY DEF Poll, Look, Release, Signals
  <2>2. \A r \in Receivers : Receive(r) => claimed' = claimed
    BY DEF Receive
  <2>3. \A r \in Senders : Send(r) \/ SendViaStream(r) \/ Sending(r) => claimed' = claimed
    BY DEF Send, SendViaStream, Sending, Item, Collect, Transport, Classify, SendUnwired
  <2> QED
    BY <2>1, <2>2, <2>3 DEF GuestStep, ReceiveViaStream, DropStream
<1>3. ended' \in {"none", "closed", "overflow"}
  <2>1. \A x \in Readers : Poll(x) => ended' \in {ended, "closed", "overflow"}
    <3>1. \A x \in Readers : Look(x) => ended' \in {ended, "closed", "overflow"}
      BY DEF Look, TakeMessage, QueueEnds, QueueEnding, WiringFailed, NotReady
    <3> QED
      BY <3>1 DEF Poll, Release, Signals
  <2>2. \A r \in Receivers : Receive(r) => ended' = ended
    BY DEF Receive
  <2>3. \A r \in Senders : Send(r) \/ SendViaStream(r) \/ Sending(r) => ended' = ended
    BY DEF Send, SendViaStream, Sending, Item, Collect, Transport, Classify, SendUnwired
  <2>4. ended' \in {ended, "closed", "overflow"}
    BY <2>1, <2>2, <2>3 DEF GuestStep, ReceiveViaStream, DropStream
  <2> QED
    BY <2>4 DEF ScalarsOK
<1>4. claimed' \in BOOLEAN
  BY <1>2, Zenon DEF ScalarsOK
<1>5. ScalarsOK'
  BY <1>1, <1>3, <1>4 DEF ScalarsOK
<1>6. PumpInv'
  BY <1>1 DEF PumpInv
<1> QED
  BY <1>5, <1>6

\* A look that takes no message, and the signals, are quiet.
LEMMA LookQuiet ==
  ASSUME ScalarsOK, CallInv, NEW x \in Readers, Look(x), ~TakeMessage(x)
  PROVE  \E s \in {"over", "idle", "looked"} : Quiet(x, s)
<1> USE DEF coreVars, closeVars, budget, histVars
<1>1. x \in Tasks /\ at[x] = "receive" /\ ~Polling /\ buffered' = buffered
  BY DEF Look, Readers, Tasks, Calls
<1>2. CASE QueueEnds(x) \/ WiringFailed(x)
  <2>1. PICK a \in Answers : Return(x, a) /\ UNCHANGED <<queue, taken>>
    <3>1. QueueEnding \in Answers /\ (WiringFailed(x) => wired \in Answers)
      BY DEF QueueEnding, Answers, WiringFailed
    <3> QED
      BY <1>2, <3>1 DEF QueueEnds, WiringFailed
  <2> QED
    BY <1>1, <2>1, ReturnIsQuiet
<1>3. CASE NotReady(x)
  <2>1. /\ at' = [at EXCEPT ![x] = "looked"] /\ holder' \in {x, holder} /\ answer' = answer
        /\ UNCHANGED <<held, queue, taken>>
    BY <1>3 DEF NotReady
  <2>2. Quiet(x, "looked")
    BY <1>1, <2>1, MoveIsQuiet DEF Ats
  <2> QED
    BY <2>2
<1> QED
  BY <1>2, <1>3 DEF Look

\* Every step of the guest takes a message, releases one, or is quiet.
LEMMA GuestCases ==
  ASSUME ScalarsOK, CallInv, GuestStep
  PROVE  \/ \E x \in Readers : ~Polling /\ TakeMessage(x) /\ UNCHANGED <<coreVars, pump, open, wired, budget, closeVars>>
         \/ \E x \in Readers : Release(x)
         \/ \E x \in Tasks, s \in Ats : Quiet(x, s)
<1> USE DEF coreVars, pumpVars, closeVars, budget, histVars
<1>1. /\ \A x \in Readers : x \in Tasks
      /\ Receivers \subseteq Calls /\ Senders \subseteq Calls /\ Receivers \subseteq Tasks /\ Senders \subseteq Tasks
      /\ Stream \in Tasks /\ Stream \in Readers
      /\ {"over", "idle", "looked", "receive", "send", "items", "payload", "item", "failed"} \subseteq Ats \ {"release"}
  BY DEF Readers, Tasks, Calls, Ats
<1>2. ASSUME NEW x \in Readers, Poll(x)
      PROVE  \/ ~Polling /\ TakeMessage(x) /\ UNCHANGED <<coreVars, pump, open, wired, budget, closeVars>>
             \/ Release(x)
             \/ \E s \in Ats : Quiet(x, s)
  <2>1. CASE Look(x)
    BY <1>1, <2>1, LookQuiet DEF Look
  <2>2. CASE Signals(x)
    <3>1. at[x] = "looked" /\ UNCHANGED <<queue, taken, buffered>>
      BY <2>2 DEF Signals
    <3>2. CASE \E a \in {"claimed", "closed"} : Return(x, a)
      <4>1. PICK a \in Answers : Return(x, a)
        BY <3>2 DEF Answers
      <4> QED
        BY <1>1, <3>1, <4>1, ReturnIsQuiet
    <3>3. CASE at' = [at EXCEPT ![x] = "receive"] /\ UNCHANGED <<held, holder, answer>>
      <4>1. Quiet(x, "receive")
        BY <1>1, <3>1, <3>3, MoveIsQuiet
      <4> QED
        BY <1>1, <4>1
    <3> QED
      BY <2>2, <3>2, <3>3 DEF Signals
  <2> QED
    BY <1>2, <2>1, <2>2 DEF Poll
<1>3. CASE ReceiveViaStream
  <2>1. Quiet(Stream, "receive")
    <3>1. ~Polling /\ at' = [at EXCEPT ![Stream] = "receive"] /\ UNCHANGED <<held, holder, answer, queue, taken, buffered>>
      BY <1>3 DEF ReceiveViaStream
    <3> QED
      BY <1>1, <3>1, MoveIsQuiet DEF Polling
  <2> QED
    BY <1>1, <2>1
<1>4. CASE DropStream
  <2>1. at[Stream] = "receive" /\ Return(Stream, "none") /\ UNCHANGED <<queue, taken, buffered>>
    BY <1>4 DEF DropStream
  <2> QED
    BY <1>1, <2>1, ReturnIsQuiet DEF Answers
<1>5. ASSUME NEW r \in Receivers, Receive(r) PROVE \E s \in Ats : Quiet(r, s)
  <2>1. at[r] = "idle" /\ UNCHANGED <<queue, taken, buffered>>
    BY <1>5 DEF Receive
  <2>2. CASE Return(r, "claimed")
    BY <1>1, <2>1, <2>2, ReturnIsQuiet DEF Answers
  <2>3. CASE at' = [at EXCEPT ![r] = "receive"] /\ answer' = [answer EXCEPT ![r] = "none"] /\ UNCHANGED <<held, holder>>
    <3>1. Quiet(r, "receive")
      BY <1>1, <2>1, <2>3, MoveIsQuiet
    <3> QED
      BY <1>1, <3>1
  <2> QED
    BY <1>5, <2>2, <2>3 DEF Receive
<1>6. ASSUME NEW r \in Senders, Send(r) \/ SendViaStream(r) \/ Sending(r) PROVE \E s \in Ats : Quiet(r, s)
  <2>1. at[r] # "release" /\ UNCHANGED <<queue, taken, buffered>>
    BY <1>6 DEF Send, SendViaStream, Sending, Item, Collect, Transport, Classify, SendUnwired
  <2>2. \/ \E a \in Answers : Return(r, a)
        \/ \E s \in {"send", "items", "payload", "item", "failed"} :
             /\ at' = [at EXCEPT ![r] = s] /\ UNCHANGED <<held, holder>>
             /\ answer' = answer \/ answer' = [answer EXCEPT ![r] = "none"]
    <3>1. CASE Send(r)
      BY <3>1 DEF Send, Answers
    <3>2. CASE SendViaStream(r)
      BY <3>2 DEF SendViaStream
    <3>3. CASE Item(r)
      BY <3>3 DEF Item, Answers
    <3>4. CASE Transport(r)
      BY <3>4 DEF Transport, Answers
    <3>5. CASE Classify(r) \/ SendUnwired(r) \/ Collect(r)
      BY <3>5 DEF Classify, SendUnwired, Collect, Answers
    <3> QED
      BY <1>6, <3>1, <3>2, <3>3, <3>4, <3>5 DEF Sending
  <2>3. CASE \E a \in Answers : Return(r, a)
    BY <1>1, <2>1, <2>3, ReturnIsQuiet
  <2>4. CASE \E s \in {"send", "items", "payload", "item", "failed"} :
               /\ at' = [at EXCEPT ![r] = s] /\ UNCHANGED <<held, holder>>
               /\ answer' = answer \/ answer' = [answer EXCEPT ![r] = "none"]
    <3>1. PICK s \in {"send", "items", "payload", "item", "failed"} :
                 /\ at' = [at EXCEPT ![r] = s] /\ UNCHANGED <<held, holder>>
                 /\ answer' = answer \/ answer' = [answer EXCEPT ![r] = "none"]
      BY <2>4
    <3>2. s # "looked" /\ s \in Ats \ {"release"}
      BY <1>1
    <3>3. Quiet(r, s)
      BY <1>1, <2>1, <3>1, <3>2, MoveIsQuiet
    <3> QED
      BY <3>2, <3>3
  <2> QED
    BY <2>2, <2>3, <2>4
<1> QED
  BY <1>1, <1>2, <1>3, <1>4, <1>5, <1>6 DEF GuestStep

\* So the guest's steps keep the backlog, the calls and the budget as they ought to be.
LEMMA GuestBudget ==
  ASSUME ScalarsOK, PumpInv, QueueInv, CallInv, BudgetInv, GuestStep
  PROVE  QueueInv' /\ CallInv' /\ BudgetInv'
<1>1. UNCHANGED <<coreVars, pump, open, wired, overflowed, closeVars>>
  BY GuestFrame
<1> QED
  BY <1>1, GuestCases, QuietOK, TakeOK, ReleaseOK

-----------------------------------------------------------------------------
(* The invariant, and the properties that follow from it *)

\* The invariant holds initially, whatever the sizes of the messages.
LEMMA InitOK == Init => IInv
<1> SUFFICES ASSUME Init PROVE IInv
  OBVIOUS
<1>1. ScalarsOK /\ PumpInv
  BY SizesAssumption DEF Init, ScalarsOK, PumpInv, Pumps
<1>2. queue = <<>> /\ Len(queue) = 0 /\ taken = 0 /\ arrived = 0 /\ pump = "none" /\ MaxMsgs \in Nat
  BY SizesAssumption DEF Init
<1>3. QueueInv
  BY <1>2 DEF QueueInv, InHand
<1>4. CallInv
  <2>1. /\ at = [x \in Tasks |-> "idle"] /\ held = [x \in Readers |-> 0] /\ holder = None
        /\ answer = [r \in Calls |-> "none"] /\ 0 \in 0..MaxMsgs
    BY <1>2 DEF Init
  <2>2. at \in [Tasks -> Ats] /\ answer \in [Calls -> Answers] /\ held \in [Readers -> 0..MaxMsgs]
    BY <2>1 DEF Ats, Answers
  <2>3. \A x \in Readers : at[x] = "idle" /\ held[x] = 0
    BY <2>1 DEF Readers, Tasks, Calls
  <2> QED
    BY <2>1, <2>2, <2>3 DEF CallInv, Polled
<1>5. BudgetInv
  <2>1. ToSet(queue) = {}
    BY <1>2, <1>3, QueueFacts
  <2>2. Held = {}
    BY <1>4, HeldFacts DEF Init, Polling, Readers, Tasks, Calls
  <2>3. SumOver(size, {}) = 0
    BY <1>1, BytesFacts
  <2>4. Reserved = 0 + 0 + 0
    BY <1>2, <2>1, <2>2, <2>3 DEF Reserved
  <2> QED
    BY <1>2, <2>4, SizesAssumption DEF Init, BudgetInv
<1> QED
  BY <1>1, <1>3, <1>4, <1>5 DEF IInv

\* Every step, of a worker thread or of the guest, keeps it.
LEMMA StepOK == IInv /\ [Next]_vars => IInv'
<1> SUFFICES ASSUME IInv, [Next]_vars PROVE IInv'
  OBVIOUS
<1> USE DEF IInv
<1>1. CASE WorkerStep
  BY <1>1, WorkerCalls, WorkerPump, WorkerBudget
<1>2. CASE GuestStep
  BY <1>2, GuestScalars, GuestBudget
<1>3. CASE UNCHANGED vars
  <2> USE <1>3 DEF vars, coreVars, pumpVars, budget, closeVars, callVars, histVars
  <2>1. ScalarsOK' /\ PumpInv'
    BY DEF ScalarsOK, PumpInv
  <2>2. QueueInv' /\ CallInv'
    BY DEF QueueInv, InHand, CallInv, Polled
  <2>3. BudgetInv'
    BY DEF BudgetInv, Reserved, Held
  <2> QED
    BY <2>1, <2>2, <2>3
<1> QED
  BY <1>1, <1>2, <1>3 DEF Next, WorkerStep, GuestStep

\* The inductive invariant holds in every reachable state.
THEOREM IInvHolds == Spec => []IInv
  BY InitOK, StepOK, PTL DEF Spec

\* Although the pump and the readers update the counter in separate steps, it
\* never exceeds its limit and is exactly the bytes that are queued, being
\* pushed or being released (data_channel.rs:85-126).
THEOREM BudgetExactHolds == Spec => []BudgetExact
<1>1. ASSUME IInv PROVE BudgetExact
  <2> USE <1>1 DEF IInv
  <2>1. Bytes(ToSet(queue)) = SumOver(size, ToSet(queue)) /\ Bytes({held[x] : x \in Readers} \ {0}) = SumOver(size, Held)
    BY DEF Bytes, SumOver, Held
  <2>2. buffered = Reserved /\ buffered <= Limit
    BY DEF BudgetInv
  <2>3. buffered \in 0..Limit
    <3>1. SumOver(size, ToSet(queue)) \in Nat /\ SumOver(size, Held) \in Nat
      BY BytesFacts, QueueFacts, HeldFacts
    <3>2. pump = "push" => arrived \in 1..MaxMsgs
      BY QueueFacts DEF QueueInv, InHand
    <3>3. (IF pump = "push" THEN size[arrived] ELSE 0) \in Nat
      BY <3>2 DEF ScalarsOK
    <3> QED
      BY <2>2, <3>1, <3>3, SizesAssumption DEF Reserved
  <2>4. TypeOK
    BY <2>3 DEF TypeOK, ScalarsOK, Pumps, QueueInv, CallInv, Ats
  <2> QED
    BY <2>1, <2>2, <2>4 DEF BudgetExact, Reserved
<1> QED
  BY <1>1, IInvHolds, PTL

-----------------------------------------------------------------------------
(* The contract of inbound messages *)

\* What the contract sees of the channel.
Status ==
  IF overflowed THEN "overflow"
  ELSE IF pump = "done" \/ wired = "closed" THEN "closed"
  ELSE IF open = "sent" THEN "open" ELSE "opening"
Accepted == taken + Len(queue)

\* Nothing it sees changes; or the status does, and nothing else.
Stutter == Status' = Status /\ Accepted' = Accepted /\ taken' = taken /\ ended' = ended
LEMMA StutterIsContractStutter ==
  ASSUME Stutter PROVE UNCHANGED Contract!vars
  BY DEF Stutter, Status, Accepted, Contract!vars

LEMMA StatusStepIsContractStep ==
  ASSUME Accepted' = Accepted, taken' = taken, ended' = ended,
         \/ Status = "opening" /\ Status' \in {"open", "closed"}
         \/ Status = "open" /\ Status' \in {"overflow", "closed"}
  PROVE  Contract!Next
<1>1. CASE Status = "opening" /\ Status' = "open"
  <2>1. Contract!Open(Stream)
    BY <1>1 DEF Status, Accepted, Contract!Open
  <2> QED
    BY <2>1 DEF Contract!Next
<1>2. CASE Status = "open" /\ Status' = "overflow"
  <2>1. Contract!Overflow(Stream)
    BY <1>2 DEF Status, Accepted, Contract!Overflow
  <2> QED
    BY <2>1 DEF Contract!Next
<1>3. CASE Status \in {"opening", "open"} /\ Status' = "closed"
  <2> PICK S \in SUBSET {Stream} : S = {Stream}
    OBVIOUS
  <2>1. Contract!Close(S)
    BY <1>3 DEF Status, Accepted, Contract!Close, Contract!Ending
  <2> QED
    BY <2>1 DEF Contract!Next
<1> QED
  BY <1>1, <1>2, <1>3

\* A worker's step opens, overflows or closes the channel, accepts a message, or
\* is no business of the contract.
LEMMA WorkerContract ==
  ASSUME IInv, WorkerStep
  PROVE  [Contract!Next]_(Contract!vars)
<1> USE DEF IInv, coreVars, pumpVars, budget, closeVars
<1>1. taken' = taken /\ ended' = ended
  BY WorkerFrame DEF histVars
<1>2. CASE SpawnPump \/ OnMessage \/ CloseChannel \/ Add \/ RemoteClose \/ SetClosed \/ FireClosed
  <2>1. UNCHANGED <<queue, open, wired, overflowed>> /\ (pump' = "done" <=> pump = "done")
    BY <1>2 DEF SpawnPump, OnMessage, CloseChannel, Add, RemoteClose, SetClosed, FireClosed
  <2>2. Stutter
    BY <1>1, <2>1 DEF Stutter, Status, Accepted
  <2> QED
    BY <2>2, StutterIsContractStutter
<1>3. CASE WireFails \/ Wire
  <2>1. /\ UNCHANGED <<queue, open, pump, overflowed>> /\ wired = "pending"
        /\ \/ wired' = "closed" /\ (pump = "none" \/ open = "dropped")
           \/ wired' # "closed"
    BY <1>3 DEF WireFails, Wire, PumpInv, ScalarsOK
  <2>2. CASE wired' = "closed" /\ pump = "none"
    <3>1. Status = "opening" /\ Status' = "closed" /\ Accepted' = Accepted
      BY <1>1, <2>1, <2>2 DEF Status, Accepted, PumpInv
    <3> QED
      BY <1>1, <3>1, StatusStepIsContractStep
  <2>3. CASE wired' # "closed" \/ open = "dropped"
    <3>1. Stutter
      BY <1>1, <2>1, <2>3 DEF Stutter, Status, Accepted, PumpInv
    <3> QED
      BY <3>1, StutterIsContractStutter
  <2> QED
    BY <2>1, <2>2, <2>3
<1>4. CASE OnOpen
  <2>1. /\ UNCHANGED <<queue, wired, overflowed, pump>> /\ pump = "poll" /\ open = "pending" /\ open' = "sent"
    BY <1>4 DEF OnOpen
  <2>2. Status = "opening" /\ Status' = "open" /\ Accepted' = Accepted
    BY <1>1, <2>1 DEF Status, Accepted, PumpInv
  <2> QED
    BY <1>1, <2>2, StatusStepIsContractStep
<1>5. CASE Latch
  <2>1. /\ UNCHANGED <<queue, open, wired>> /\ pump = "latch" /\ overflowed' = TRUE
    BY <1>5 DEF Latch
  <2>2. Status = "open" /\ Status' = "overflow" /\ Accepted' = Accepted
    BY <1>1, <2>1 DEF Status, Accepted, PumpInv
  <2> QED
    BY <1>1, <2>2, StatusStepIsContractStep
<1>6. CASE OnClose
  <2>1. /\ UNCHANGED <<queue, wired, overflowed>> /\ pump = "poll" /\ pump' = "done"
    BY <1>6 DEF OnClose
  <2>2. Status' = (IF overflowed THEN "overflow" ELSE "closed") /\ Accepted' = Accepted
    BY <1>1, <2>1 DEF Status, Accepted
  <2>3. Status \in {"opening", "open"} \/ (overflowed /\ Status = "overflow")
    BY <2>1 DEF Status, PumpInv
  <2>4. CASE overflowed
    BY <1>1, <2>2, <2>3, <2>4, StutterIsContractStutter DEF Stutter, Status
  <2>5. CASE ~overflowed
    BY <1>1, <2>2, <2>3, <2>5, StatusStepIsContractStep
  <2> QED
    BY <2>4, <2>5
<1>7. CASE Push
  <2>1. /\ UNCHANGED <<open, wired, overflowed>> /\ pump = "push" /\ pump' = "poll" /\ queue' = Append(queue, arrived)
    BY <1>7 DEF Push
  <2>2. /\ taken \in Nat /\ Len(queue) \in Nat /\ taken + Len(queue) + 1 = arrived
        /\ arrived \in 1..MaxMsgs /\ queue \in Seq(1..MaxMsgs)
    BY <2>1, QueueFacts DEF QueueInv, InHand
  <2>3. Len(queue') = Len(queue) + 1
    BY <2>1, <2>2, AppendFacts
  <2>4. Accepted' = Accepted + 1 /\ Accepted < MaxMsgs
    BY <1>1, <2>2, <2>3, SizesAssumption DEF Accepted
  <2>5. Status = "open" /\ Status' = Status
    BY <2>1 DEF Status, PumpInv
  <2>6. Contract!Accept(Stream)
    BY <1>1, <2>4, <2>5 DEF Status, Accepted, Contract!Accept
  <2> QED
    BY <2>6 DEF Contract!Next
<1> QED
  BY <1>2, <1>3, <1>4, <1>5, <1>6, <1>7 DEF WorkerStep, PumpStep

\* What the guest's steps can do to the history.
LEMMA GuestHistory ==
  ASSUME GuestStep
  PROVE  \/ UNCHANGED <<queue, taken, ended>>
         \/ queue # <<>> /\ queue' = Tail(queue) /\ taken' = Head(queue) /\ ended' = ended
         \/ queue = <<>> /\ pump = "done" /\ ended' = QueueEnding /\ UNCHANGED <<queue, taken>>
         \/ wired = "closed" /\ ended' = "closed" /\ UNCHANGED <<queue, taken>>
<1> USE DEF coreVars, pumpVars, budget, closeVars, callVars, histVars
<1>1. ASSUME NEW x \in Readers, Poll(x)
      PROVE  \/ UNCHANGED <<queue, taken, ended>>
             \/ queue # <<>> /\ queue' = Tail(queue) /\ taken' = Head(queue) /\ ended' = ended
             \/ queue = <<>> /\ pump = "done" /\ ended' = QueueEnding /\ UNCHANGED <<queue, taken>>
             \/ wired = "closed" /\ ended' = "closed" /\ UNCHANGED <<queue, taken>>
  <2>1. CASE Look(x)
    BY <2>1 DEF Look, TakeMessage, QueueEnds, WiringFailed, NotReady
  <2>2. CASE Release(x) \/ Signals(x)
    BY <2>2 DEF Release, Signals
  <2> QED
    BY <1>1, <2>1, <2>2 DEF Poll
<1>2. ReceiveViaStream \/ DropStream => UNCHANGED <<queue, taken, ended>>
  BY DEF ReceiveViaStream, DropStream
<1>3. \A r \in Receivers : Receive(r) => UNCHANGED <<queue, taken, ended>>
  BY DEF Receive
<1>4. \A r \in Senders : Send(r) \/ SendViaStream(r) \/ Sending(r) => UNCHANGED <<queue, taken, ended>>
  BY DEF Send, SendViaStream, Sending, Item, Collect, Transport, Classify, SendUnwired
<1> QED
  BY <1>1, <1>2, <1>3, <1>4 DEF GuestStep

\* A step of the guest takes the next message, reports the ending of a drained
\* channel, or is no business of the contract.
LEMMA GuestContract ==
  ASSUME IInv, GuestStep
  PROVE  [Contract!Next]_(Contract!vars)
<1> USE DEF IInv
<1>1. UNCHANGED <<pump, open, wired, overflowed>>
  BY GuestFrame
<1>2. Status' = Status
  BY <1>1 DEF Status
<1>3. CASE UNCHANGED <<queue, taken, ended>>
  BY <1>2, <1>3, StutterIsContractStutter DEF Stutter, Accepted
<1>4. CASE queue # <<>> /\ queue' = Tail(queue) /\ taken' = Head(queue) /\ ended' = ended
  <2>1. taken' = taken + 1 /\ Len(queue') = Len(queue) - 1 /\ Len(queue) > 0 /\ Len(queue) \in Nat /\ taken \in Nat
    BY <1>4, HeadFacts, QueueFacts
  <2>2. Accepted' = Accepted /\ taken < Accepted
    BY <2>1 DEF Accepted
  <2>3. Contract!Take(Stream)
    BY <1>2, <1>4, <2>1, <2>2 DEF Status, Accepted, Contract!Take
  <2> QED
    BY <2>3 DEF Contract!Next
<1>5. CASE /\ \/ queue = <<>> /\ pump = "done" /\ ended' = QueueEnding
              \/ wired = "closed" /\ ended' = "closed"
           /\ UNCHANGED <<queue, taken>>
  <2>1. Len(queue) = 0
    <3>1. CASE queue = <<>>
      BY <3>1
    <3>2. CASE wired = "closed"
      <4>1. arrived = 0 /\ taken + Len(queue) <= arrived /\ taken \in Nat /\ Len(queue) \in Nat
        BY <3>2, QueueFacts DEF PumpInv, QueueInv
      <4> QED
        BY <4>1
    <3> QED
      BY <1>5, <3>1, <3>2
  <2>2. taken = Accepted /\ Accepted' = Accepted
    BY <1>5, <2>1, QueueFacts DEF Accepted
  <2>3. Status \in {"closed", "overflow"} /\ ended' = Status
    BY <1>5 DEF Status, QueueEnding, PumpInv
  <2>4. Contract!Report(Stream)
    BY <1>2, <1>5, <2>2, <2>3 DEF Status, Accepted, Contract!Report, Contract!Ending
  <2> QED
    BY <2>4 DEF Contract!Next
<1> QED
  BY <1>3, <1>4, <1>5, GuestHistory

\* The channel implements the contract of inbound messages: they are handed out
\* in order, without a gap or a repetition, and a receive reports the ending of
\* the queue, always the same, only once the backlog is drained
\* (data_channel.rs:331-347, wit:179-210).
THEOREM ChannelImplementsContract == Spec => ImplementsContract
<1>1. Init => Contract!Init
  <2> SUFFICES ASSUME Init PROVE Contract!Init
    OBVIOUS
  <2>1. Status = "opening" /\ Accepted = 0 /\ taken = 0 /\ ended = "none"
    BY DEF Init, Status, Accepted
  <2> QED
    BY <2>1 DEF Status, Accepted, Contract!Init
<1>2. IInv /\ [Next]_vars => [Contract!Next]_(Contract!vars)
  <2> SUFFICES ASSUME IInv, [Next]_vars PROVE [Contract!Next]_(Contract!vars)
    OBVIOUS
  <2>1. CASE WorkerStep
    BY <2>1, WorkerContract
  <2>2. CASE GuestStep
    BY <2>2, GuestContract
  <2>3. CASE UNCHANGED vars
    BY <2>3, StutterIsContractStutter DEF Stutter, Status, Accepted, vars, pumpVars, budget, histVars
  <2> QED
    BY <2>1, <2>2, <2>3 DEF Next, WorkerStep, GuestStep
<1> QED
  BY <1>1, <1>2, IInvHolds, PTL DEF Spec, ImplementsContract, Contract!Spec
=============================================================================
