---------------------------- MODULE Mailbox_proofs ----------------------------
(***************************************************************************)
(* Proofs about the mailboxes, for every set of rooms, roles, blobs and     *)
(* requests, every limit of the server and every number of blobs: first     *)
(* about the store alone (Mailbox), then that the sessions which read it    *)
(* (MailboxSession) implement MailboxContract.                              *)
(*                                                                          *)
(* AnswersAgree is not inductive: it speaks of answers given, and a new     *)
(* answer is read from the store.  Faithful ties the two: an answer given   *)
(* in the present life of its room is still what the store would answer,    *)
(* and no answer belongs to a later life.  MissesOnlyWhenReplaced needs in  *)
(* the same way that no request holds the Notify of a later life (WaitOK).  *)
(*                                                                          *)
(* A mailbox holds increasing numbers, since a role publishes each number   *)
(* once (BoxOK).  What a session returned is below everything its mailbox   *)
(* holds from recv_seq on, and below the blob on its way to it; while the   *)
(* room has never been removed it is the first recv_seq blobs, and an       *)
(* answer under way is still what the store would say (ReaderOK).  A        *)
(* removal leaves recv_seq ahead of an empty mailbox, so that blobs are     *)
(* missed, but never out of order.                                          *)
(***************************************************************************)
EXTENDS MailboxSession, TLAPS

\* The answer a is of a past life of its room, or the store still says the same.
Faithful(a) ==
  LET box == <<a.room, a.role>>
  IN /\ a.gen <= gen[a.room]
     /\ a.gen = gen[a.room] =>
          \/ /\ a.answer = "blob"
             /\ a.seq < Len(blobs[box]) /\ a.blob = blobs[box][a.seq + 1]
          \/ /\ a.answer = "done" /\ a.blob = NoBlob
             /\ a.seq >= Len(blobs[box]) /\ done[box]

\* The request g holds no Notify of a later life of its room, and is woken if it
\* waits on the present one for an answer that is there.
WaitOK(g) ==
  /\ g.gen <= gen[g.room]
  /\ g.pc = "await" /\ Outcome(g.room, g.role, g.seq) # "pending" /\ ~g.woken => g.gen < gen[g.room]

AnswersOK == (\A a \in history : Faithful(a)) /\ AnswersAgree
WaitsOK == \A q \in Gets : WaitOK(get[q])

\* The inductive invariant.
StoreInv == TypeOK /\ AnswersOK /\ WaitsOK

-----------------------------------------------------------------------------
(* Requests *)

\* An element of a sequence.
LEMMA ElementOf ==
  ASSUME NEW S, NEW s \in Seq(S), NEW i \in 1..Len(s)
  PROVE  s[i] \in S
  OBVIOUS

\* The default request is one.
LEMMA NoGetFacts ==
  NoGet \in GetRecord /\ NoGet.pc = "idle" /\ NoGet.gen = 0
<1>1. 0 \in 0..BlobBound /\ 0 \in 0..GenBound
  BY MailboxAssumption
<1>2. (CHOOSE r \in Rooms : TRUE) \in Rooms /\ (CHOOSE x \in Roles : TRUE) \in Roles
  BY MailboxAssumption
<1> QED
  BY <1>1, <1>2 DEF NoGet, GetRecord

\* A step that changes request q only, to g.
LEMMA OneGetChanged ==
  ASSUME TypeOK, WaitsOK, NEW q \in Gets, NEW g \in GetRecord, get' = [get EXCEPT ![q] = g],
         UNCHANGED <<gen, blobs, done>>, WaitOK(g)
  PROVE  get' \in [Gets -> GetRecord] /\ WaitsOK'
<1>1. get' \in [Gets -> GetRecord] /\ get'[q] = g /\ \A p \in Gets \ {q} : get'[p] = get[p]
  BY DEF TypeOK
<1>2. ASSUME NEW p \in Gets PROVE WaitOK(get[p])' 
  BY <1>1 DEF WaitsOK, WaitOK, Outcome
<1> QED
  BY <1>1, <1>2 DEF WaitsOK

\* What notify_waiters does to a request.
LEMMA WokenFacts ==
  ASSUME TypeOK, NEW B, NEW q \in Gets
  PROVE  /\ Woken(B) \in [Gets -> GetRecord]
         /\ Woken(B)[q].pc = get[q].pc /\ Woken(B)[q].room = get[q].room
         /\ Woken(B)[q].role = get[q].role /\ Woken(B)[q].seq = get[q].seq
         /\ Woken(B)[q].gen = get[q].gen
         /\ get[q].woken => Woken(B)[q].woken
         /\ /\ get[q].pc = "await" /\ <<get[q].room, get[q].role>> \in B
            /\ get[q].gen = gen[get[q].room]
            => Woken(B)[q].woken
<1>1. \A p \in Gets : get[p] \in GetRecord
  BY DEF TypeOK
<1>2. \A p \in Gets : [get[p] EXCEPT !.woken = TRUE] \in GetRecord
  BY <1>1 DEF GetRecord
<1>3. Woken(B) \in [Gets -> GetRecord]
  BY <1>1, <1>2 DEF Woken
<1> DEFINE g == [get[q] EXCEPT !.woken = TRUE]
<1>4. /\ g.pc = get[q].pc /\ g.room = get[q].room /\ g.role = get[q].role /\ g.seq = get[q].seq
      /\ g.gen = get[q].gen /\ g.woken = TRUE
  BY <1>1 DEF GetRecord
<1>5. Woken(B)[q] = IF Registered(q) /\ <<get[q].room, get[q].role>> \in B /\ get[q].gen = gen[get[q].room]
                      THEN g ELSE get[q]
  BY DEF Woken
<1> HIDE DEF g
<1> QED
  BY <1>3, <1>4, <1>5 DEF Registered

\* notify_waiters leaves requests what they are.
LEMMA WokenType == TypeOK => \A B : Woken(B) \in [Gets -> GetRecord]
<1> SUFFICES ASSUME TypeOK, NEW B PROVE Woken(B) \in [Gets -> GetRecord]
  OBVIOUS
<1>1. CASE Gets = {}
  BY <1>1 DEF Woken
<1>2. CASE Gets # {}
  BY <1>2, WokenFacts
<1> QED
  BY <1>1, <1>2

\* An answer changes the request's pc, answer and blob.
LEMMA AnswerFacts ==
  ASSUME TypeOK, NEW q \in Gets, NEW answer \in {"blob", "done", "pending"}, NEW blob \in Blobs \union {NoBlob},
         Answer(q, answer, blob)
  PROVE  \E g \in GetRecord : /\ get' = [get EXCEPT ![q] = g]
                              /\ g.pc = "answered" /\ g.room = get[q].room /\ g.gen = get[q].gen
<1> DEFINE g == [get[q] EXCEPT !.pc = "answered", !.answer = answer, !.blob = blob]
<1>1. get[q] \in GetRecord
  BY DEF TypeOK
<1>2. g \in GetRecord /\ g.pc = "answered" /\ g.room = get[q].room /\ g.gen = get[q].gen
  BY <1>1 DEF GetRecord
<1>3. get' = [get EXCEPT ![q] = g]
  BY DEF Answer, TypeOK
<1> QED
  BY <1>2, <1>3

-----------------------------------------------------------------------------
(* The store *)

\* The initial states satisfy the invariant.
LEMMA InitOK == Init => StoreInv
<1> SUFFICES ASSUME Init PROVE StoreInv
  OBVIOUS
<1>1. TypeOK
  <2>1. 0 \in 0..GenBound
    BY MailboxAssumption
  <2>2. /\ gen \in [Rooms -> 0..GenBound] /\ done \in [Rooms \X Roles -> BOOLEAN]
        /\ get \in [Gets -> GetRecord]
    BY <2>1, NoGetFacts DEF Init
  <2>3. blobs \in [Rooms \X Roles -> Seq(Blobs)] /\ \A b \in Rooms \X Roles : Len(blobs[b]) = 0
    BY DEF Init
  <2>4. MaxBlobs # 0 => 0 <= MaxBlobs
    BY MailboxAssumption
  <2> QED
    BY <2>2, <2>3, <2>4 DEF Init, TypeOK
<1>2. AnswersOK
  BY DEF Init, AnswersOK, AnswersAgree
<1>3. WaitsOK
  <2>1. NoGet.room \in Rooms /\ NoGet.pc = "idle" /\ NoGet.gen = 0
    BY NoGetFacts DEF GetRecord
  <2>2. \A r \in Rooms : gen[r] = 0
    BY DEF Init
  <2>3. \A q \in Gets : get[q] = NoGet
    BY DEF Init
  <2> QED
    BY <2>1, <2>2, <2>3 DEF WaitsOK, WaitOK
<1> QED
  BY <1>1, <1>2, <1>3 DEF StoreInv

\* A step that changes neither the lives nor the contents of rooms keeps the
\* answers given faithful, if it gives none.
LEMMA AnswersUnchanged ==
  ASSUME AnswersOK, UNCHANGED <<gen, blobs, done, history>>
  PROVE  AnswersOK'
  BY DEF AnswersOK, AnswersAgree, Faithful

\* Such a step keeps every wait, if it leaves the requests alone.
LEMMA WaitsUnchanged ==
  ASSUME WaitsOK, UNCHANGED <<gen, blobs, done, get>>
  PROVE  WaitsOK'
  BY DEF WaitsOK, WaitOK, Outcome

\* The contents of the mailboxes other than box stay, and so do the lives of
\* the rooms; those who wait on box are woken.
LEMMA BoxWaits ==
  ASSUME TypeOK, WaitsOK, NEW box, gen' = gen, get' = Woken({box}),
         \A b \in (Rooms \X Roles) \ {box} : blobs'[b] = blobs[b] /\ done'[b] = done[b]
  PROVE  WaitsOK'
<1> SUFFICES ASSUME NEW q \in Gets PROVE WaitOK(get[q])'
  BY DEF WaitsOK
<1>1. WaitOK(get[q]) /\ get[q].room \in Rooms /\ get[q].role \in Roles /\ get[q].gen \in Nat /\ gen[get[q].room] \in Nat
  BY DEF WaitsOK, TypeOK, GetRecord
<1>2. /\ get'[q].pc = get[q].pc /\ get'[q].room = get[q].room /\ get'[q].role = get[q].role
      /\ get'[q].seq = get[q].seq /\ get'[q].gen = get[q].gen
      /\ get[q].woken => get'[q].woken
      /\ /\ get[q].pc = "await" /\ <<get[q].room, get[q].role>> = box
         /\ get[q].gen = gen[get[q].room]
         => get'[q].woken
  BY WokenFacts
<1>3. CASE <<get[q].room, get[q].role>> = box
  BY <1>1, <1>2, <1>3 DEF WaitOK
<1>4. CASE <<get[q].room, get[q].role>> # box
  <2>1. <<get[q].room, get[q].role>> \in (Rooms \X Roles) \ {box}
    BY <1>1, <1>4
  <2>2. Outcome(get[q].room, get[q].role, get[q].seq)' = Outcome(get[q].room, get[q].role, get[q].seq)
    BY <1>2, <2>1 DEF Outcome
  <2> QED
    BY <1>1, <1>2, <2>2 DEF WaitOK
<1> QED
  BY <1>3, <1>4

\* publish: a blob is appended to an open mailbox, or nothing but the touch.
LEMMA PublishOK ==
  ASSUME StoreInv, NEW r \in Rooms, NEW role \in Roles, NEW b \in Blobs, Publish(r, role, b)
  PROVE  StoreInv'
<1> DEFINE box == <<r, role>>
<1>1. /\ live' \in SUBSET Rooms /\ stale' \in SUBSET live' /\ UNCHANGED <<gen, done, history>>
      /\ box \in Rooms \X Roles /\ Len(blobs[box]) < BlobBound
  BY DEF StoreInv, TypeOK, Publish, Touch
<1>2. CASE UNCHANGED <<blobs, get>>
  <2>1. TypeOK'
    BY <1>1, <1>2 DEF StoreInv, TypeOK
  <2> QED
    BY <1>1, <1>2, <2>1, AnswersUnchanged, WaitsUnchanged DEF StoreInv
<1>3. CASE /\ Open(r, role) /\ HasSpace(r, role)
           /\ blobs' = [blobs EXCEPT ![box] = Append(blobs[box], b)] /\ get' = Woken({box})
  <2>1. /\ blobs[box] \in Seq(Blobs) /\ Len(blobs[box]) \in Nat
        /\ Append(blobs[box], b) \in Seq(Blobs) /\ Len(Append(blobs[box], b)) = Len(blobs[box]) + 1
        /\ \A i \in 1..Len(blobs[box]) : Append(blobs[box], b)[i] = blobs[box][i]
    BY <1>1 DEF StoreInv, TypeOK
  <2>2. blobs'[box] = Append(blobs[box], b) /\ \A x \in (Rooms \X Roles) \ {box} : blobs'[x] = blobs[x]
    BY <1>1, <1>3 DEF StoreInv, TypeOK
  <2>3. blobs' \in [Rooms \X Roles -> Seq(Blobs)]
    BY <1>1, <1>3, <2>1 DEF StoreInv, TypeOK
  <2>4. MaxBlobs # 0 => \A x \in Rooms \X Roles : Len(blobs'[x]) <= MaxBlobs
    <3>1. MaxBlobs # 0 => Len(blobs[box]) < MaxBlobs
      BY <1>3 DEF HasSpace
    <3>2. MaxBlobs \in Nat
      BY MailboxAssumption
    <3>3. MaxBlobs # 0 => Len(blobs'[box]) <= MaxBlobs
      BY <2>1, <2>2, <3>1, <3>2
    <3>4. MaxBlobs # 0 => \A x \in Rooms \X Roles : Len(blobs[x]) <= MaxBlobs
      BY DEF StoreInv, TypeOK
    <3> QED
      BY <2>2, <3>3, <3>4
  <2>5. get' \in [Gets -> GetRecord]
    BY <1>3, WokenType DEF StoreInv
  <2>6. TypeOK'
    BY <1>1, <2>3, <2>4, <2>5 DEF StoreInv, TypeOK
  <2>7. WaitsOK'
    BY <1>1, <1>3, <2>2, BoxWaits DEF StoreInv
  <2>8. ASSUME NEW a \in history PROVE Faithful(a)'
    <3>1. Faithful(a) /\ a \in Answers
      BY DEF StoreInv, AnswersOK, TypeOK
    <3>2. CASE <<a.room, a.role>> = box
      <4>1. ~done[box]
        BY <1>3 DEF Open
      <4>2. a.seq \in Nat
        BY <3>1 DEF Answers
      <4>3. a.gen = gen[a.room] => a.seq < Len(blobs[box]) /\ a.seq + 1 \in 1..Len(blobs[box])
        BY <2>1, <3>1, <3>2, <4>1, <4>2 DEF Faithful
      <4>4. a.gen = gen[a.room] => a.answer = "blob" /\ a.blob = blobs[box][a.seq + 1]
        BY <3>1, <3>2, <4>1 DEF Faithful
      <4>5. a.gen = gen[a.room] => a.seq < Len(blobs'[box]) /\ a.blob = blobs'[box][a.seq + 1]
        BY <2>1, <2>2, <4>2, <4>3, <4>4
      <4>6. a.gen <= gen[a.room]
        BY <3>1 DEF Faithful
      <4> QED
        BY <1>1, <3>2, <4>4, <4>5, <4>6 DEF Faithful
    <3>3. CASE <<a.room, a.role>> # box
      <4>1. <<a.room, a.role>> \in (Rooms \X Roles) \ {box}
        BY <3>1, <3>3 DEF Answers
      <4> QED
        BY <1>1, <2>2, <3>1, <4>1 DEF Faithful
    <3> QED
      BY <3>2, <3>3
  <2>9. AnswersOK'
    BY <1>1, <2>8 DEF StoreInv, AnswersOK, AnswersAgree
  <2> QED
    BY <2>6, <2>7, <2>9 DEF StoreInv
<1> QED
  BY <1>2, <1>3 DEF Publish

\* done: the mailbox ends.
LEMMA MarkDoneOK ==
  ASSUME StoreInv, NEW r \in Rooms, NEW role \in Roles, MarkDone(r, role)
  PROVE  StoreInv'
<1> DEFINE box == <<r, role>>
<1>1. /\ live' \in SUBSET Rooms /\ stale' \in SUBSET live' /\ UNCHANGED <<gen, blobs, history>>
      /\ box \in Rooms \X Roles
      /\ done' = [done EXCEPT ![box] = TRUE] /\ get' = Woken({box})
  BY DEF StoreInv, TypeOK, MarkDone, Touch, DoneWakes
<1>2. /\ done' \in [Rooms \X Roles -> BOOLEAN] /\ done'[box] = TRUE
      /\ \A x \in (Rooms \X Roles) \ {box} : done'[x] = done[x]
  BY <1>1 DEF StoreInv, TypeOK
<1>3. TypeOK'
  BY <1>1, <1>2, WokenType DEF StoreInv, TypeOK
<1>4. WaitsOK'
  BY <1>1, <1>2, BoxWaits DEF StoreInv
<1>5. ASSUME NEW a \in history PROVE Faithful(a)'
  <2>1. Faithful(a) /\ <<a.room, a.role>> \in Rooms \X Roles
    BY DEF StoreInv, AnswersOK, TypeOK, Answers
  <2>2. done[<<a.room, a.role>>] => done'[<<a.room, a.role>>]
    BY <1>2, <2>1
  <2> QED
    BY <1>1, <2>1, <2>2 DEF Faithful
<1> QED
  BY <1>1, <1>3, <1>4, <1>5 DEF StoreInv, AnswersOK, AnswersAgree

\* delete and eviction: the answers and the waits of the rooms that go are of a
\* past life from now on.
LEMMA RemoveOK ==
  ASSUME StoreInv, NEW S \in SUBSET Rooms, Remove(S)
  PROVE  StoreInv'
<1> DEFINE B == S \X Roles
<1>1. /\ live' = live \ S /\ stale' = stale \ S /\ history' = history /\ get' = Woken(B)
      /\ gen' = [r \in Rooms |-> IF r \in S THEN gen[r] + 1 ELSE gen[r]]
      /\ blobs' = [b \in Rooms \X Roles |-> IF b \in B THEN <<>> ELSE blobs[b]]
      /\ done' = [b \in Rooms \X Roles |-> IF b \in B THEN FALSE ELSE done[b]]
      /\ \A r \in S : gen[r] < GenBound
  BY DEF Remove
<1>2. GenBound \in Nat /\ MaxBlobs \in Nat
  BY MailboxAssumption
<1>3. TypeOK'
  <2>1. live' \in SUBSET Rooms /\ stale' \in SUBSET live' /\ history' \in SUBSET Answers
    BY <1>1 DEF StoreInv, TypeOK
  <2>2. gen' \in [Rooms -> 0..GenBound]
    BY <1>1, <1>2 DEF StoreInv, TypeOK
  <2>3. blobs' \in [Rooms \X Roles -> Seq(Blobs)] /\ done' \in [Rooms \X Roles -> BOOLEAN]
    <3>1. blobs \in [Rooms \X Roles -> Seq(Blobs)] /\ done \in [Rooms \X Roles -> BOOLEAN]
      BY DEF StoreInv, TypeOK
    <3>2. blobs' \in [Rooms \X Roles -> Seq(Blobs)]
      <4>1. \A b \in Rooms \X Roles : (IF b \in B THEN <<>> ELSE blobs[b]) \in Seq(Blobs)
        BY <3>1
      <4> HIDE DEF B
      <4> QED
        BY <1>1, <4>1
    <3>3. done' \in [Rooms \X Roles -> BOOLEAN]
      <4> HIDE DEF B
      <4> QED
        BY <1>1, <3>1
    <3> QED
      BY <3>2, <3>3
  <2>4. MaxBlobs # 0 => \A b \in Rooms \X Roles : Len(blobs'[b]) <= MaxBlobs
    <3>1. \A b \in Rooms \X Roles : Len(blobs'[b]) = 0 \/ blobs'[b] = blobs[b]
      BY <1>1
    <3> QED
      BY <1>2, <3>1 DEF StoreInv, TypeOK
  <2>5. get' \in [Gets -> GetRecord]
    BY <1>1, WokenType DEF StoreInv
  <2> QED
    BY <2>1, <2>2, <2>3, <2>4, <2>5 DEF TypeOK
<1>4. ASSUME NEW r \in Rooms
      PROVE  /\ gen[r] \in Nat /\ gen'[r] = IF r \in S THEN gen[r] + 1 ELSE gen[r]
             /\ r \notin S => \A role \in Roles : /\ blobs'[<<r, role>>] = blobs[<<r, role>>]
                                                /\ done'[<<r, role>>] = done[<<r, role>>]
  <2>1. gen[r] \in Nat /\ gen'[r] = IF r \in S THEN gen[r] + 1 ELSE gen[r]
    BY <1>1 DEF StoreInv, TypeOK
  <2>2. ASSUME r \notin S, NEW role \in Roles
        PROVE  blobs'[<<r, role>>] = blobs[<<r, role>>] /\ done'[<<r, role>>] = done[<<r, role>>]
    <3>1. <<r, role>> \in Rooms \X Roles /\ <<r, role>> \notin B
      BY <2>2
    <3> HIDE DEF B
    <3> QED
      BY <1>1, <3>1
  <2> QED
    BY <2>1, <2>2
<1>5. ASSUME NEW q \in Gets PROVE WaitOK(get[q])'
  <2>1. WaitOK(get[q]) /\ get[q].room \in Rooms /\ get[q].role \in Roles /\ get[q].gen \in Nat
    BY DEF StoreInv, WaitsOK, TypeOK, GetRecord
  <2>2. /\ get'[q].pc = get[q].pc /\ get'[q].room = get[q].room /\ get'[q].role = get[q].role
        /\ get'[q].seq = get[q].seq /\ get'[q].gen = get[q].gen
        /\ get[q].woken => get'[q].woken
    BY <1>1, WokenFacts DEF StoreInv
  <2>3. CASE get[q].room \in S
    BY <1>4, <2>1, <2>2, <2>3 DEF WaitOK
  <2>4. CASE get[q].room \notin S
    BY <1>4, <2>1, <2>2, <2>4 DEF WaitOK, Outcome
  <2> QED
    BY <2>3, <2>4
<1>6. ASSUME NEW a \in history PROVE Faithful(a)'
  <2>1. Faithful(a) /\ a.room \in Rooms /\ a.role \in Roles /\ a.gen \in Nat
    BY DEF StoreInv, AnswersOK, TypeOK, Answers
  <2> QED
    BY <1>4, <2>1 DEF Faithful
<1> QED
  BY <1>1, <1>3, <1>5, <1>6 DEF StoreInv, AnswersOK, AnswersAgree, WaitsOK

-----------------------------------------------------------------------------
(* Requests *)

\* A step of request q that gives no answer.
LEMMA OneGetOK ==
  ASSUME StoreInv, NEW q \in Gets, NEW g \in GetRecord, get' = [get EXCEPT ![q] = g], WaitOK(g),
         live' \in SUBSET Rooms, stale' \in SUBSET live', UNCHANGED <<gen, blobs, done, history>>
  PROVE  StoreInv'
<1>1. get' \in [Gets -> GetRecord] /\ WaitsOK'
  BY OneGetChanged DEF StoreInv
<1>2. TypeOK'
  BY <1>1 DEF StoreInv, TypeOK
<1> QED
  BY <1>1, <1>2, AnswersUnchanged DEF StoreInv

\* An answer read from the store agrees with the answers given before.
LEMMA NewAnswerOK ==
  ASSUME TypeOK, AnswersOK, NEW a \in Answers, a.gen = gen[a.room], Faithful(a),
         history' = history \union {a}, UNCHANGED <<gen, blobs, done>>
  PROVE  AnswersOK'
<1>1. ASSUME NEW b \in history,
             <<a.room, a.role, a.gen, a.seq>> = <<b.room, b.role, b.gen, b.seq>>
      PROVE  a = b
  <2>1. Faithful(b) /\ b \in Answers /\ b.gen = gen[b.room]
    BY <1>1 DEF AnswersOK, TypeOK
  <2>2. a.seq \in Nat /\ Len(blobs[<<a.room, a.role>>]) \in Nat
    BY DEF Answers, TypeOK
  <2>3. a.answer = b.answer /\ a.blob = b.blob
    BY <1>1, <2>1, <2>2 DEF Faithful
  <2> QED
    BY <1>1, <2>1, <2>3 DEF Answers
<1>2. AnswersAgree'
  BY <1>1 DEF AnswersOK, AnswersAgree
<1>3. \A b \in history' : Faithful(b)'
  BY DEF AnswersOK, Faithful
<1> QED
  BY <1>2, <1>3 DEF AnswersOK

\* fetch_now answers from the store, or leaves the request at `next`.
LEMMA FetchNowOK ==
  ASSUME StoreInv, NEW q \in Gets, NEW next \in GetRecord, FetchNow(q, next),
         Outcome(get[q].room, get[q].role, get[q].seq) = "pending" => WaitOK(next)
  PROVE  StoreInv'
<1> DEFINE r == get[q].room
           role == get[q].role
           seq == get[q].seq
           box == <<r, role>>
<1>1. /\ r \in Rooms /\ role \in Roles /\ seq \in 0..BlobBound /\ seq \in Nat
      /\ box \in Rooms \X Roles /\ gen[r] \in 0..GenBound
      /\ blobs[box] \in Seq(Blobs) /\ Len(blobs[box]) \in Nat
      /\ gen[r] <= gen[r] /\ get[q].gen <= gen[r]
  BY MailboxAssumption DEF StoreInv, TypeOK, GetRecord, WaitsOK, WaitOK
<1>2. live' \in SUBSET Rooms /\ stale' \in SUBSET live' /\ UNCHANGED <<gen, blobs, done>>
  BY <1>1 DEF FetchNow, Touch, StoreInv, TypeOK
<1>3. CASE get' = [get EXCEPT ![q] = next] /\ UNCHANGED history /\ Outcome(r, role, seq) = "pending"
  BY <1>2, <1>3, OneGetOK
<1>4. ASSUME NEW answer \in {"blob", "done"}, NEW blob \in Blobs \union {NoBlob}, Answer(q, answer, blob),
             \/ answer = "blob" /\ seq < Len(blobs[box]) /\ blob = blobs[box][seq + 1]
             \/ answer = "done" /\ blob = NoBlob /\ seq >= Len(blobs[box]) /\ done[box]
      PROVE  StoreInv'
  <2> DEFINE a == [room |-> r, role |-> role, gen |-> gen[r], seq |-> seq, answer |-> answer, blob |-> blob]
  <2>1. history' = history \union {a}
    BY <1>4 DEF Answer
  <2>2. a \in Answers
    BY <1>1 DEF Answers
  <2>3. a.gen = gen[a.room] /\ Faithful(a)
    BY <1>1, <1>4 DEF Faithful
  <2> HIDE DEF a
  <2>4. AnswersOK'
    BY <1>2, <2>1, <2>2, <2>3, NewAnswerOK DEF StoreInv
  <2>5. PICK g \in GetRecord : /\ get' = [get EXCEPT ![q] = g]
                               /\ g.pc = "answered" /\ g.room = get[q].room /\ g.gen = get[q].gen
    BY <1>4, AnswerFacts DEF StoreInv
  <2>6. WaitOK(g)
    BY <1>1, <2>5 DEF WaitOK
  <2>7. get' \in [Gets -> GetRecord] /\ WaitsOK'
    BY <1>2, <2>5, <2>6, OneGetChanged DEF StoreInv
  <2>8. TypeOK'
    BY <1>2, <2>1, <2>2, <2>7 DEF StoreInv, TypeOK
  <2> QED
    BY <2>4, <2>7, <2>8 DEF StoreInv
<1>5. CASE Outcome(r, role, seq) = "blob" /\ Answer(q, "blob", blobs[box][seq + 1])
  <2>1. seq < Len(blobs[box])
    BY <1>5 DEF Outcome
  <2>2. seq + 1 \in 1..Len(blobs[box])
    BY <1>1, <2>1
  <2>3. blobs[box][seq + 1] \in Blobs
    BY <1>1, <2>2, ElementOf
  <2> QED
    BY <1>4, <1>5, <2>1, <2>3
<1>6. CASE Outcome(r, role, seq) = "done" /\ Answer(q, "done", NoBlob)
  <2>1. seq >= Len(blobs[box]) /\ done[box]
    BY <1>6 DEF Outcome
  <2> QED
    BY <1>4, <1>6, <2>1
<1> QED
  BY <1>3, <1>5, <1>6 DEF FetchNow

\* A step of a GET request, and what its client does to it.
LEMMA RequestOK ==
  ASSUME StoreInv, NEW q \in Gets,
         \/ \E r \in Rooms, role \in Roles, seq \in 0..BlobBound : Get(q, r, role, seq)
         \/ Handler(q) \/ Deadline(q) \/ Respond(q) \/ Disconnect(q)
  PROVE  StoreInv'
<1> DEFINE r == get[q].room
<1>1. /\ get[q] \in GetRecord /\ get[q].gen <= gen[r] /\ gen[r] \in 0..GenBound /\ gen[r] \in Nat
      /\ WaitOK(get[q])
      /\ live \in SUBSET Rooms /\ stale \in SUBSET live
  BY MailboxAssumption DEF StoreInv, TypeOK, GetRecord, WaitsOK, WaitOK
<1>2. ASSUME NEW g \in GetRecord, get' = [get EXCEPT ![q] = g], UNCHANGED <<store, history>>, WaitOK(g)
      PROVE  StoreInv'
  BY <1>1, <1>2, OneGetOK DEF store
<1>3. ASSUME NEW g \in GetRecord, g.gen = 0, g.pc # "await"
      PROVE  WaitOK(g)
  BY <1>3, MailboxAssumption DEF WaitOK, StoreInv, TypeOK, GetRecord
<1>4. ASSUME NEW s \in Rooms, NEW role \in Roles, NEW seq \in 0..BlobBound, Get(q, s, role, seq)
      PROVE  StoreInv'
  <2>1. PICK late \in BOOLEAN :
          get' = [get EXCEPT ![q] = [NoGet EXCEPT !.pc = "peek", !.room = s, !.role = role,
                                                  !.seq = seq, !.late = late]]
    BY <1>4 DEF Get
  <2> DEFINE g == [NoGet EXCEPT !.pc = "peek", !.room = s, !.role = role, !.seq = seq, !.late = late]
  <2>2. g \in GetRecord /\ g.pc = "peek" /\ g.gen = 0
    <3>1. NoGet \in GetRecord /\ NoGet.gen = 0
      BY NoGetFacts
    <3> QED
      BY <3>1 DEF GetRecord
  <2>3. UNCHANGED <<store, history>>
    BY <1>4 DEF Get
  <2> HIDE DEF g
  <2> QED
    BY <1>2, <1>3, <2>1, <2>2, <2>3 DEF g
<1>5. CASE Peek(q)
  <2> DEFINE g == [get[q] EXCEPT !.pc = "arm", !.gen = gen[get[q].room]]
  <2>1. g \in GetRecord /\ g.room = r /\ g.gen = gen[r] /\ g.pc = "arm"
    BY <1>1 DEF GetRecord
  <2>2. FetchNow(q, g)
    BY <1>5 DEF Peek
  <2> HIDE DEF g
  <2>3. WaitOK(g)
    BY <1>1, <2>1 DEF WaitOK
  <2> QED
    BY <2>1, <2>2, <2>3, FetchNowOK
<1>6. CASE Recheck(q)
  <2> DEFINE g == [get[q] EXCEPT !.pc = "await"]
  <2>1. /\ g \in GetRecord /\ g.room = get[q].room /\ g.role = get[q].role /\ g.seq = get[q].seq
        /\ g.gen = get[q].gen /\ FetchNow(q, g)
    BY <1>1, <1>6 DEF GetRecord, Recheck
  <2> HIDE DEF g
  <2>2. Outcome(get[q].room, get[q].role, get[q].seq) = "pending" => WaitOK(g)
    BY <1>1, <2>1 DEF WaitOK
  <2> QED
    BY <2>1, <2>2, FetchNowOK
<1>7. ASSUME Answer(q, "pending", NoBlob), UNCHANGED store PROVE StoreInv'
  <2>1. history' = history
    BY <1>7 DEF Answer
  <2>2. PICK g \in GetRecord : /\ get' = [get EXCEPT ![q] = g]
                               /\ g.pc = "answered" /\ g.room = get[q].room /\ g.gen = get[q].gen
    BY <1>7, AnswerFacts DEF StoreInv
  <2>3. WaitOK(g)
    BY <1>1, <2>2 DEF WaitOK
  <2> QED
    BY <1>2, <1>7, <2>1, <2>2, <2>3
<1>8. CASE Arm(q)
  <2>1. CASE get[q].late
    BY <1>7, <1>8, <2>1 DEF Arm
  <2>2. CASE ~get[q].late
    <3> DEFINE g == [get[q] EXCEPT !.pc = "recheck", !.woken = FALSE]
    <3>1. g \in GetRecord /\ WaitOK(g)
      BY <1>1 DEF GetRecord, WaitOK
    <3>2. get' = [get EXCEPT ![q] = g] /\ UNCHANGED <<store, history>>
      BY <1>8, <2>2 DEF Arm, StoreInv, TypeOK
    <3> HIDE DEF g
    <3> QED
      BY <1>2, <3>1, <3>2
  <2> QED
    BY <2>1, <2>2
<1>9. CASE Wake(q)
  <2> DEFINE g == [get[q] EXCEPT !.pc = "peek"]
  <2>1. g \in GetRecord /\ WaitOK(g)
    BY <1>1 DEF GetRecord, WaitOK
  <2>2. get' = [get EXCEPT ![q] = g] /\ UNCHANGED <<store, history>>
    BY <1>9 DEF Wake
  <2> HIDE DEF g
  <2> QED
    BY <1>2, <2>1, <2>2
<1>10. CASE TimeOut(q)
  BY <1>7, <1>10 DEF TimeOut
<1>11. CASE Deadline(q)
  <2> DEFINE g == [get[q] EXCEPT !.late = TRUE]
  <2>1. g \in GetRecord /\ WaitOK(g)
    BY <1>1 DEF GetRecord, WaitOK
  <2>2. get' = [get EXCEPT ![q] = g] /\ UNCHANGED <<store, history>>
    BY <1>11 DEF Deadline
  <2> HIDE DEF g
  <2> QED
    BY <1>2, <2>1, <2>2
<1>12. CASE Respond(q) \/ Disconnect(q)
  <2>1. get' = [get EXCEPT ![q] = NoGet] /\ UNCHANGED <<store, history>>
    BY <1>12 DEF Respond, Disconnect
  <2> QED
    BY <1>2, <1>3, <2>1, NoGetFacts
<1> QED
  BY <1>4, <1>5, <1>6, <1>8, <1>9, <1>10, <1>11, <1>12 DEF Handler

-----------------------------------------------------------------------------
(* Theorems *)

\* Every step preserves the invariant.
LEMMA StepOK == StoreInv /\ [Next]_vars => StoreInv'
<1> SUFFICES ASSUME StoreInv, [Next]_vars PROVE StoreInv'
  OBVIOUS
<1>1. CASE UNCHANGED vars
  BY <1>1 DEF vars, store, StoreInv, TypeOK, AnswersOK, AnswersAgree, Faithful, WaitsOK, WaitOK, Outcome
<1>2. ASSUME NEW r \in Rooms, NEW role \in Roles, MarkDone(r, role) \/ \E b \in Blobs : Publish(r, role, b)
      PROVE  StoreInv'
  BY <1>2, PublishOK, MarkDoneOK
<1>3. CASE EvictExpired \/ \E r \in Rooms : Delete(r)
  <2>1. \E S \in SUBSET Rooms : Remove(S)
    BY <1>3 DEF EvictExpired, Delete, StoreInv, TypeOK
  <2> QED
    BY <2>1, RemoveOK
<1>4. ASSUME NEW r \in Rooms, Expire(r) PROVE StoreInv'
  <2>1. TypeOK' /\ UNCHANGED <<gen, blobs, done, get, history>>
    BY <1>4 DEF Expire, StoreInv, TypeOK
  <2> QED
    BY <2>1, AnswersUnchanged, WaitsUnchanged DEF StoreInv
<1> QED
  BY <1>1, <1>2, <1>3, <1>4, RequestOK DEF Next

\* The inductive invariant holds in every reachable state.
THEOREM StoreInvHolds == Spec => []StoreInv
  BY InitOK, StepOK, PTL DEF Spec

\* Every variable has its type, and no mailbox ever holds more than
\* max_blobs_per_mailbox blobs (state.rs, Rooms::publish).
THEOREM TypeCorrect == Spec => []TypeOK
<1>1. StoreInv => TypeOK
  BY DEF StoreInv
<1> QED
  BY <1>1, StoreInvHolds, PTL

\* Reads are idempotent: while a room lives, two answers to a sequence number
\* agree, however often the blob was polled for and whoever published meanwhile
\* (PROTOCOL.md:99-101, 115-116).
THEOREM AnswersAgreeHolds == Spec => []AnswersAgree
<1>1. StoreInv => AnswersAgree
  BY DEF StoreInv, AnswersOK
<1> QED
  BY <1>1, StoreInvHolds, PTL

\* A GET sleeps through an answer only if the room it waits on was removed under
\* it: peeking again after arming closes every other window (state.rs:239-254).
THEOREM MissesOnlyWhenReplacedHolds == Spec => []MissesOnlyWhenReplaced
<1>1. StoreInv => MissesOnlyWhenReplaced
  BY DEF StoreInv, WaitsOK, WaitOK, MissesOnlyWhenReplaced
<1> QED
  BY <1>1, StoreInvHolds, PTL

-----------------------------------------------------------------------------
(* The sessions *)

\* A request as its session sees it, and the session's record.
RequestRecord ==
  [pc : {"idle", "peek", "arm", "recheck", "await", "answered"}, room : Rooms, role : Roles,
   seq : Nat, gen : Nat, woken : BOOLEAN, late : BOOLEAN,
   answer : {"none", "blob", "done", "pending"}, blob : Blobs \union {NoBlob}]
SessionRecord == [pc : {"idle", "recv", "failed", "ended"}, recv_seq : Nat]

SessionTypes ==
  /\ gen \in [Rooms -> Nat] /\ blobs \in [Rooms \X Roles -> Seq(Blobs)]
  /\ done \in [Rooms \X Roles -> BOOLEAN] /\ get \in [Gets -> RequestRecord]
  /\ session \in [Gets -> SessionRecord] /\ got \in [Gets -> Seq(Blobs)]
  /\ sent \in [Roles -> 0..SendBound]

\* A mailbox b holds increasing numbers, none above top.
BoxOK(b, top) ==
  /\ \A i \in 1..Len(b) : b[i] <= top
  /\ \A i, j \in 1..Len(b) : i < j => b[i] < b[j]

\* A session c with the request g has returned q; it reads role's mailbox, whose
\* present life holds b and is done or not (d), which had numbers up to top.
\* The room is in its first life or not (first).
ReaderOK(g, c, role, q, b, d, first, top) ==
  /\ c.pc = "recv" <=> g.pc # "idle"
  /\ c.pc = "recv" => g.room = Room /\ g.role = role /\ g.seq = c.recv_seq
  /\ \A i \in 1..Len(q) :
       /\ q[i] <= top
       /\ \A j \in 1..Len(b) : j > c.recv_seq => q[i] < b[j]
  /\ g.answer = "blob" =>
       /\ g.blob \in Blobs /\ g.blob <= top
       /\ \A i \in 1..Len(q) : q[i] < g.blob
       /\ \A j \in 1..Len(b) : j > c.recv_seq + 1 => g.blob < b[j]
  /\ first =>
       /\ c.recv_seq = Len(q) /\ Len(q) <= Len(b) /\ \A i \in 1..Len(q) : q[i] = b[i]
       /\ g.answer = "blob" => Len(q) < Len(b) /\ g.blob = b[Len(q) + 1]
       /\ g.answer = "done" => d /\ Len(q) = Len(b)

Box(r) == <<Room, r>>
First == gen[Room] = 0
BoxesOK == \A r \in Roles : BoxOK(blobs[Box(r)], sent[r])
Reader(s) == ReaderOK(get[s], session[s], Peer(s), got[s], blobs[Box(Peer(s))], done[Box(Peer(s))],
                      First, sent[Peer(s)])
ReadersOK == \A s \in Gets : Reader(s)

\* The inductive invariant.
SessionInv == SessionTypes /\ BoxesOK /\ ReadersOK

-----------------------------------------------------------------------------
(* Roles, requests and sequences *)

\* There are two roles, and each is the peer of the other.
LEMMA PeerFacts ==
  ASSUME NEW s \in Roles
  PROVE  Peer(s) \in Roles /\ Peer(s) # s /\ Peer(Peer(s)) = s
<1>1. PICK a \in Roles, b \in Roles : a # b /\ Roles = {a, b}
  BY SessionAssumption
<1>2. \A x \in Roles : Peer(x) \in Roles /\ Peer(x) # x
  <2>1. TAKE x \in Roles
  <2>2. \E r \in Roles : r # x
    BY <1>1
  <2> QED
    BY <2>2 DEF Peer
<1> QED
  BY <1>1, <1>2

LEMMA GetsAreRoles ==
  ASSUME NEW s \in Gets
  PROVE  /\ s \in Roles /\ Peer(s) \in Roles /\ Box(Peer(s)) \in Rooms \X Roles
         /\ Room \in Rooms /\ Peer(Peer(s)) = s
  BY SessionAssumption, PeerFacts DEF Box

\* The default request is one.
LEMMA NoGetRequest ==
  NoGet \in RequestRecord /\ NoGet.pc = "idle" /\ NoGet.answer = "none"
<1>1. (CHOOSE r \in Rooms : TRUE) \in Rooms /\ (CHOOSE x \in Roles : TRUE) \in Roles
  BY MailboxAssumption
<1> QED
  BY <1>1 DEF NoGet, RequestRecord

LEMMA BlobsAreNumbers == Blobs = 1..SendBound /\ SendBound \in Nat /\ Blobs \subseteq Nat
  BY SessionAssumption

\* An element of a sequence of blobs.
LEMMA BlobAt ==
  ASSUME NEW q \in Seq(Blobs), NEW i \in 1..Len(q)
  PROVE  q[i] \in Blobs /\ q[i] \in Nat
<1>1. q[i] \in Blobs
  OBVIOUS
<1> QED
  BY <1>1, BlobsAreNumbers

\* One element more.
LEMMA AppendFacts ==
  ASSUME NEW q \in Seq(Blobs), NEW x \in Blobs
  PROVE  /\ Append(q, x) \in Seq(Blobs) /\ Len(q) \in Nat /\ Len(Append(q, x)) = Len(q) + 1
         /\ \A i \in 1..Len(q) : Append(q, x)[i] = q[i]
         /\ Append(q, x)[Len(q) + 1] = x
  OBVIOUS

-----------------------------------------------------------------------------
(* Mailboxes *)

\* A role's next number is above all those before it.
LEMMA BoxAppended ==
  ASSUME NEW b \in Seq(Blobs), NEW top \in Nat, top + 1 \in Blobs, BoxOK(b, top)
  PROVE  BoxOK(Append(b, top + 1), top + 1)
<1> DEFINE n == Append(b, top + 1)
<1>1. /\ Len(n) = Len(b) + 1 /\ Len(b) \in Nat /\ n[Len(b) + 1] = top + 1
      /\ \A i \in 1..Len(b) : n[i] = b[i] /\ b[i] \in Nat
  BY AppendFacts, BlobAt
<1> HIDE DEF n
<1>2. \A i \in 1..Len(b) : b[i] <= top
  BY DEF BoxOK
<1>3. \A i, j \in 1..Len(b) : i < j => b[i] < b[j]
  BY DEF BoxOK
<1>4. \A i \in 1..Len(n) : i \in 1..Len(b) \/ i = Len(b) + 1
  BY <1>1
<1>5. \A i \in 1..Len(n) : n[i] <= top + 1
  BY <1>1, <1>2, <1>4
<1>6. \A i, j \in 1..Len(n) : i < j => n[i] < n[j]
  BY <1>1, <1>2, <1>3, <1>4
<1> QED
  BY <1>5, <1>6 DEF BoxOK, n

LEMMA BoxRaised ==
  ASSUME NEW b \in Seq(Blobs), NEW top \in Nat, BoxOK(b, top)
  PROVE  BoxOK(b, top + 1)
<1>1. \A i \in 1..Len(b) : b[i] \in Nat /\ b[i] <= top
  BY BlobAt DEF BoxOK
<1> QED
  BY <1>1 DEF BoxOK

LEMMA BoxEmpty ==
  ASSUME NEW top \in Nat
  PROVE  BoxOK(<<>>, top)
  BY DEF BoxOK

-----------------------------------------------------------------------------
(* What each step does to a reader *)

\* Nothing but the request: it is the same request, and its answer is the one it
\* had or what the store says.
SameRequest(g, h) == h.room = g.room /\ h.role = g.role /\ h.seq = g.seq
Answered(g, h, b, d) ==
  \/ h.answer = g.answer /\ h.blob = g.blob
  \/ h.answer = "blob" /\ g.seq < Len(b) /\ h.blob = b[g.seq + 1]
  \/ h.answer = "done" /\ g.seq >= Len(b) /\ d
  \/ h.answer = "pending"

LEMMA RequestMoved ==
  ASSUME NEW g \in RequestRecord, NEW h \in RequestRecord, NEW c \in SessionRecord, NEW role,
         NEW q \in Seq(Blobs), NEW b \in Seq(Blobs), NEW d, NEW first, NEW top \in Nat,
         BoxOK(b, top), ReaderOK(g, c, role, q, b, d, first, top),
         g.pc # "idle" <=> h.pc # "idle", SameRequest(g, h),
         g.pc = "idle" => h.answer = g.answer /\ h.blob = g.blob, Answered(g, h, b, d)
  PROVE  ReaderOK(h, c, role, q, b, d, first, top)
<1>1. CASE h.answer = g.answer /\ h.blob = g.blob
  BY <1>1 DEF ReaderOK, SameRequest
<1>2. CASE ~(h.answer = g.answer /\ h.blob = g.blob)
  <2>1. g.pc # "idle" /\ h.pc # "idle" /\ c.pc = "recv" /\ g.seq = c.recv_seq
    BY <1>2 DEF ReaderOK
  <2>2. c.recv_seq \in Nat /\ Len(b) \in Nat /\ Len(q) \in Nat
    BY DEF SessionRecord
  <2>3. /\ c.pc = "recv" <=> h.pc # "idle"
        /\ c.pc = "recv" => h.room = Room /\ h.role = role /\ h.seq = c.recv_seq
    BY <2>1 DEF ReaderOK, SameRequest
  <2>4. /\ \A i \in 1..Len(q) : /\ q[i] <= top
                                /\ \A j \in 1..Len(b) : j > c.recv_seq => q[i] < b[j]
        /\ first => /\ c.recv_seq = Len(q) /\ Len(q) <= Len(b)
                    /\ \A i \in 1..Len(q) : q[i] = b[i]
    BY DEF ReaderOK
  <2>5. CASE h.answer = "blob" /\ g.seq < Len(b) /\ h.blob = b[g.seq + 1]
    <3>1. c.recv_seq + 1 \in 1..Len(b) /\ h.blob = b[c.recv_seq + 1] /\ c.recv_seq < Len(b)
      BY <2>1, <2>2, <2>5
    <3>2. h.blob \in Blobs /\ h.blob <= top
      BY <3>1, BlobAt DEF BoxOK
    <3>3. \A i \in 1..Len(q) : q[i] < h.blob
      BY <3>1, <2>2, <2>4
    <3>4. \A j \in 1..Len(b) : j > c.recv_seq + 1 => h.blob < b[j]
      BY <3>1, <2>2 DEF BoxOK
    <3>5. first => Len(q) < Len(b) /\ h.blob = b[Len(q) + 1]
      BY <3>1, <2>4
    <3> QED
      BY <2>3, <2>4, <2>5, <3>2, <3>3, <3>4, <3>5 DEF ReaderOK
  <2>6. CASE h.answer = "done" /\ g.seq >= Len(b) /\ d
    <3>1. first => d /\ Len(q) = Len(b)
      BY <2>1, <2>2, <2>4, <2>6
    <3> QED
      BY <2>3, <2>4, <2>6, <3>1 DEF ReaderOK
  <2>7. CASE h.answer = "pending"
    BY <2>3, <2>4, <2>7 DEF ReaderOK
  <2> QED
    BY <1>2, <2>5, <2>6, <2>7 DEF Answered
<1> QED
  BY <1>1, <1>2

\* A request without an answer, new, at the session's cursor, or none.
LEMMA RequestReplaced ==
  ASSUME NEW g \in RequestRecord, NEW h \in RequestRecord,
         NEW c \in SessionRecord, NEW e \in SessionRecord, NEW role,
         NEW q \in Seq(Blobs), NEW b \in Seq(Blobs), NEW d, NEW first, NEW top \in Nat,
         ReaderOK(g, c, role, q, b, d, first, top),
         h.answer = "none", e.recv_seq = c.recv_seq, e.pc = "recv" <=> h.pc # "idle",
         e.pc = "recv" => h.room = Room /\ h.role = role /\ h.seq = e.recv_seq
  PROVE  ReaderOK(h, e, role, q, b, d, first, top)
  BY DEF ReaderOK

\* recv returns a blob: it is above what it returned before, and below what
\* follows in the mailbox.
LEMMA BlobReturned ==
  ASSUME NEW g \in RequestRecord, NEW h \in RequestRecord,
         NEW c \in SessionRecord, NEW e \in SessionRecord, NEW role,
         NEW q \in Seq(Blobs), NEW b \in Seq(Blobs), NEW d, NEW first, NEW top \in Nat,
         ReaderOK(g, c, role, q, b, d, first, top), g.answer = "blob",
         h.answer = "none", h.pc = "idle", e.pc = "idle", e.recv_seq = c.recv_seq + 1
  PROVE  ReaderOK(h, e, role, Append(q, g.blob), b, d, first, top)
<1> DEFINE n == Append(q, g.blob)
<1>1. /\ g.blob \in Blobs /\ g.blob <= top
      /\ \A i \in 1..Len(q) : q[i] < g.blob
      /\ \A j \in 1..Len(b) : j > c.recv_seq + 1 => g.blob < b[j]
  BY DEF ReaderOK
<1>2. /\ Len(n) = Len(q) + 1 /\ Len(q) \in Nat /\ n[Len(q) + 1] = g.blob
      /\ \A i \in 1..Len(q) : n[i] = q[i]
  BY <1>1, AppendFacts
<1>3. \A i \in 1..Len(n) : i \in 1..Len(q) \/ i = Len(q) + 1
  BY <1>2
<1>4. c.recv_seq \in Nat /\ Len(b) \in Nat
  BY DEF SessionRecord
<1> HIDE DEF n
<1>5. \A i \in 1..Len(q) : /\ q[i] <= top
                           /\ \A j \in 1..Len(b) : j > c.recv_seq => q[i] < b[j]
  BY DEF ReaderOK
<1>6. \A i \in 1..Len(n) : /\ n[i] <= top
                           /\ \A j \in 1..Len(b) : j > e.recv_seq => n[i] < b[j]
  BY <1>1, <1>2, <1>3, <1>4, <1>5
<1>7. ASSUME first
      PROVE  e.recv_seq = Len(n) /\ Len(n) <= Len(b) /\ \A i \in 1..Len(n) : n[i] = b[i]
  <2>1. /\ c.recv_seq = Len(q) /\ \A i \in 1..Len(q) : q[i] = b[i]
        /\ Len(q) < Len(b) /\ g.blob = b[Len(q) + 1]
    BY <1>7 DEF ReaderOK
  <2> QED
    BY <2>1, <1>2, <1>3, <1>4
<1>8. ReaderOK(h, e, role, n, b, d, first, top)
  BY <1>6, <1>7 DEF ReaderOK
<1> QED
  BY <1>8 DEF n

\* The peer publishes its next number.
LEMMA PeerPublished ==
  ASSUME NEW g \in RequestRecord, NEW c \in SessionRecord, NEW role,
         NEW q \in Seq(Blobs), NEW b \in Seq(Blobs), NEW first, NEW top \in Nat,
         top + 1 \in Blobs, ReaderOK(g, c, role, q, b, FALSE, first, top)
  PROVE  ReaderOK(g, c, role, q, Append(b, top + 1), FALSE, first, top + 1)
<1> DEFINE n == Append(b, top + 1)
<1>1. /\ Len(n) = Len(b) + 1 /\ Len(b) \in Nat /\ n[Len(b) + 1] = top + 1
      /\ \A i \in 1..Len(b) : n[i] = b[i]
  BY AppendFacts
<1>2. \A i \in 1..Len(n) : i \in 1..Len(b) \/ i = Len(b) + 1
  BY <1>1
<1>3. c.recv_seq \in Nat /\ Len(q) \in Nat /\ \A i \in 1..Len(q) : q[i] \in Nat
  BY BlobAt DEF SessionRecord
<1> HIDE DEF n
<1>4. \A i \in 1..Len(q) : /\ q[i] <= top
                           /\ \A j \in 1..Len(b) : j > c.recv_seq => q[i] < b[j]
  BY DEF ReaderOK
<1>5. \A i \in 1..Len(q) : /\ q[i] <= top + 1
                           /\ \A j \in 1..Len(n) : j > c.recv_seq => q[i] < n[j]
  BY <1>1, <1>2, <1>3, <1>4
<1>6. ASSUME g.answer = "blob"
      PROVE  /\ g.blob \in Blobs /\ g.blob <= top + 1
             /\ \A i \in 1..Len(q) : q[i] < g.blob
             /\ \A j \in 1..Len(n) : j > c.recv_seq + 1 => g.blob < n[j]
  <2>1. /\ g.blob \in Blobs /\ g.blob <= top
        /\ \A i \in 1..Len(q) : q[i] < g.blob
        /\ \A j \in 1..Len(b) : j > c.recv_seq + 1 => g.blob < b[j]
    BY <1>6 DEF ReaderOK
  <2>2. g.blob \in Nat
    BY <2>1, BlobsAreNumbers
  <2>3. g.blob <= top + 1 /\ g.blob < top + 1
    BY <2>1, <2>2
  <2>4. ASSUME NEW j \in 1..Len(n), j > c.recv_seq + 1
        PROVE  g.blob < n[j]
    <3>1. CASE j \in 1..Len(b)
      BY <1>1, <2>1, <2>4, <3>1
    <3>2. CASE j = Len(b) + 1
      BY <1>1, <2>3, <3>2
    <3> QED
      BY <1>2, <3>1, <3>2
  <2> QED
    BY <2>1, <2>3, <2>4
<1>7. ASSUME first
      PROVE  /\ c.recv_seq = Len(q) /\ Len(q) <= Len(n) /\ \A i \in 1..Len(q) : q[i] = n[i]
             /\ g.answer = "blob" => Len(q) < Len(n) /\ g.blob = n[Len(q) + 1]
             /\ g.answer # "done"
  <2>1. /\ c.recv_seq = Len(q) /\ Len(q) <= Len(b) /\ \A i \in 1..Len(q) : q[i] = b[i]
        /\ g.answer = "blob" => Len(q) < Len(b) /\ g.blob = b[Len(q) + 1]
        /\ g.answer # "done"
    BY <1>7 DEF ReaderOK
  <2> QED
    BY <2>1, <1>1, <1>3
<1>8. ReaderOK(g, c, role, q, n, FALSE, first, top + 1)
  BY <1>5, <1>6, <1>7 DEF ReaderOK
<1> QED
  BY <1>8 DEF n

\* A publish is refused, and its number is not used again.
LEMMA PeerRefused ==
  ASSUME NEW g \in RequestRecord, NEW c \in SessionRecord, NEW role,
         NEW q \in Seq(Blobs), NEW b \in Seq(Blobs), NEW d, NEW first, NEW top \in Nat,
         ReaderOK(g, c, role, q, b, d, first, top)
  PROVE  ReaderOK(g, c, role, q, b, d, first, top + 1)
<1>1. \A i \in 1..Len(q) : q[i] \in Nat /\ q[i] <= top + 1
  BY BlobAt DEF ReaderOK
<1>2. g.answer = "blob" => g.blob \in Nat /\ g.blob <= top + 1
  BY BlobsAreNumbers DEF ReaderOK
<1> QED
  BY <1>1, <1>2 DEF ReaderOK

\* The peer is done.
LEMMA PeerDone ==
  ASSUME NEW g, NEW c, NEW role, NEW q, NEW b, NEW d, NEW first, NEW top,
         ReaderOK(g, c, role, q, b, d, first, top)
  PROVE  ReaderOK(g, c, role, q, b, TRUE, first, top)
  BY DEF ReaderOK

\* The room is removed: from now on nothing but the order is promised.
LEMMA RoomRemoved ==
  ASSUME NEW g, NEW c, NEW role, NEW q \in Seq(Blobs), NEW b, NEW d, NEW first, NEW top \in Nat,
         ReaderOK(g, c, role, q, b, d, first, top)
  PROVE  ReaderOK(g, c, role, q, <<>>, FALSE, FALSE, top)
  BY DEF ReaderOK

\* The request changed where its session does not look.
SameSeen(g, h) ==
  SameRequest(g, h) /\ h.pc = g.pc /\ h.answer = g.answer /\ h.blob = g.blob
LEMMA RequestUnseen ==
  ASSUME NEW g, NEW h, NEW c, NEW role, NEW q, NEW b, NEW d, NEW first, NEW top,
         SameSeen(g, h), ReaderOK(g, c, role, q, b, d, first, top)
  PROVE  ReaderOK(h, c, role, q, b, d, first, top)
  BY DEF SameSeen, SameRequest, ReaderOK

-----------------------------------------------------------------------------
(* Steps *)

\* notify_waiters changes no more than woken.
LEMMA WokenSeen ==
  ASSUME SessionTypes, NEW B
  PROVE  Woken(B) \in [Gets -> RequestRecord] /\ \A q \in Gets : SameSeen(get[q], Woken(B)[q])
<1>1. ASSUME NEW q \in Gets
      PROVE  Woken(B)[q] \in RequestRecord /\ SameSeen(get[q], Woken(B)[q])
  <2>1. get[q] \in RequestRecord
    BY DEF SessionTypes
  <2>2. Woken(B)[q] = get[q] \/ Woken(B)[q] = [get[q] EXCEPT !.woken = TRUE]
    BY DEF Woken
  <2> QED
    BY <2>1, <2>2 DEF RequestRecord, SameSeen, SameRequest
<1> QED
  BY <1>1 DEF Woken

\* A step of one session and its request; the store and the other sessions stay.
LEMMA OneReaderChanged ==
  ASSUME SessionInv, NEW s \in Gets, NEW h \in RequestRecord, NEW e \in SessionRecord, NEW q \in Seq(Blobs),
         get' = [get EXCEPT ![s] = h], session' = [session EXCEPT ![s] = e],
         got' = [got EXCEPT ![s] = q], UNCHANGED <<gen, blobs, done, sent>>,
         ReaderOK(h, e, Peer(s), q, blobs[Box(Peer(s))], done[Box(Peer(s))], First, sent[Peer(s)])
  PROVE  SessionInv'
<1>1. SessionTypes'
  BY DEF SessionInv, SessionTypes
<1>2. BoxesOK'
  BY DEF SessionInv, BoxesOK
<1>3. ASSUME NEW x \in Gets PROVE Reader(x)'
  <2>1. Reader(x)
    BY DEF SessionInv, ReadersOK
  <2>2. First' = First /\ blobs' = blobs /\ done' = done /\ sent' = sent
    BY DEF First
  <2>3. CASE x = s
    <3>1. get'[s] = h /\ session'[s] = e /\ got'[s] = q
      BY DEF SessionInv, SessionTypes
    <3> QED
      BY <2>2, <2>3, <3>1 DEF Reader
  <2>4. CASE x # s
    <3>1. get'[x] = get[x] /\ session'[x] = session[x] /\ got'[x] = got[x]
      BY <2>4 DEF SessionInv, SessionTypes
    <3> QED
      BY <2>1, <2>2, <3>1 DEF Reader
  <2> QED
    BY <2>3, <2>4
<1> QED
  BY <1>1, <1>2, <1>3 DEF SessionInv, ReadersOK

\* What the invariant says of one session.
LEMMA ReaderFacts ==
  ASSUME SessionInv, NEW s \in Gets
  PROVE  /\ get[s] \in RequestRecord /\ session[s] \in SessionRecord /\ got[s] \in Seq(Blobs)
         /\ blobs[Box(Peer(s))] \in Seq(Blobs) /\ done[Box(Peer(s))] \in BOOLEAN
         /\ sent[Peer(s)] \in Nat /\ First \in BOOLEAN
         /\ BoxOK(blobs[Box(Peer(s))], sent[Peer(s)])
         /\ ReaderOK(get[s], session[s], Peer(s), got[s], blobs[Box(Peer(s))], done[Box(Peer(s))],
                     First, sent[Peer(s)])
         /\ session[s].pc = "recv" <=> get[s].pc # "idle"
         /\ session[s].pc = "recv" => /\ <<get[s].room, get[s].role>> = Box(Peer(s))
                                      /\ get[s].seq = session[s].recv_seq
<1>1. /\ Peer(s) \in Roles /\ Box(Peer(s)) \in Rooms \X Roles
      /\ SendBound \in Nat
  BY GetsAreRoles, BlobsAreNumbers
<1>2. /\ get[s] \in RequestRecord /\ session[s] \in SessionRecord /\ got[s] \in Seq(Blobs)
      /\ blobs[Box(Peer(s))] \in Seq(Blobs) /\ done[Box(Peer(s))] \in BOOLEAN
      /\ sent[Peer(s)] \in Nat /\ First \in BOOLEAN
  BY <1>1 DEF SessionInv, SessionTypes, First
<1>3. Reader(s) /\ BoxOK(blobs[Box(Peer(s))], sent[Peer(s)])
  BY <1>1 DEF SessionInv, ReadersOK, BoxesOK
<1>4. /\ session[s].pc = "recv" <=> get[s].pc # "idle"
      /\ session[s].pc = "recv" => /\ <<get[s].room, get[s].role>> = Box(Peer(s))
                                   /\ get[s].seq = session[s].recv_seq
  BY <1>3 DEF Reader, ReaderOK, Box
<1> QED
  BY <1>2, <1>3, <1>4 DEF Reader

\* The handler or the deadline moves one request.
LEMMA RequestStep ==
  ASSUME SessionInv, NEW s \in Gets, NEW h \in RequestRecord, get' = [get EXCEPT ![s] = h],
         get[s].pc # "idle", h.pc # "idle", SameRequest(get[s], h),
         LET b == <<get[s].room, get[s].role>> IN Answered(get[s], h, blobs[b], done[b]),
         UNCHANGED <<gen, blobs, done, sessionVars>>
  PROVE  SessionInv'
<1>1. /\ session' = [session EXCEPT ![s] = session[s]] /\ got' = [got EXCEPT ![s] = got[s]]
      /\ sent' = sent
  BY DEF SessionInv, SessionTypes, sessionVars
<1>2. <<get[s].room, get[s].role>> = Box(Peer(s))
  BY ReaderFacts
<1>3. Answered(get[s], h, blobs[Box(Peer(s))], done[Box(Peer(s))])
  BY <1>2
<1>4. ReaderOK(h, session[s], Peer(s), got[s], blobs[Box(Peer(s))], done[Box(Peer(s))],
               First, sent[Peer(s)])
  BY <1>3, ReaderFacts, RequestMoved
<1> QED
  BY <1>1, <1>4, ReaderFacts, OneReaderChanged

\* An answer is put into the request.
LEMMA AnswerGiven ==
  ASSUME SessionTypes, NEW s \in Gets, NEW a \in {"blob", "done", "pending"},
         NEW x \in Blobs \union {NoBlob}, Answer(s, a, x)
  PROVE  \E h \in RequestRecord : /\ get' = [get EXCEPT ![s] = h] /\ SameRequest(get[s], h)
                                  /\ h.pc = "answered" /\ h.answer = a /\ h.blob = x
<1> DEFINE h == [get[s] EXCEPT !.pc = "answered", !.answer = a, !.blob = x]
<1>1. get[s] \in RequestRecord /\ get \in [Gets -> RequestRecord]
  BY DEF SessionTypes
<1>2. h \in RequestRecord /\ SameRequest(get[s], h) /\ h.pc = "answered" /\ h.answer = a /\ h.blob = x
  BY <1>1 DEF RequestRecord, SameRequest
<1>3. get' = [get EXCEPT ![s] = h]
  BY <1>1 DEF Answer, RequestRecord
<1> QED
  BY <1>2, <1>3

\* fetch_now answers what the mailbox holds.
LEMMA FetchNowStep ==
  ASSUME SessionInv, NEW s \in Gets, NEW next \in RequestRecord, get[s].pc # "idle", FetchNow(s, next),
         next.pc # "idle", SameRequest(get[s], next), next.answer = get[s].answer,
         next.blob = get[s].blob, UNCHANGED sessionVars
  PROVE  SessionInv'
<1> DEFINE b == <<get[s].room, get[s].role>>
<1>1. UNCHANGED <<gen, blobs, done>> /\ SessionTypes
  BY DEF FetchNow, SessionInv
<1>2. /\ get[s] \in RequestRecord /\ b = Box(Peer(s)) /\ blobs[b] \in Seq(Blobs)
      /\ get[s].seq \in Nat
  BY ReaderFacts DEF RequestRecord
<1>3. CASE Outcome(get[s].room, get[s].role, get[s].seq) = "blob"
  <2>1. get[s].seq < Len(blobs[b])
    BY <1>3 DEF Outcome
  <2>2. blobs[b][get[s].seq + 1] \in Blobs
    <3>1. get[s].seq + 1 \in 1..Len(blobs[b])
      BY <1>2, <2>1
    <3> QED
      BY <1>2, <3>1, BlobAt
  <2>3. Answer(s, "blob", blobs[b][get[s].seq + 1])
    BY <1>3 DEF FetchNow
  <2>4. PICK h \in RequestRecord :
          /\ get' = [get EXCEPT ![s] = h] /\ SameRequest(get[s], h)
          /\ h.pc = "answered" /\ h.answer = "blob" /\ h.blob = blobs[b][get[s].seq + 1]
    BY <1>1, <2>2, <2>3, AnswerGiven
  <2>5. Answered(get[s], h, blobs[b], done[b])
    BY <2>1, <2>4 DEF Answered
  <2> QED
    BY <1>1, <2>4, <2>5, RequestStep
<1>4. CASE Outcome(get[s].room, get[s].role, get[s].seq) = "done"
  <2>1. get[s].seq >= Len(blobs[b]) /\ done[b]
    BY <1>2, <1>4 DEF Outcome
  <2>2. Answer(s, "done", NoBlob)
    BY <1>4 DEF FetchNow
  <2>3. PICK h \in RequestRecord :
          /\ get' = [get EXCEPT ![s] = h] /\ SameRequest(get[s], h)
          /\ h.pc = "answered" /\ h.answer = "done"
    BY <1>1, <2>2, AnswerGiven
  <2>4. Answered(get[s], h, blobs[b], done[b])
    BY <2>1, <2>3 DEF Answered
  <2> QED
    BY <1>1, <2>3, <2>4, RequestStep
<1>5. CASE get' = [get EXCEPT ![s] = next]
  <2>1. Answered(get[s], next, blobs[b], done[b])
    BY DEF Answered
  <2> QED
    BY <1>1, <1>5, <2>1, RequestStep
<1> QED
  BY <1>3, <1>4, <1>5 DEF FetchNow

\* The server works on a request.
LEMMA HandlerStep ==
  ASSUME SessionInv, NEW s \in Gets, Handler(s) \/ Deadline(s), UNCHANGED sessionVars
  PROVE  SessionInv'
<1>1. get[s] \in RequestRecord /\ get \in [Gets -> RequestRecord] /\ SessionTypes
  BY ReaderFacts DEF SessionInv, SessionTypes
<1>2. CASE Peek(s)
  <2> DEFINE next == [get[s] EXCEPT !.pc = "arm", !.gen = gen[get[s].room]]
  <2>1. gen[get[s].room] \in Nat
    BY <1>1 DEF SessionTypes, RequestRecord
  <2>2. /\ next \in RequestRecord /\ next.pc # "idle" /\ SameRequest(get[s], next)
        /\ next.answer = get[s].answer /\ next.blob = get[s].blob
    BY <1>1, <2>1 DEF RequestRecord, SameRequest
  <2>3. get[s].pc # "idle" /\ FetchNow(s, next)
    BY <1>2 DEF Peek
  <2> QED
    BY <2>2, <2>3, FetchNowStep
<1>3. CASE Recheck(s)
  <2> DEFINE next == [get[s] EXCEPT !.pc = "await"]
  <2>1. /\ next \in RequestRecord /\ next.pc # "idle" /\ SameRequest(get[s], next)
        /\ next.answer = get[s].answer /\ next.blob = get[s].blob
    BY <1>1 DEF RequestRecord, SameRequest
  <2>2. get[s].pc # "idle" /\ FetchNow(s, next)
    BY <1>3 DEF Recheck
  <2> QED
    BY <2>1, <2>2, FetchNowStep
<1>4. CASE (Arm(s) /\ get[s].late) \/ TimeOut(s)
  <2>1. Answer(s, "pending", NoBlob) /\ get[s].pc # "idle" /\ UNCHANGED <<gen, blobs, done>>
    BY <1>4 DEF Arm, TimeOut, store
  <2>2. PICK h \in RequestRecord :
          /\ get' = [get EXCEPT ![s] = h] /\ SameRequest(get[s], h)
          /\ h.pc = "answered" /\ h.answer = "pending"
    BY <1>1, <2>1, AnswerGiven
  <2>3. LET b == <<get[s].room, get[s].role>> IN Answered(get[s], h, blobs[b], done[b])
    BY <2>2 DEF Answered
  <2> QED
    BY <2>1, <2>2, <2>3, RequestStep
<1>5. ASSUME NEW h \in RequestRecord, get' = [get EXCEPT ![s] = h], get[s].pc # "idle", h.pc # "idle",
             SameRequest(get[s], h), h.answer = get[s].answer, h.blob = get[s].blob,
             UNCHANGED store
      PROVE  SessionInv'
  <2>1. LET b == <<get[s].room, get[s].role>> IN Answered(get[s], h, blobs[b], done[b])
    BY <1>5 DEF Answered
  <2>2. UNCHANGED <<gen, blobs, done>>
    BY <1>5 DEF store
  <2> QED
    BY <1>5, <2>1, <2>2, RequestStep
<1>6. CASE Arm(s) /\ ~get[s].late
  <2> DEFINE h == [get[s] EXCEPT !.pc = "recheck", !.woken = FALSE]
  <2>1. /\ h \in RequestRecord /\ h.pc # "idle" /\ SameRequest(get[s], h)
        /\ h.answer = get[s].answer /\ h.blob = get[s].blob
    BY <1>1 DEF RequestRecord, SameRequest
  <2>2. get' = [get EXCEPT ![s] = h] /\ get[s].pc # "idle" /\ UNCHANGED store
    BY <1>1, <1>6 DEF Arm
  <2> QED
    BY <2>1, <2>2, <1>5
<1>7. CASE Wake(s)
  <2> DEFINE h == [get[s] EXCEPT !.pc = "peek"]
  <2>1. /\ h \in RequestRecord /\ h.pc # "idle" /\ SameRequest(get[s], h)
        /\ h.answer = get[s].answer /\ h.blob = get[s].blob
    BY <1>1 DEF RequestRecord, SameRequest
  <2>2. get' = [get EXCEPT ![s] = h] /\ get[s].pc # "idle" /\ UNCHANGED store
    BY <1>1, <1>7 DEF Wake
  <2> QED
    BY <2>1, <2>2, <1>5
<1>8. CASE Deadline(s)
  <2> DEFINE h == [get[s] EXCEPT !.late = TRUE]
  <2>1. /\ h \in RequestRecord /\ h.pc = get[s].pc /\ SameRequest(get[s], h)
        /\ h.answer = get[s].answer /\ h.blob = get[s].blob
    BY <1>1 DEF RequestRecord, SameRequest
  <2>2. get' = [get EXCEPT ![s] = h] /\ get[s].pc # "idle" /\ UNCHANGED store
    BY <1>1, <1>8 DEF Deadline
  <2> QED
    BY <2>1, <2>2, <1>5
<1> QED
  BY <1>2, <1>3, <1>4, <1>6, <1>7, <1>8 DEF Handler

\* A new request of the session s, which asks at its cursor.
LEMMA RequestFacts ==
  ASSUME SessionInv, NEW s \in Gets, Request(s)
  PROVE  \E h \in RequestRecord :
           /\ get' = [get EXCEPT ![s] = h] /\ h.pc = "peek" /\ h.answer = "none"
           /\ h.room = Room /\ h.role = Peer(s) /\ h.seq = session[s].recv_seq
<1> DEFINE h == [NoGet EXCEPT !.pc = "peek", !.room = Room, !.role = Peer(s),
                              !.seq = session[s].recv_seq]
<1>1. session[s].recv_seq \in Nat /\ Peer(s) \in Roles /\ Room \in Rooms
  BY ReaderFacts, GetsAreRoles DEF SessionRecord
<1>2. /\ h \in RequestRecord /\ h.pc = "peek" /\ h.answer = "none"
      /\ h.room = Room /\ h.role = Peer(s) /\ h.seq = session[s].recv_seq
  BY <1>1, NoGetRequest DEF RequestRecord
<1>3. get' = [get EXCEPT ![s] = h]
  BY DEF Request
<1> QED
  BY <1>2, <1>3

\* A session begins, repeats or loses a round trip: its cursor stays.
LEMMA SessionMoved ==
  ASSUME SessionInv, NEW s \in Gets, NEW h \in RequestRecord, NEW e \in SessionRecord,
         get' = [get EXCEPT ![s] = h], session' = [session EXCEPT ![s] = e],
         UNCHANGED <<gen, blobs, done, got, sent>>,
         h.answer = "none", e.recv_seq = session[s].recv_seq, e.pc = "recv" <=> h.pc # "idle",
         e.pc = "recv" => h.room = Room /\ h.role = Peer(s) /\ h.seq = e.recv_seq
  PROVE  SessionInv'
<1>1. got' = [got EXCEPT ![s] = got[s]]
  BY DEF SessionInv, SessionTypes
<1>2. ReaderOK(h, e, Peer(s), got[s], blobs[Box(Peer(s))], done[Box(Peer(s))], First, sent[Peer(s)])
  BY ReaderFacts, RequestReplaced
<1> QED
  BY <1>1, <1>2, ReaderFacts, OneReaderChanged

\* The steps of a session preserve the invariant.
LEMMA ClientStep ==
  ASSUME SessionInv, NEW s \in Gets, Recv(s) \/ Client(s) \/ Fail(s)
  PROVE  SessionInv'
<1>1. /\ get[s] \in RequestRecord /\ session[s] \in SessionRecord /\ got[s] \in Seq(Blobs)
      /\ session \in [Gets -> SessionRecord] /\ got \in [Gets -> Seq(Blobs)]
  BY ReaderFacts DEF SessionInv, SessionTypes
<1>2. CASE Recv(s)
  <2>1. PICK h \in RequestRecord :
          /\ get' = [get EXCEPT ![s] = h] /\ h.pc = "peek" /\ h.answer = "none"
          /\ h.room = Room /\ h.role = Peer(s) /\ h.seq = session[s].recv_seq
    BY <1>2, RequestFacts DEF Recv
  <2> DEFINE e == [session[s] EXCEPT !.pc = "recv"]
  <2>2. e \in SessionRecord /\ e.pc = "recv" /\ e.recv_seq = session[s].recv_seq
    BY <1>1 DEF SessionRecord
  <2>3. session' = [session EXCEPT ![s] = e] /\ UNCHANGED <<gen, blobs, done, got, sent>>
    BY <1>1, <1>2 DEF Recv, store
  <2> QED
    BY <2>1, <2>2, <2>3, SessionMoved
<1>3. CASE OnPending(s)
  <2>1. PICK h \in RequestRecord :
          /\ get' = [get EXCEPT ![s] = h] /\ h.pc = "peek" /\ h.answer = "none"
          /\ h.room = Room /\ h.role = Peer(s) /\ h.seq = session[s].recv_seq
    BY <1>3, RequestFacts DEF OnPending
  <2>2. /\ session' = [session EXCEPT ![s] = session[s]] /\ session[s].pc = "recv"
        /\ UNCHANGED <<gen, blobs, done, got, sent>>
    BY <1>1, <1>3 DEF OnPending, store, sessionVars
  <2> QED
    BY <1>1, <2>1, <2>2, SessionMoved
<1>4. CASE Fail(s) \/ OnDone(s)
  <2> DEFINE e == [session[s] EXCEPT !.pc = session'[s].pc]
  <2>1. /\ session' = [session EXCEPT ![s].pc = "failed"] \/ session' = [session EXCEPT ![s].pc = "ended"]
        /\ get' = [get EXCEPT ![s] = NoGet] /\ UNCHANGED <<gen, blobs, done, got, sent>>
    BY <1>4 DEF Fail, OnDone, Disconnect, Respond, store
  <2>2. PICK k \in {"failed", "ended"} : session' = [session EXCEPT ![s] = [session[s] EXCEPT !.pc = k]]
    BY <1>1, <2>1
  <2>3. /\ [session[s] EXCEPT !.pc = k] \in SessionRecord
        /\ [session[s] EXCEPT !.pc = k].recv_seq = session[s].recv_seq
        /\ [session[s] EXCEPT !.pc = k].pc # "recv"
    BY <1>1 DEF SessionRecord
  <2> QED
    BY <2>1, <2>2, <2>3, NoGetRequest, SessionMoved
<1>5. CASE OnBlob(s)
  <2> DEFINE e == [pc |-> "idle", recv_seq |-> session[s].recv_seq + 1]
             q == Append(got[s], get[s].blob)
  <2>1. /\ session' = [session EXCEPT ![s] = e] /\ got' = [got EXCEPT ![s] = q]
        /\ get' = [get EXCEPT ![s] = NoGet] /\ UNCHANGED <<gen, blobs, done, sent>>
        /\ get[s].answer = "blob"
    BY <1>5 DEF OnBlob, Advance, Respond, store
  <2>2. e \in SessionRecord /\ e.pc = "idle" /\ e.recv_seq = session[s].recv_seq + 1
    BY <1>1 DEF SessionRecord
  <2>3. get[s].blob \in Blobs
    BY <2>1, ReaderFacts DEF ReaderOK
  <2>4. q \in Seq(Blobs)
    BY <1>1, <2>3, AppendFacts
  <2> HIDE DEF e
  <2>5. ReaderOK(NoGet, e, Peer(s), q, blobs[Box(Peer(s))], done[Box(Peer(s))], First, sent[Peer(s)])
    BY <2>1, <2>2, ReaderFacts, NoGetRequest, BlobReturned
  <2> QED
    BY <2>1, <2>2, <2>4, <2>5, NoGetRequest, OneReaderChanged
<1> QED
  BY <1>2, <1>3, <1>4, <1>5 DEF Client

\* The store changes and the sessions do not; the requests are at most woken.
LEMMA StoreStep ==
  ASSUME SessionInv, NEW B, get' = Woken(B) \/ UNCHANGED get, UNCHANGED <<session, got>>,
         gen' \in [Rooms -> Nat], blobs' \in [Rooms \X Roles -> Seq(Blobs)],
         done' \in [Rooms \X Roles -> BOOLEAN], sent' \in [Roles -> 0..SendBound],
         \A r \in Roles : BoxOK(blobs'[Box(r)], sent'[r]),
         \A s \in Gets :
           ReaderOK(get[s], session[s], Peer(s), got[s], blobs'[Box(Peer(s))], done'[Box(Peer(s))],
                    First', sent'[Peer(s)])
  PROVE  SessionInv'
<1>1. get' \in [Gets -> RequestRecord] /\ \A s \in Gets : SameSeen(get[s], get'[s])
  BY WokenSeen DEF SessionInv, SessionTypes, SameSeen, SameRequest
<1>2. SessionTypes'
  BY <1>1 DEF SessionInv, SessionTypes
<1>3. BoxesOK'
  BY DEF BoxesOK, Box
<1>4. ASSUME NEW s \in Gets PROVE Reader(s)'
  <2>1. SameSeen(get[s], get'[s])
    BY <1>1
  <2>2. ReaderOK(get[s], session[s], Peer(s), got[s], blobs'[Box(Peer(s))], done'[Box(Peer(s))],
                 First', sent'[Peer(s)])
    OBVIOUS
  <2>3. ReaderOK(get'[s], session[s], Peer(s), got[s], blobs'[Box(Peer(s))], done'[Box(Peer(s))],
                 First', sent'[Peer(s)])
    BY <2>1, <2>2, RequestUnseen
  <2> QED
    BY <2>3 DEF Reader, Peer, Box
<1> QED
  BY <1>2, <1>3, <1>4 DEF SessionInv, ReadersOK

\* What a role publishes goes to its mailbox, unless it is refused.
LEMMA SendFacts ==
  ASSUME SessionInv, NEW r \in Roles, Send(r)
  PROVE  /\ sent[r] + 1 \in Blobs /\ sent' = [sent EXCEPT ![r] = sent[r] + 1]
         /\ UNCHANGED <<gen, done, session, got>> /\ Box(r) \in Rooms \X Roles
         /\ \/ /\ done[Box(r)] = FALSE
               /\ blobs' = [blobs EXCEPT ![Box(r)] = Append(blobs[Box(r)], sent[r] + 1)]
               /\ get' = Woken({Box(r)})
            \/ UNCHANGED <<blobs, get>>
<1>1. sent[r] < SendBound /\ sent[r] \in 0..SendBound /\ Box(r) \in Rooms \X Roles
  BY SessionAssumption DEF Send, SessionInv, SessionTypes, Box
<1>2. sent[r] + 1 \in Blobs
  BY <1>1, BlobsAreNumbers
<1>3. done[Box(r)] \in BOOLEAN
  BY <1>1 DEF SessionInv, SessionTypes
<1> QED
  BY <1>1, <1>2, <1>3 DEF Send, Publish, Open, Box

LEMMA SendStep ==
  ASSUME SessionInv, NEW r \in Roles, Send(r)
  PROVE  SessionInv'
<1>1. /\ sent[r] + 1 \in Blobs /\ sent' = [sent EXCEPT ![r] = sent[r] + 1]
      /\ UNCHANGED <<gen, done, session, got>> /\ Box(r) \in Rooms \X Roles
  BY SendFacts
<1>2. /\ blobs \in [Rooms \X Roles -> Seq(Blobs)] /\ sent \in [Roles -> 0..SendBound]
      /\ done \in [Rooms \X Roles -> BOOLEAN] /\ gen \in [Rooms -> Nat]
      /\ \A x \in Roles : sent[x] \in Nat /\ Box(x) \in Rooms \X Roles
  BY SessionAssumption DEF SessionInv, SessionTypes, Box
<1>3. sent' \in [Roles -> 0..SendBound] /\ sent'[r] = sent[r] + 1 /\ \A x \in Roles \ {r} : sent'[x] = sent[x]
  BY <1>1, <1>2, BlobsAreNumbers
<1>4. First' = First
  BY <1>1 DEF First
<1>5. \A x \in Roles \ {r} : Box(x) # Box(r)
  BY DEF Box
<1>6. CASE /\ done[Box(r)] = FALSE
           /\ blobs' = [blobs EXCEPT ![Box(r)] = Append(blobs[Box(r)], sent[r] + 1)]
           /\ get' = Woken({Box(r)})
  <2>1. /\ blobs' \in [Rooms \X Roles -> Seq(Blobs)]
        /\ blobs'[Box(r)] = Append(blobs[Box(r)], sent[r] + 1)
        /\ \A x \in Roles \ {r} : blobs'[Box(x)] = blobs[Box(x)]
    <3>1. blobs[Box(r)] \in Seq(Blobs)
      BY <1>1, <1>2
    <3>2. Append(blobs[Box(r)], sent[r] + 1) \in Seq(Blobs)
      BY <1>1, <3>1, AppendFacts
    <3> QED
      BY <1>1, <1>2, <1>5, <1>6, <3>2
  <2>2. ASSUME NEW x \in Roles PROVE BoxOK(blobs'[Box(x)], sent'[x])
    <3>1. BoxOK(blobs[Box(x)], sent[x]) /\ blobs[Box(x)] \in Seq(Blobs)
      BY <1>2 DEF SessionInv, BoxesOK
    <3>2. CASE x = r
      <4>1. BoxOK(blobs[Box(r)], sent[r]) /\ blobs[Box(r)] \in Seq(Blobs) /\ sent[r] \in Nat
        BY <1>2, <3>1, <3>2
      <4>2. BoxOK(Append(blobs[Box(r)], sent[r] + 1), sent[r] + 1)
        BY <1>1, <4>1, BoxAppended
      <4> QED
        BY <1>3, <2>1, <3>2, <4>2
    <3>3. CASE x # r
      BY <1>3, <2>1, <3>1, <3>3
    <3> QED
      BY <3>2, <3>3
  <2>3. ASSUME NEW s \in Gets
        PROVE  ReaderOK(get[s], session[s], Peer(s), got[s], blobs'[Box(Peer(s))],
                        done'[Box(Peer(s))], First', sent'[Peer(s)])
    <3>1. Peer(s) \in Roles
      BY GetsAreRoles
    <3>2. CASE Peer(s) = r
      <4>1. ReaderOK(get[s], session[s], r, got[s], blobs[Box(r)], FALSE, First, sent[r])
        BY <1>6, <3>2, ReaderFacts
      <4>2. /\ get[s] \in RequestRecord /\ session[s] \in SessionRecord /\ got[s] \in Seq(Blobs)
            /\ blobs[Box(r)] \in Seq(Blobs) /\ sent[r] \in Nat
        BY <3>2, ReaderFacts
      <4>3. ReaderOK(get[s], session[s], r, got[s], Append(blobs[Box(r)], sent[r] + 1), FALSE, First,
                     sent[r] + 1)
        BY <1>1, <4>1, <4>2, PeerPublished
      <4> QED
        BY <1>1, <1>3, <1>4, <1>6, <2>1, <3>2, <4>3
    <3>3. CASE Peer(s) # r
      <4>1. blobs'[Box(Peer(s))] = blobs[Box(Peer(s))] /\ sent'[Peer(s)] = sent[Peer(s)]
        BY <1>3, <2>1, <3>1, <3>3
      <4> QED
        BY <1>1, <1>4, <4>1, ReaderFacts
    <3> QED
      BY <3>2, <3>3
  <2> QED
    BY <1>1, <1>2, <1>3, <1>6, <2>1, <2>2, <2>3, StoreStep
<1>7. CASE UNCHANGED <<blobs, get>>
  <2>1. ASSUME NEW x \in Roles PROVE BoxOK(blobs'[Box(x)], sent'[x])
    <3>1. BoxOK(blobs[Box(x)], sent[x]) /\ blobs[Box(x)] \in Seq(Blobs)
      BY <1>2 DEF SessionInv, BoxesOK
    <3>2. CASE x = r
      BY <1>2, <1>3, <1>7, <3>1, <3>2, BoxRaised
    <3>3. CASE x # r
      BY <1>3, <1>7, <3>1, <3>3
    <3> QED
      BY <3>2, <3>3
  <2>2. ASSUME NEW s \in Gets
        PROVE  ReaderOK(get[s], session[s], Peer(s), got[s], blobs'[Box(Peer(s))],
                        done'[Box(Peer(s))], First', sent'[Peer(s)])
    <3>1. Peer(s) \in Roles
      BY GetsAreRoles
    <3>2. CASE Peer(s) = r
      <4>1. ReaderOK(get[s], session[s], Peer(s), got[s], blobs[Box(Peer(s))],
                     done[Box(Peer(s))], First, sent[Peer(s)] + 1)
        BY ReaderFacts, PeerRefused
      <4> QED
        BY <1>1, <1>3, <1>4, <1>7, <3>2, <4>1
    <3>3. CASE Peer(s) # r
      BY <1>1, <1>3, <1>4, <1>7, <3>1, <3>3, ReaderFacts
    <3> QED
      BY <3>2, <3>3
  <2> QED
    BY <1>1, <1>2, <1>3, <1>7, <2>1, <2>2, StoreStep
<1> QED
  BY <1>6, <1>7, SendFacts

LEMMA DoneStep ==
  ASSUME SessionInv, NEW r \in Roles, Done(r)
  PROVE  SessionInv'
<1>1. /\ done' = [done EXCEPT ![Box(r)] = TRUE] /\ get' = Woken({Box(r)})
      /\ UNCHANGED <<gen, blobs, session, got, sent>>
  BY DEF Done, MarkDone, DoneWakes, sessionVars, Box
<1>2. /\ blobs \in [Rooms \X Roles -> Seq(Blobs)] /\ sent \in [Roles -> 0..SendBound]
      /\ done \in [Rooms \X Roles -> BOOLEAN] /\ gen \in [Rooms -> Nat]
      /\ \A x \in Roles : BoxOK(blobs[Box(x)], sent[x])
  BY DEF SessionInv, SessionTypes, BoxesOK
<1>3. done' \in [Rooms \X Roles -> BOOLEAN] /\ \A b \in Rooms \X Roles : done'[b] = TRUE \/ done'[b] = done[b]
  BY <1>1, <1>2
<1>4. First' = First
  BY <1>1 DEF First
<1>5. ASSUME NEW s \in Gets
      PROVE  ReaderOK(get[s], session[s], Peer(s), got[s], blobs'[Box(Peer(s))],
                      done'[Box(Peer(s))], First', sent'[Peer(s)])
  <2>1. ReaderOK(get[s], session[s], Peer(s), got[s], blobs[Box(Peer(s))],
                 done[Box(Peer(s))], First, sent[Peer(s)])
    BY ReaderFacts
  <2>2. CASE done'[Box(Peer(s))] = TRUE
    BY <1>1, <1>4, <2>1, <2>2, PeerDone
  <2>3. CASE done'[Box(Peer(s))] = done[Box(Peer(s))]
    BY <1>1, <1>4, <2>1, <2>3
  <2> QED
    BY <1>3, <2>2, <2>3, GetsAreRoles
<1> QED
  BY <1>1, <1>2, <1>3, <1>5, StoreStep

\* Rooms leave the map.
LEMMA RemoveFacts ==
  ASSUME SessionInv, NEW S, Remove(S)
  PROVE  /\ gen' \in [Rooms -> Nat] /\ blobs' \in [Rooms \X Roles -> Seq(Blobs)]
         /\ done' \in [Rooms \X Roles -> BOOLEAN] /\ get' = Woken(S \X Roles)
         /\ Room \in S => /\ gen'[Room] > 0
                          /\ \A r \in Roles : blobs'[Box(r)] = <<>> /\ done'[Box(r)] = FALSE
         /\ Room \notin S => /\ gen'[Room] = gen[Room]
                             /\ \A r \in Roles : blobs'[Box(r)] = blobs[Box(r)] /\ done'[Box(r)] = done[Box(r)]
<1>1. gen \in [Rooms -> Nat] /\ blobs \in [Rooms \X Roles -> Seq(Blobs)]
      /\ done \in [Rooms \X Roles -> BOOLEAN] /\ Room \in Rooms
  BY SessionAssumption DEF SessionInv, SessionTypes
<1>2. /\ gen' = [r \in Rooms |-> IF r \in S THEN gen[r] + 1 ELSE gen[r]]
      /\ blobs' = [b \in Rooms \X Roles |-> IF b \in S \X Roles THEN <<>> ELSE blobs[b]]
      /\ done' = [b \in Rooms \X Roles |-> IF b \in S \X Roles THEN FALSE ELSE done[b]]
      /\ get' = Woken(S \X Roles)
  BY DEF Remove
<1>3. \A r \in Roles : Box(r) \in Rooms \X Roles /\ (Box(r) \in S \X Roles <=> Room \in S)
  BY <1>1 DEF Box
<1>4. gen' \in [Rooms -> Nat] /\ done' \in [Rooms \X Roles -> BOOLEAN]
  <2>1. gen' \in [Rooms -> Nat]
    <3>1. \A r \in Rooms : (IF r \in S THEN gen[r] + 1 ELSE gen[r]) \in Nat
      BY <1>1
    <3> QED
      BY <1>2, <3>1
  <2>2. done' \in [Rooms \X Roles -> BOOLEAN]
    BY <1>1, <1>2
  <2> QED
    BY <2>1, <2>2
<1>5. blobs' \in [Rooms \X Roles -> Seq(Blobs)]
  <2>1. <<>> \in Seq(Blobs)
    OBVIOUS
  <2> QED
    BY <1>1, <1>2, <2>1
<1>6. Room \in S => /\ gen'[Room] > 0
                    /\ \A r \in Roles : blobs'[Box(r)] = <<>> /\ done'[Box(r)] = FALSE
  <2> SUFFICES ASSUME Room \in S
               PROVE  /\ gen'[Room] > 0
                      /\ \A r \in Roles : blobs'[Box(r)] = <<>> /\ done'[Box(r)] = FALSE
    OBVIOUS
  <2>1. gen'[Room] = gen[Room] + 1 /\ gen[Room] \in Nat
    BY <1>1, <1>2
  <2>2. gen'[Room] > 0
    <3> HIDE <1>2
    <3> QED
      BY <2>1
  <2>3. \A r \in Roles : blobs'[Box(r)] = <<>>
    BY <1>2, <1>3
  <2>4. \A r \in Roles : done'[Box(r)] = FALSE
    BY <1>2, <1>3
  <2> QED
    BY <2>2, <2>3, <2>4
<1>7. Room \notin S => /\ gen'[Room] = gen[Room]
                       /\ \A r \in Roles : blobs'[Box(r)] = blobs[Box(r)] /\ done'[Box(r)] = done[Box(r)]
  BY <1>1, <1>2, <1>3
<1> QED
  BY <1>2, <1>4, <1>5, <1>6, <1>7

LEMMA RemoveStep ==
  ASSUME SessionInv, NEW S, Remove(S), UNCHANGED sessionVars
  PROVE  SessionInv'
<1>1. UNCHANGED <<session, got, sent>> /\ sent \in [Roles -> 0..SendBound] /\ SendBound \in Nat
  BY BlobsAreNumbers DEF sessionVars, SessionInv, SessionTypes
<1>2. CASE Room \in S
  <2>1. ASSUME NEW x \in Roles PROVE BoxOK(blobs'[Box(x)], sent'[x])
    <3>1. blobs'[Box(x)] = <<>>
      BY <1>2, RemoveFacts
    <3>2. sent'[x] \in Nat
      BY <1>1
    <3> QED
      BY <3>1, <3>2, BoxEmpty
  <2>2. First' = FALSE
    <3>1. gen'[Room] > 0 /\ gen'[Room] \in Nat
      BY <1>2, RemoveFacts, SessionAssumption
    <3>2. ~(gen'[Room] = 0)
      BY <3>1
    <3> QED
      BY <3>2 DEF First
  <2>3. ASSUME NEW s \in Gets
        PROVE  ReaderOK(get[s], session[s], Peer(s), got[s], blobs'[Box(Peer(s))],
                        done'[Box(Peer(s))], First', sent'[Peer(s)])
    <3>1. blobs'[Box(Peer(s))] = <<>> /\ done'[Box(Peer(s))] = FALSE /\ First' = FALSE
      BY <1>2, <2>2, RemoveFacts, GetsAreRoles
    <3>2. ReaderOK(get[s], session[s], Peer(s), got[s], <<>>, FALSE, FALSE, sent[Peer(s)])
      BY ReaderFacts, RoomRemoved
    <3> QED
      BY <1>1, <3>1, <3>2
  <2> QED
    BY <1>1, <2>1, <2>3, RemoveFacts, StoreStep
<1>3. CASE Room \notin S
  <2>1. ASSUME NEW x \in Roles PROVE BoxOK(blobs'[Box(x)], sent'[x])
    BY <1>1, <1>3, RemoveFacts DEF SessionInv, BoxesOK
  <2>2. First' = First
    BY <1>3, RemoveFacts DEF First
  <2>3. ASSUME NEW s \in Gets
        PROVE  ReaderOK(get[s], session[s], Peer(s), got[s], blobs'[Box(Peer(s))],
                        done'[Box(Peer(s))], First', sent'[Peer(s)])
    <3>1. blobs'[Box(Peer(s))] = blobs[Box(Peer(s))] /\ done'[Box(Peer(s))] = done[Box(Peer(s))]
      BY <1>3, RemoveFacts, GetsAreRoles
    <3> QED
      BY <1>1, <2>2, <3>1, ReaderFacts
  <2> QED
    BY <1>1, <2>1, <2>3, RemoveFacts, StoreStep
<1> QED
  BY <1>2, <1>3

\* Nothing that is promised changes.
LEMMA QuietStep ==
  ASSUME SessionInv, UNCHANGED <<gen, blobs, done, get, session, got, sent>>
  PROVE  SessionInv'
<1>1. SessionTypes' /\ BoxesOK'
  BY DEF SessionInv, SessionTypes, BoxesOK
<1>2. ASSUME NEW s \in Gets PROVE Reader(s)'
  BY DEF SessionInv, ReadersOK, Reader, First
<1> QED
  BY <1>1, <1>2 DEF SessionInv, ReadersOK

\* What the server does by itself.
LEMMA ServerCases ==
  ASSUME Server
  PROVE  /\ UNCHANGED sessionVars
         /\ \/ \E S : Remove(S)
            \/ UNCHANGED <<gen, blobs, done, get>>
            \/ \E s \in Gets : Handler(s) \/ Deadline(s)
  BY DEF Server, Delete, EvictExpired, Expire

\* Every step preserves the invariant.
LEMMA SessionInvStep == SessionInv /\ [SessionNext]_allVars => SessionInv'
<1> SUFFICES ASSUME SessionInv, [SessionNext]_allVars PROVE SessionInv'
  OBVIOUS
<1>1. CASE \E r \in Roles : Send(r) \/ Done(r)
  BY <1>1, SendStep, DoneStep
<1>2. CASE \E s \in Gets : Recv(s) \/ Client(s) \/ Fail(s)
  BY <1>2, ClientStep
<1>3. CASE Server
  <2>1. UNCHANGED <<session, got, sent>>
    BY <1>3, ServerCases DEF sessionVars
  <2>2. CASE UNCHANGED <<gen, blobs, done, get>>
    BY <2>1, <2>2, QuietStep
  <2> QED
    BY <1>3, <2>2, ServerCases, RemoveStep, HandlerStep
<1>4. CASE UNCHANGED allVars
  BY <1>4, QuietStep DEF allVars, vars, store, sessionVars
<1> QED
  BY <1>1, <1>2, <1>3, <1>4 DEF SessionNext

LEMMA SessionInvInit == SessionInit => SessionInv
<1> SUFFICES ASSUME SessionInit PROVE SessionInv
  OBVIOUS
<1>1. SendBound \in Nat /\ NoGet \in RequestRecord /\ NoGet.pc = "idle" /\ NoGet.answer = "none"
  BY BlobsAreNumbers, NoGetRequest
<1>2. SessionTypes
  BY <1>1 DEF SessionInit, Init, SessionTypes, SessionRecord
<1>3. ASSUME NEW r \in Roles PROVE blobs[Box(r)] = <<>> /\ sent[r] = 0
  BY SessionAssumption DEF SessionInit, Init, Box
<1>4. BoxesOK
  BY <1>3, BoxEmpty DEF BoxesOK
<1>5. ASSUME NEW s \in Gets PROVE Reader(s)
  <2>1. /\ get[s] = NoGet /\ session[s].pc = "idle" /\ session[s].recv_seq = 0
        /\ got[s] = <<>> /\ blobs[Box(Peer(s))] = <<>>
    BY <1>3, GetsAreRoles DEF SessionInit, Init
  <2> QED
    BY <1>1, <2>1 DEF Reader, ReaderOK
<1> QED
  BY <1>2, <1>4, <1>5 DEF SessionInv, ReadersOK

THEOREM SessionInvHolds == SessionSpec => []SessionInv
  BY SessionInvInit, SessionInvStep, PTL DEF SessionSpec

-----------------------------------------------------------------------------
(* The contract *)

\* A role that is read has its reader.
LEMMA ReaderOf ==
  ASSUME NEW r \in Readers
  PROVE  Peer(r) \in Gets /\ r \in Roles /\ Peer(Peer(r)) = r
  BY GetsAreRoles DEF Readers

\* A role's reader has a role to read.
LEMMA ReadBy ==
  ASSUME NEW s \in Gets
  PROVE  Peer(s) \in Readers
  BY DEF Readers

\* Nothing changes that the contract speaks of.
Stutter ==
  /\ \A r \in Readers : /\ blobs'[Box(r)] = blobs[Box(r)] /\ done'[Box(r)] = done[Box(r)]
                        /\ got'[Peer(r)] = got[Peer(r)]
                        /\ session'[Peer(r)].pc = "ended" <=> session[Peer(r)].pc = "ended"
  /\ gen'[Room] = gen[Room]
LEMMA StutterIsContractStutter ==
  ASSUME Stutter PROVE UNCHANGED Contract!vars
  BY DEF Stutter, Box, Contract!vars

\* What was returned and the next blob begin the mailbox.
LEMMA NextIsPrefix ==
  ASSUME NEW q \in Seq(Blobs), NEW b \in Seq(Blobs), Len(q) < Len(b),
         \A i \in 1..Len(q) : q[i] = b[i]
  PROVE  Contract!IsPrefix(Append(q, b[Len(q) + 1]), b)
<1> DEFINE n == Append(q, b[Len(q) + 1])
<1>1. b[Len(q) + 1] \in Blobs
  BY BlobAt
<1>2. /\ n \in Seq(Blobs) /\ Len(n) = Len(q) + 1 /\ Len(q) \in Nat /\ n[Len(q) + 1] = b[Len(q) + 1]
      /\ \A i \in 1..Len(q) : n[i] = q[i]
  BY <1>1, AppendFacts
<1>3. \A i \in 1..Len(n) : n[i] = b[i]
  BY <1>2
<1>4. Len(n) <= Len(b) /\ Len(b) \in Nat
  BY <1>2
<1> HIDE DEF n
<1>5. SubSeq(n, 1, Len(n)) = SubSeq(b, 1, Len(n))
  BY <1>2, <1>3, <1>4
<1> QED
  BY <1>4, <1>5 DEF Contract!IsPrefix, n

\* A handler only answers.
LEMMA HandlerContract ==
  ASSUME NEW s \in Gets, Handler(s) \/ Deadline(s), UNCHANGED sessionVars
  PROVE  Stutter
<1>1. UNCHANGED <<gen, blobs, done>>
  BY DEF Handler, Peek, Arm, Recheck, FetchNow, Wake, TimeOut, Deadline, store
<1> QED
  BY <1>1 DEF sessionVars, Stutter

\* A publish is the contract's, or refused.
LEMMA SendContract ==
  ASSUME SessionInv, NEW r \in Roles, Send(r)
  PROVE  [Contract!Next]_(Contract!vars)
<1>1. /\ sent[r] + 1 \in Blobs /\ UNCHANGED <<gen, done, session, got>>
      /\ blobs \in [Rooms \X Roles -> Seq(Blobs)]
      /\ \A x \in Roles : Box(x) \in Rooms \X Roles /\ (x # r => Box(x) # Box(r))
  BY SendFacts, SessionAssumption DEF SessionInv, SessionTypes, Box
<1>2. CASE /\ done[Box(r)] = FALSE
           /\ blobs' = [blobs EXCEPT ![Box(r)] = Append(blobs[Box(r)], sent[r] + 1)]
  <2>1. /\ blobs'[Box(r)] = Append(blobs[Box(r)], sent[r] + 1)
        /\ \A x \in Roles : x # r => blobs'[Box(x)] = blobs[Box(x)]
    BY <1>1, <1>2
  <2>2. CASE r \in Readers
    <3>1. \A x \in Readers : x \in Roles
      BY ReaderOf
    <3>2. PICK b \in Blobs : b = sent[r] + 1
      BY <1>1
    <3>3. Contract!Publish(r, b)
      BY <1>1, <1>2, <2>1, <2>2, <3>1, <3>2 DEF Contract!Publish, Box
    <3> QED
      BY <2>2, <3>3 DEF Contract!Next
  <2>3. CASE r \notin Readers
    <3>1. Stutter
      BY <1>1, <2>1, <2>3, ReaderOf DEF Stutter
    <3> QED
      BY <3>1, StutterIsContractStutter
  <2> QED
    BY <2>2, <2>3
<1>3. CASE UNCHANGED blobs
  <2>1. Stutter
    BY <1>1, <1>3 DEF Stutter
  <2> QED
    BY <2>1, StutterIsContractStutter
<1> QED
  BY <1>2, <1>3, SendFacts

LEMMA DoneContract ==
  ASSUME SessionInv, NEW r \in Roles, Done(r)
  PROVE  [Contract!Next]_(Contract!vars)
<1>1. /\ done' = [done EXCEPT ![Box(r)] = TRUE] /\ UNCHANGED <<gen, blobs, session, got>>
      /\ done \in [Rooms \X Roles -> BOOLEAN]
      /\ \A x \in Roles : Box(x) \in Rooms \X Roles /\ (x # r => Box(x) # Box(r))
  BY SessionAssumption DEF Done, MarkDone, sessionVars, Box, SessionInv, SessionTypes
<1>2. /\ done'[Box(r)] = TRUE
      /\ \A x \in Roles : x # r => done'[Box(x)] = done[Box(x)]
  BY <1>1
<1>3. CASE r \in Readers
  <2>1. {x \in Readers : done'[Box(x)]} = {x \in Readers : done[Box(x)]} \union {r}
    BY <1>2, <1>3, ReaderOf
  <2>2. Contract!Freeze(r)
    BY <1>1, <2>1 DEF Contract!Freeze, Box
  <2> QED
    BY <1>3, <2>2 DEF Contract!Next
<1>4. CASE r \notin Readers
  <2>1. \A x \in Readers : done'[Box(x)] = done[Box(x)]
    BY <1>2, <1>4, ReaderOf
  <2>2. Stutter
    BY <1>1, <2>1 DEF Stutter
  <2> QED
    BY <2>2, StutterIsContractStutter
<1> QED
  BY <1>3, <1>4

LEMMA RemoveContract ==
  ASSUME SessionInv, NEW S, Remove(S), UNCHANGED sessionVars
  PROVE  [Contract!Next]_(Contract!vars)
<1>1. UNCHANGED <<session, got>>
  BY DEF sessionVars
<1>2. CASE Room \in S
  <2>1. /\ gen'[Room] > 0
        /\ \A r \in Readers : blobs'[Box(r)] = <<>> /\ done'[Box(r)] = FALSE
    BY <1>2, RemoveFacts, ReaderOf
  <2>2. {r \in Readers : done'[Box(r)]} = {}
    BY <2>1
  <2>3. Contract!Replace
    BY <1>1, <2>1, <2>2 DEF Contract!Replace, Box
  <2> QED
    BY <2>3 DEF Contract!Next
<1>3. CASE Room \notin S
  <2>1. Stutter
    BY <1>1, <1>3, RemoveFacts, ReaderOf DEF Stutter
  <2> QED
    BY <2>1, StutterIsContractStutter
<1> QED
  BY <1>2, <1>3

\* A recv that returns a blob receives the next one.
LEMMA BlobContract ==
  ASSUME SessionInv, NEW s \in Gets, OnBlob(s)
  PROVE  Contract!Next
<1> DEFINE r == Peer(s)
           x == get[s].blob
<1>1. /\ session' = [session EXCEPT ![s] = [pc |-> "idle", recv_seq |-> Advance(s)]]
      /\ got' = [got EXCEPT ![s] = Append(got[s], x)]
      /\ UNCHANGED <<gen, blobs, done>> /\ get[s].answer = "blob" /\ session[s].pc = "recv"
  BY DEF OnBlob, Respond, store
<1>2. /\ got \in [Gets -> Seq(Blobs)] /\ session \in [Gets -> SessionRecord]
      /\ got[s] \in Seq(Blobs) /\ blobs[Box(r)] \in Seq(Blobs) /\ gen[Room] \in Nat
  BY ReaderFacts, SessionAssumption DEF SessionInv, SessionTypes
<1>3. /\ x \in Blobs
      /\ \A i \in 1..Len(got[s]) : got[s][i] < x
      /\ First => /\ Len(got[s]) < Len(blobs[Box(r)]) /\ x = blobs[Box(r)][Len(got[s]) + 1]
                  /\ \A i \in 1..Len(got[s]) : got[s][i] = blobs[Box(r)][i]
  BY <1>1, ReaderFacts DEF ReaderOK
<1>4. r \in Readers /\ Peer(r) = s /\ \A y \in Readers : Peer(y) \in Gets /\ (y # r => Peer(y) # s)
  BY ReadBy, ReaderOf, GetsAreRoles
<1>5. ~(gen[Room] > 0) => Contract!IsPrefix(Append(got[s], x), blobs[Box(r)])
  <2>1. ~(gen[Room] > 0) => First
    BY <1>2 DEF First
  <2> QED
    BY <1>2, <1>3, <2>1, NextIsPrefix
<1>6. \A y \in Readers : session'[Peer(y)].pc = "ended" <=> session[Peer(y)].pc = "ended"
  BY <1>1, <1>2, <1>4
<1>7. \A y \in Readers : got'[Peer(y)] = IF y = r THEN Append(got[s], x) ELSE got[Peer(y)]
  BY <1>1, <1>2, <1>4
<1> HIDE DEF r, x
<1>8. Contract!Receive(r, x)
  <2>1. Contract!Later(r, x)
    BY <1>3, <1>4 DEF Contract!Later
  <2>2. ~(gen[Room] > 0) => Contract!IsPrefix(Append([y \in Readers |-> got[Peer(y)]][r], x),
                                              [y \in Readers |-> blobs[<<Room, y>>]][r])
    BY <1>4, <1>5 DEF Box
  <2>3. [y \in Readers |-> got'[Peer(y)]]
          = [[y \in Readers |-> got[Peer(y)]] EXCEPT ![r] = Append(@, x)]
    BY <1>4, <1>7
  <2>4. {y \in Readers : session'[Peer(y)].pc = "ended"} = {y \in Readers : session[Peer(y)].pc = "ended"}
    BY <1>6
  <2> QED
    BY <1>1, <2>1, <2>2, <2>3, <2>4 DEF Contract!Receive
<1> QED
  BY <1>3, <1>4, <1>8 DEF Contract!Next

\* A recv that returns none has received all there was.
LEMMA EndContract ==
  ASSUME SessionInv, NEW s \in Gets, OnDone(s)
  PROVE  Contract!Next
<1> DEFINE r == Peer(s)
<1>1. /\ session' = [session EXCEPT ![s].pc = "ended"] /\ got' = got
      /\ UNCHANGED <<gen, blobs, done>> /\ get[s].answer = "done"
  BY DEF OnDone, Respond, store
<1>2. /\ session \in [Gets -> SessionRecord]
      /\ got[s] \in Seq(Blobs) /\ blobs[Box(r)] \in Seq(Blobs) /\ gen[Room] \in Nat
  BY ReaderFacts, SessionAssumption DEF SessionInv, SessionTypes
<1>3. First => /\ done[Box(r)] /\ Len(got[s]) = Len(blobs[Box(r)])
               /\ \A i \in 1..Len(got[s]) : got[s][i] = blobs[Box(r)][i]
  BY <1>1, ReaderFacts DEF ReaderOK
<1>4. r \in Readers /\ Peer(r) = s /\ \A y \in Readers : Peer(y) \in Gets /\ (y # r => Peer(y) # s)
  BY ReadBy, ReaderOf, GetsAreRoles
<1>5. ~(gen[Room] > 0) => done[Box(r)] /\ got[s] = blobs[Box(r)]
  <2>1. ~(gen[Room] > 0) => First
    BY <1>2 DEF First
  <2> QED
    BY <1>2, <1>3, <2>1
<1>6. \A y \in Readers : session'[Peer(y)].pc = "ended" <=> y = r \/ session[Peer(y)].pc = "ended"
  <2> TAKE y \in Readers
  <2>1. session'[s].pc = "ended" /\ \A z \in Gets \ {s} : session'[z] = session[z]
    BY <1>1, <1>2 DEF SessionRecord
  <2> QED
    BY <1>4, <2>1
<1> HIDE DEF r
<1>7. Contract!End(r)
  <2>1. {y \in Readers : session'[Peer(y)].pc = "ended"}
          = {y \in Readers : session[Peer(y)].pc = "ended"} \union {r}
    BY <1>4, <1>6
  <2>2. ~(gen[Room] > 0) => /\ r \in {y \in Readers : done[<<Room, y>>]}
                            /\ [y \in Readers |-> got[Peer(y)]][r] = [y \in Readers |-> blobs[<<Room, y>>]][r]
    BY <1>4, <1>5 DEF Box
  <2> QED
    BY <1>1, <2>1, <2>2 DEF Contract!End
<1> QED
  BY <1>4, <1>7 DEF Contract!Next

\* The other steps of a session are not the contract's.
LEMMA QuietContract ==
  ASSUME SessionInv, NEW s \in Gets, Recv(s) \/ OnPending(s) \/ Fail(s)
  PROVE  Stutter
<1>1. /\ session \in [Gets -> SessionRecord] /\ session[s].pc \in {"idle", "failed", "recv"}
      /\ UNCHANGED <<gen, blobs, done, got>>
  BY DEF SessionInv, SessionTypes, Recv, OnPending, Fail, Disconnect, store, sessionVars
<1>2. \/ session' = session
      \/ session' = [session EXCEPT ![s].pc = "recv"]
      \/ session' = [session EXCEPT ![s].pc = "failed"]
  BY DEF Recv, OnPending, Fail, sessionVars
<1>3. \A y \in Gets : session'[y].pc = "ended" <=> session[y].pc = "ended"
  BY <1>1, <1>2 DEF SessionRecord
<1> QED
  BY <1>1, <1>3, ReaderOf DEF Stutter

\* mailbox.wit:36-64: a session reads its peer's mailbox in publish order,
\* every blob once and to its end, whatever round trips fail, time out or are
\* repeated; a removal of the room may lose blobs but never their order.
THEOREM SessionsImplementContract == SessionSpec => ImplementsContract
<1>1. SessionInit => Contract!Init
  <2> SUFFICES ASSUME SessionInit PROVE Contract!Init
    OBVIOUS
  <2>1. ASSUME NEW r \in Readers
        PROVE  /\ blobs[Box(r)] = <<>> /\ done[Box(r)] = FALSE /\ got[Peer(r)] = <<>>
               /\ session[Peer(r)].pc = "idle"
    BY ReaderOf, SessionAssumption DEF SessionInit, Init, Box
  <2>2. ~(gen[Room] > 0)
    BY SessionAssumption DEF SessionInit, Init
  <2>3. {r \in Readers : done[Box(r)]} = {} /\ {r \in Readers : session[Peer(r)].pc = "ended"} = {}
    BY <2>1
  <2>4. /\ [r \in Readers |-> blobs[Box(r)]] = [r \in Readers |-> <<>>]
        /\ [r \in Readers |-> got[Peer(r)]] = [r \in Readers |-> <<>>]
    BY <2>1
  <2>5. (gen[Room] > 0) = FALSE
    BY <2>2
  <2> QED
    BY <2>3, <2>4, <2>5 DEF Contract!Init, Box
<1>2. SessionInv /\ [SessionNext]_allVars => [Contract!Next]_(Contract!vars)
  <2> SUFFICES ASSUME SessionInv, [SessionNext]_allVars PROVE [Contract!Next]_(Contract!vars)
    OBVIOUS
  <2>1. CASE \E r \in Roles : Send(r) \/ Done(r)
    BY <2>1, SendContract, DoneContract
  <2>2. CASE \E s \in Gets : Recv(s) \/ Client(s) \/ Fail(s)
    BY <2>2, QuietContract, StutterIsContractStutter, BlobContract, EndContract DEF Client
  <2>3. CASE Server
    <3>1. CASE UNCHANGED <<gen, blobs, done, get>>
      <4>1. Stutter
        BY <2>3, <3>1, ServerCases DEF Stutter, sessionVars
      <4> QED
        BY <4>1, StutterIsContractStutter
    <3> QED
      BY <2>3, <3>1, ServerCases, RemoveContract, HandlerContract, StutterIsContractStutter
  <2>4. CASE UNCHANGED allVars
    <3>1. Stutter
      BY <2>4 DEF Stutter, allVars, vars, store, sessionVars
    <3> QED
      BY <3>1, StutterIsContractStutter
  <2> QED
    BY <2>1, <2>2, <2>3, <2>4 DEF SessionNext
<1> QED
  BY <1>1, <1>2, SessionInvHolds, PTL DEF SessionSpec, ImplementsContract, Contract!Spec
=============================================================================
