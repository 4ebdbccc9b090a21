------------------------------- MODULE Mailbox -------------------------------
(***************************************************************************)
(* The store of conformance-signalingd (signaling/server/src/state.rs) and  *)
(* the handlers that call it (lib.rs): rooms with one append-only mailbox   *)
(* per role, fetched by sequence number with a long poll.                   *)
(*                                                                          *)
(* The server is multi-threaded, but each method of the store holds the     *)
(* write lock for its whole body and is one action.  A long-polling GET is  *)
(* several: it peeks, arms a Notified future, peeks again and waits.  A     *)
(* mailbox's Notify is woken with notify_waiters, which reaches only the    *)
(* Notified futures that exist at that moment, and a room that is removed   *)
(* and used again has new Notifys: gen[r] counts the removals of room r and *)
(* a GET remembers the generation of the Notify it holds.                   *)
(***************************************************************************)
EXTENDS Naturals, Sequences, FiniteSets

CONSTANTS Rooms,       \* room ids clients use
          Roles,       \* roles whose mailboxes are used: offerer, answerer
          Blobs,       \* contents of blobs
          NoBlob,      \* the absence of a blob
          Gets,        \* long-polling requests in flight at a time
          MaxRooms,    \* Limits.max_rooms (0 = unlimited)
          MaxBlobs,    \* Limits.max_blobs_per_mailbox (0 = unlimited)
          BlobBound,   \* bound: blobs published to one mailbox
          GenBound     \* bound: removals of one room

ASSUME MailboxAssumption ==
  /\ {MaxRooms, MaxBlobs, BlobBound, GenBound} \subseteq Nat
  /\ Rooms # {} /\ Roles # {}
  /\ NoBlob \notin Blobs

VARIABLES live,      \* rooms in the map
          stale,     \* rooms untouched for longer than room_ttl
          gen,       \* removals of each room so far
          blobs,     \* [Rooms \X Roles -> Seq(Blobs)]
          done,      \* [Rooms \X Roles -> BOOLEAN]
          get,       \* the GET requests in flight
          history    \* the answers given, for the properties

store == <<live, stale, gen, blobs, done>>
vars == <<store, get, history>>

NoGet == [pc |-> "idle", room |-> CHOOSE r \in Rooms : TRUE, 
          role |-> CHOOSE x \in Roles : TRUE, seq |-> 0,
          gen |-> 0, woken |-> FALSE, late |-> FALSE, answer |-> "none",
          blob |-> NoBlob]
GetRecord == [pc : {"idle", "peek", "arm", "recheck", "await", "answered"}, room : Rooms,
              role : Roles, seq : 0..BlobBound, gen : 0..GenBound, woken : BOOLEAN,
              late : BOOLEAN, answer : {"none", "blob", "done", "pending"},
              blob : Blobs \union {NoBlob}]
Answers == [room : Rooms, role : Roles, gen : 0..GenBound, seq : 0..BlobBound,
            answer : {"blob", "done"}, blob : Blobs \union {NoBlob}]

TypeOK ==
  /\ live \in SUBSET Rooms
  /\ stale \in SUBSET live
  /\ gen \in [Rooms -> 0..GenBound]
  /\ blobs \in [Rooms \X Roles -> Seq(Blobs)]
  /\ MaxBlobs # 0 => \A b \in Rooms \X Roles : Len(blobs[b]) <= MaxBlobs
  /\ done \in [Rooms \X Roles -> BOOLEAN]
  /\ get \in [Gets -> GetRecord]
  /\ history \in SUBSET Answers

Init ==
  /\ live = {} /\ stale = {}
  /\ gen = [r \in Rooms |-> 0]
  /\ blobs = [b \in Rooms \X Roles |-> <<>>]
  /\ done = [b \in Rooms \X Roles |-> FALSE]
  /\ get = [q \in Gets |-> NoGet]
  /\ history = {}

-----------------------------------------------------------------------------
(* The store *)

\* entry(room).or_insert_with(Room::new), last_touched = now.
Touch(r) == live' = live \union {r} /\ stale' = stale \ {r}

\* The requests that hold a Notified future.
Registered(q) == get[q].pc \in {"recheck", "await"}

\* notify_waiters on the mailboxes B of the current generation.
Woken(B) ==
  [q \in Gets |->
     IF Registered(q) /\ <<get[q].room, get[q].role>> \in B /\ get[q].gen = gen[get[q].room]
       THEN [get[q] EXCEPT !.woken = TRUE]
       ELSE get[q]]

Open(r, role) == ~done[<<r, role>>]

HasRoomFor(r) == r \in live \/ MaxRooms = 0 \/ Cardinality(live) < MaxRooms
\* Mutant of HasSpace: one blob more than the cap.
HasSpaceInclusive(r, role) == MaxBlobs = 0 \/ Len(blobs[<<r, role>>]) <= MaxBlobs
HasSpace(r, role) == MaxBlobs = 0 \/ Len(blobs[<<r, role>>]) < MaxBlobs

\* Rooms::publish; anything but an append is answered 409 or 429.
Publish(r, role, b) ==
  /\ Len(blobs[<<r, role>>]) < BlobBound
  /\ HasRoomFor(r)
  /\ Touch(r)
  /\ IF Open(r, role) /\ HasSpace(r, role)
       THEN /\ blobs' = [blobs EXCEPT ![<<r, role>>] = Append(@, b)]
            /\ get' = Woken({<<r, role>>})
       ELSE UNCHANGED <<blobs, get>>
  /\ UNCHANGED <<gen, done, history>>

\* Mutant of DoneWakes: the end of a mailbox wakes no one.
DoneSilently(r, role) == UNCHANGED get
DoneWakes(r, role) == get' = Woken({<<r, role>>})

\* Rooms::mark_done.
MarkDone(r, role) ==
  /\ Touch(r)
  /\ done' = [done EXCEPT ![<<r, role>>] = TRUE]
  /\ DoneWakes(r, role)
  /\ UNCHANGED <<gen, blobs, history>>

\* Rooms leave the map: their mailboxes' waiters are woken, and a later use
\* starts from an empty room.
Remove(S) ==
  LET B == S \X Roles
  IN /\ \A r \in S : gen[r] < GenBound
     /\ live' = live \ S
     /\ stale' = stale \ S
     /\ gen' = [r \in Rooms |-> IF r \in S THEN gen[r] + 1 ELSE gen[r]]
     /\ blobs' = [b \in Rooms \X Roles |-> IF b \in B THEN <<>> ELSE blobs[b]]
     /\ done' = [b \in Rooms \X Roles |-> IF b \in B THEN FALSE ELSE done[b]]
     /\ get' = Woken(B)
     /\ UNCHANGED history

\* Rooms::delete of a room that exists.
Delete(r) == r \in live /\ Remove({r})

\* Rooms::evict_expired, run by the ticker.
EvictExpired == stale # {} /\ Remove(stale)

\* room_ttl passes without a request that touches the room.
Expire(r) ==
  /\ r \in live \ stale
  /\ stale' = stale \union {r}
  /\ UNCHANGED <<live, gen, blobs, done, get, history>>

-----------------------------------------------------------------------------
(* GET /rooms/{room}/{role}?seq=n&wait=ms *)

\* Mutant of Outcome: a done mailbox is done before its blobs are read.
OutcomeDoneFirst(r, role, seq) ==
  CASE done[<<r, role>>] -> "done"
    [] ~done[<<r, role>>] /\ seq < Len(blobs[<<r, role>>]) -> "blob"
    [] OTHER -> "pending"
\* Mailbox::peek.
Outcome(r, role, seq) ==
  CASE seq < Len(blobs[<<r, role>>]) -> "blob"
    [] seq >= Len(blobs[<<r, role>>]) /\ done[<<r, role>>] -> "done"
    [] OTHER -> "pending"

\* A wait of 0 is past its deadline from the start.
Get(q, r, role, seq) ==
  /\ get[q].pc = "idle"
  /\ \E late \in BOOLEAN :
       get' = [get EXCEPT ![q] = [NoGet EXCEPT !.pc = "peek", !.room = r, !.role = role,
                                               !.seq = seq, !.late = late]]
  /\ UNCHANGED <<store, history>>

Answer(q, answer, blob) ==
  /\ get' = [get EXCEPT ![q].pc = "answered", ![q].answer = answer, ![q].blob = blob]
  /\ history' =
       IF answer = "pending" THEN history
       ELSE history \union {[room |-> get[q].room, role |-> get[q].role,
                             gen |-> gen[get[q].room], seq |-> get[q].seq,
                             answer |-> answer, blob |-> blob]}

\* Rooms::fetch_now: touches the room, answers unless the blob may still come,
\* and otherwise leaves the request at `next` with the mailbox's Notify.
FetchNow(q, next) ==
  LET r == get[q].room
      role == get[q].role
      seq == get[q].seq
  IN /\ Touch(r)
     /\ \/ /\ Outcome(r, role, seq) = "blob"
           /\ Answer(q, "blob", blobs[<<r, role>>][seq + 1])
        \/ /\ Outcome(r, role, seq) = "done"
           /\ Answer(q, "done", NoBlob)
        \/ /\ Outcome(r, role, seq) = "pending"
           /\ get' = [get EXCEPT ![q] = next]
           /\ UNCHANGED history
     /\ UNCHANGED <<gen, blobs, done>>

Peek(q) ==
  /\ get[q].pc = "peek"
  /\ FetchNow(q, [get[q] EXCEPT !.pc = "arm", !.gen = gen[get[q].room]])

\* `notify.notified()`, unless the deadline has passed.
Arm(q) ==
  /\ get[q].pc = "arm"
  /\ IF get[q].late
       THEN Answer(q, "pending", NoBlob)
       ELSE /\ get' = [get EXCEPT ![q].pc = "recheck", ![q].woken = FALSE]
            /\ UNCHANGED history
  /\ UNCHANGED store

\* The Notify this second fetch_now returns is not used.
Recheck(q) ==
  /\ get[q].pc = "recheck"
  /\ FetchNow(q, [get[q] EXCEPT !.pc = "await"])

Wake(q) ==
  /\ get[q].pc = "await"
  /\ get[q].woken
  /\ get' = [get EXCEPT ![q].pc = "peek"]
  /\ UNCHANGED <<store, history>>

\* Mutant of TimeOut: the wait has no timeout.
TimeOutNever(q) == FALSE
\* timeout(remaining, notified) polls `notified` first.
TimeOut(q) ==
  /\ get[q].pc = "await"
  /\ get[q].late /\ ~get[q].woken
  /\ Answer(q, "pending", NoBlob)
  /\ UNCHANGED store

\* `wait` milliseconds have passed since the request.
Deadline(q) ==
  /\ get[q].pc \in {"peek", "arm", "recheck", "await"}
  /\ ~get[q].late
  /\ get' = [get EXCEPT ![q].late = TRUE]
  /\ UNCHANGED <<store, history>>

\* The client has read the response.
Respond(q) ==
  /\ get[q].pc = "answered"
  /\ get' = [get EXCEPT ![q] = NoGet]
  /\ UNCHANGED <<store, history>>

\* The client's connection goes away: the handler's future is dropped.
Disconnect(q) ==
  /\ get[q].pc # "idle"
  /\ get' = [get EXCEPT ![q] = NoGet]
  /\ UNCHANGED <<store, history>>

Handler(q) == Peek(q) \/ Arm(q) \/ Recheck(q) \/ Wake(q) \/ TimeOut(q)

Next ==
  \/ \E r \in Rooms, role \in Roles :
       \/ \E b \in Blobs : Publish(r, role, b)
       \/ MarkDone(r, role)
       \/ \E q \in Gets, seq \in 0..BlobBound : Get(q, r, role, seq)
  \/ \E r \in Rooms : Delete(r) \/ Expire(r)
  \/ EvictExpired
  \/ \E q \in Gets : Handler(q) \/ Deadline(q) \/ Respond(q) \/ Disconnect(q)

\* Handlers are tasks of the runtime, and the clock advances; clients,
\* deletions and evictions are not promised.
Fairness == \A q \in Gets : WF_vars(Handler(q)) /\ WF_vars(Deadline(q))

Spec == Init /\ [][Next]_vars
FairSpec == Spec /\ Fairness

-----------------------------------------------------------------------------
(* Properties *)

\* state.rs:239-254 across removals: only a GET that armed the Notify of a room
\* that was removed under it can miss the wake of an answer, and it then waits
\* for its deadline.
MissesOnlyWhenReplaced ==
  \A q \in Gets :
    get[q].pc = "await" /\ Outcome(get[q].room, get[q].role, get[q].seq) # "pending" /\ ~get[q].woken
      => get[q].gen < gen[get[q].room]

\* PROTOCOL.md:99-101, 115-116: reads are idempotent.  While a room lives, two
\* answers for one sequence number agree: the same blob, or done for both.
AnswersAgree ==
  \A a, b \in history :
    (<<a.room, a.role, a.gen, a.seq>> = <<b.room, b.role, b.gen, b.seq>>) => a = b

\* PROTOCOL.md:77-97: every GET is answered while its client stays; one that finds
\* nothing is answered when its deadline passes, however often it is woken.
GetsAnswered == \A q \in Gets : (get[q].pc = "peek") ~> (get[q].pc \in {"answered", "idle"})
=============================================================================
