----------------------- MODULE ConformanceRun_proofs -----------------------
(***************************************************************************)
(* Theorems about ConformanceRun, for every corpus, set of executors,      *)
(* manifest and window, and any number of runs and faults.                 *)
(***************************************************************************)
EXTENDS ConformanceRun, FiniteSetTheorems, TLAPS

-----------------------------------------------------------------------------
(* The commands of a scenario: what is still to be run says what the lab   *)
(* holds, because the commands have a fixed order.  A command's rank is its *)
(* place in that order.                                                    *)

Parts == ToSet(Endpoints)

Place(n) == CASE n = "off" -> 1 [] n = "ans" -> 2 [] n = "sig" -> 3 [] n = "rtr" -> 4

Rank(c) ==
  CASE c[1] = "del"       -> Place(c[2])
    [] c[1] = "add"       -> IF c[2] = "rtr" THEN 5 ELSE 5 + Place(c[2])
    [] c[1] = "forward"   -> 9
    [] c[1] = "pair"      -> 6 + 4 * Place(c[2])
    [] c[1] = "move"      -> IF c[3] = "ep" THEN 7 + 4 * Place(c[2]) ELSE 8 + 4 * Place(c[2])
    [] c[1] = "configure" -> 9 + 4 * Place(c[2])
    [] c[1] = "turnstop"  -> 22
    [] c[1] = "turn"      -> 23
    [] c[1] = "nftclear"  -> 24
    [] c[1] = "nft"       -> 25

DownSteps == {<<"del", n>> : n \in Namespaces} \cup {<<"turnstop">>, <<"nftclear">>}

NetnsSteps ==
  {<<"del", n>> : n \in Namespaces} \cup {<<"add", n>> : n \in Namespaces}
    \cup {<<"forward">>}
    \cup {<<"pair", e>> : e \in Parts} \cup {<<"move", e, s>> : e \in Parts, s \in {"ep", "gw"}}
    \cup {<<"configure", e>> : e \in Parts}

UpSteps(env) ==
  NetnsSteps
    \cup (IF NeedsCoturn(env) THEN {<<"turnstop">>, <<"turn">>} ELSE {})
    \cup {<<"nftclear">>}
    \cup (IF env = "lan" THEN {} ELSE {<<"nft", env>>})

\* The commands p come in order, ranked from lo to hi.
Ordered(p, lo, hi) ==
  /\ \A k \in DOMAIN p : Rank(p[k]) \in lo .. hi
  /\ \A j, k \in DOMAIN p : j < k => Rank(p[j]) < Rank(p[k])

\* The three endpoints, and the four namespaces.
LEMMA Names ==
  /\ Parts = {"off", "ans", "sig"} /\ Namespaces = {"off", "ans", "sig", "rtr"}
  /\ Ends = Parts \X {"ep", "gw"}
BY DEF Parts, Namespaces, Ends, ToSet, Endpoints

\* Ordered pieces, one after the other, are ordered.
LEMMA OrderedConcat ==
  ASSUME NEW S, NEW p \in Seq(S), NEW q \in Seq(S),
         NEW lo \in Nat, NEW mid \in Nat, NEW lo2 \in Nat, NEW hi \in Nat,
         lo <= lo2, mid < lo2, mid <= hi, Ordered(p, lo, mid), Ordered(q, lo2, hi)
  PROVE  Ordered(p \o q, lo, hi)
<1> DEFINE r == p \o q
<1>1. /\ DOMAIN p = 1 .. Len(p) /\ DOMAIN q = 1 .. Len(q) /\ Len(p) \in Nat /\ Len(q) \in Nat
      /\ r \in Seq(S) /\ DOMAIN r = 1 .. Len(p) + Len(q)
      /\ \A k \in 1 .. Len(p) + Len(q) :
           r[k] = IF k <= Len(p) THEN p[k] ELSE q[k - Len(p)]
  OBVIOUS
<1> HIDE DEF r
<1>2. ASSUME NEW k \in DOMAIN r
      PROVE  \/ /\ k \in DOMAIN p /\ k <= Len(p) /\ r[k] = p[k] /\ Rank(r[k]) \in lo .. mid
             \/ /\ k - Len(p) \in DOMAIN q /\ k > Len(p) /\ r[k] = q[k - Len(p)]
                /\ Rank(r[k]) \in lo2 .. hi
  <2>1. CASE k <= Len(p)
    <3>1. k \in DOMAIN p /\ r[k] = p[k]
      BY <1>1, <2>1
    <3> QED BY <3>1, <2>1 DEF Ordered
  <2>2. CASE k > Len(p)
    <3>1. k - Len(p) \in DOMAIN q /\ r[k] = q[k - Len(p)]
      BY <1>1, <2>2
    <3> QED BY <3>1, <2>2 DEF Ordered
  <2> QED BY <1>1, <2>1, <2>2
<1>3. \A k \in DOMAIN r : Rank(r[k]) \in lo .. hi
  BY <1>2
<1>4. ASSUME NEW j \in DOMAIN r, NEW k \in DOMAIN r, j < k
      PROVE  Rank(r[j]) < Rank(r[k])
  <2>1. CASE k <= Len(p)
    BY <1>1, <1>2, <1>4, <2>1 DEF Ordered
  <2>2. CASE j > Len(p)
    <3> DEFINE a == j - Len(p)  b == k - Len(p)
    <3>1. a \in DOMAIN q /\ b \in DOMAIN q /\ a < b /\ r[j] = q[a] /\ r[k] = q[b]
      BY <1>1, <1>2, <1>4, <2>2
    <3> QED BY <3>1 DEF Ordered
  <2>3. CASE j <= Len(p) /\ k > Len(p)
    BY <1>1, <1>2, <1>4, <2>3
  <2> QED BY <1>1, <2>1, <2>2, <2>3
<1> QED BY <1>3, <1>4 DEF Ordered, r

\* What a concatenation holds.
LEMMA SetOfConcat ==
  ASSUME NEW S, NEW p \in Seq(S), NEW q \in Seq(S)
  PROVE  ToSet(p \o q) = ToSet(p) \cup ToSet(q)
<1> DEFINE r == p \o q
<1>1. /\ DOMAIN p = 1 .. Len(p) /\ DOMAIN q = 1 .. Len(q) /\ Len(p) \in Nat /\ Len(q) \in Nat
      /\ DOMAIN r = 1 .. Len(p) + Len(q)
      /\ \A k \in 1 .. Len(p) + Len(q) :
           r[k] = IF k <= Len(p) THEN p[k] ELSE q[k - Len(p)]
  OBVIOUS
<1> HIDE DEF r
<1>2. ToSet(r) \subseteq ToSet(p) \cup ToSet(q)
  BY <1>1 DEF ToSet
<1>3. ASSUME NEW k \in DOMAIN p PROVE p[k] \in ToSet(r)
  BY <1>1 DEF ToSet
<1>4. ASSUME NEW k \in DOMAIN q PROVE q[k] \in ToSet(r)
  <2>1. k + Len(p) \in DOMAIN r /\ r[k + Len(p)] = q[k]
    BY <1>1
  <2> QED BY <2>1 DEF ToSet
<1> QED BY <1>2, <1>3, <1>4 DEF ToSet, r

\* The pieces of the programs, each ordered and with what it holds.
LEMMA DownPieces ==
  ASSUME NEW S, DownSteps \subseteq S
  PROVE  /\ NetnsDown \in Seq(S) /\ CoturnDown \in Seq(S) /\ NftablesClear \in Seq(S)
         /\ ToSet(NetnsDown) = {<<"del", n>> : n \in Namespaces}
         /\ ToSet(CoturnDown) = {<<"turnstop">>} /\ ToSet(NftablesClear) = {<<"nftclear">>}
         /\ Ordered(NetnsDown, 1, 4) /\ Ordered(CoturnDown, 22, 22)
         /\ Ordered(NftablesClear, 24, 24)
<1> DEFINE d == <<"off", "ans", "sig", "rtr">>
<1>1. /\ d[1] = "off" /\ d[2] = "ans" /\ d[3] = "sig" /\ d[4] = "rtr"
      /\ 1 .. 4 = {1, 2, 3, 4}
  OBVIOUS
<1> DEFINE p == NetnsDown
<1>2. /\ DOMAIN p = 1 .. 4 /\ p[1] = <<"del", "off">> /\ p[2] = <<"del", "ans">>
      /\ p[3] = <<"del", "sig">> /\ p[4] = <<"del", "rtr">>
  BY <1>1 DEF NetnsDown
<1>3. ToSet(p) = {<<"del", n>> : n \in Namespaces}
  BY <1>1, <1>2, Names DEF ToSet
<1>4. p \in Seq(S)
  <2>1. \A k \in 1 .. 4 : p[k] \in S
    BY <1>1, <1>2, Names DEF DownSteps
  <2>2. p \in [1 .. 4 -> S]
    BY <2>1 DEF NetnsDown
  <2> QED BY <2>2
<1>5. Ordered(p, 1, 4)
  <2>1. \A k \in 1 .. 4 : Rank(p[k]) = k
    BY <1>1, <1>2 DEF Rank, Place
  <2> QED BY <2>1, <1>2 DEF Ordered
<1>6. /\ CoturnDown \in Seq(S) /\ NftablesClear \in Seq(S)
      /\ ToSet(CoturnDown) = {<<"turnstop">>} /\ ToSet(NftablesClear) = {<<"nftclear">>}
  BY DEF CoturnDown, NftablesClear, DownSteps, ToSet
<1>7. Ordered(CoturnDown, 22, 22) /\ Ordered(NftablesClear, 24, 24)
  BY DEF Ordered, Rank, CoturnDown, NftablesClear
<1> QED BY <1>3, <1>4, <1>5, <1>6, <1>7

LEMMA LinkPiece ==
  ASSUME NEW S, NEW e \in Parts,
         {<<"pair", e>>, <<"move", e, "ep">>, <<"move", e, "gw">>, <<"configure", e>>} \subseteq S
  PROVE  /\ Link(e) \in Seq(S)
         /\ ToSet(Link(e)) = {<<"pair", e>>, <<"move", e, "ep">>, <<"move", e, "gw">>,
                              <<"configure", e>>}
         /\ Ordered(Link(e), 6 + 4 * Place(e), 9 + 4 * Place(e))
<1> DEFINE p == Link(e)
<1>1. /\ DOMAIN p = 1 .. 4 /\ p[1] = <<"pair", e>> /\ p[2] = <<"move", e, "ep">>
      /\ p[3] = <<"move", e, "gw">> /\ p[4] = <<"configure", e>> /\ 1 .. 4 = {1, 2, 3, 4}
  BY DEF Link
<1>2. p \in Seq(S)
  BY DEF Link
<1>3. ToSet(p) = {<<"pair", e>>, <<"move", e, "ep">>, <<"move", e, "gw">>, <<"configure", e>>}
  BY <1>1 DEF ToSet
<1>4. Ordered(p, 6 + 4 * Place(e), 9 + 4 * Place(e))
  <2>1. Place(e) \in Nat
    BY Names DEF Place
  <2>2. \A k \in 1 .. 4 : Rank(p[k]) = 5 + 4 * Place(e) + k
    BY <1>1, <2>1 DEF Rank
  <2> QED BY <2>1, <2>2, <1>1 DEF Ordered
<1> QED BY <1>2, <1>3, <1>4

\* netns_up: ordered, and what it holds.
LEMMA NetnsUpSteps ==
  ASSUME NEW env
  PROVE  /\ NetnsUp \in Seq(UpSteps(env) \cup DownSteps)
         /\ Ordered(NetnsUp, 1, 21)
         /\ ToSet(NetnsUp) = NetnsSteps
<1> DEFINE S == UpSteps(env) \cup DownSteps
           d == NetnsDown
           a == << <<"add", "rtr">>, <<"add", "off">>, <<"add", "ans">>, <<"add", "sig">>,
                   <<"forward">> >>
           l1 == Link("off")
           l2 == Link("ans")
           l3 == Link("sig")
<1>1. /\ DownSteps \subseteq S
      /\ \A n \in Namespaces : <<"add", n>> \in S
      /\ <<"forward">> \in S
      /\ \A e \in Parts : {<<"pair", e>>, <<"move", e, "ep">>, <<"move", e, "gw">>,
                           <<"configure", e>>} \subseteq S
  BY DEF UpSteps, NetnsSteps
<1> HIDE DEF S
<1>2. d \in Seq(S) /\ Ordered(d, 1, 4) /\ ToSet(d) = {<<"del", n>> : n \in Namespaces}
  BY <1>1, DownPieces
<1>3. /\ a \in Seq(S) /\ Ordered(a, 5, 9)
      /\ ToSet(a) = {<<"add", n>> : n \in Namespaces} \cup {<<"forward">>}
  <2>1. /\ DOMAIN a = 1 .. 5 /\ 1 .. 5 = {1, 2, 3, 4, 5}
        /\ a[1] = <<"add", "rtr">> /\ a[2] = <<"add", "off">> /\ a[3] = <<"add", "ans">>
        /\ a[4] = <<"add", "sig">> /\ a[5] = <<"forward">>
    OBVIOUS
  <2>2. a \in Seq(S)
    BY <1>1, Names
  <2>3. ToSet(a) = {<<"add", n>> : n \in Namespaces} \cup {<<"forward">>}
    BY <2>1, Names DEF ToSet
  <2>4. \A k \in 1 .. 5 : Rank(a[k]) = 4 + k
    BY <2>1 DEF Rank, Place
  <2>5. Ordered(a, 5, 9)
    BY <2>1, <2>4 DEF Ordered
  <2> QED BY <2>2, <2>3, <2>5
<1>4. /\ l1 \in Seq(S) /\ Ordered(l1, 10, 13) /\ l2 \in Seq(S) /\ Ordered(l2, 14, 17)
      /\ l3 \in Seq(S) /\ Ordered(l3, 18, 21)
  <2>1. "off" \in Parts /\ "ans" \in Parts /\ "sig" \in Parts
    BY Names
  <2>2. Place("off") = 1 /\ Place("ans") = 2 /\ Place("sig") = 3
    BY DEF Place
  <2>3. /\ l1 \in Seq(S) /\ Ordered(l1, 6 + 4 * Place("off"), 9 + 4 * Place("off"))
        /\ l2 \in Seq(S) /\ Ordered(l2, 6 + 4 * Place("ans"), 9 + 4 * Place("ans"))
        /\ l3 \in Seq(S) /\ Ordered(l3, 6 + 4 * Place("sig"), 9 + 4 * Place("sig"))
    BY <1>1, <2>1, LinkPiece
  <2>4. /\ 6 + 4 * 1 = 10 /\ 9 + 4 * 1 = 13 /\ 6 + 4 * 2 = 14 /\ 9 + 4 * 2 = 17
        /\ 6 + 4 * 3 = 18 /\ 9 + 4 * 3 = 21
    OBVIOUS
  <2> QED BY <2>2, <2>3, <2>4, Zenon
<1>5. /\ ToSet(l1) \cup ToSet(l2) \cup ToSet(l3) =
           {<<"pair", e>> : e \in Parts}
             \cup {<<"move", e, s>> : e \in Parts, s \in {"ep", "gw"}}
             \cup {<<"configure", e>> : e \in Parts}
  <2>1. \A e \in Parts : ToSet(Link(e)) = {<<"pair", e>>, <<"move", e, "ep">>,
                                           <<"move", e, "gw">>, <<"configure", e>>}
    BY <1>1, LinkPiece
  <2> QED BY <2>1, Names
<1> HIDE DEF a, d, l1, l2, l3
<1>6. /\ d \o a \in Seq(S) /\ Ordered(d \o a, 1, 9)
      /\ ToSet(d \o a) = ToSet(d) \cup ToSet(a)
  BY <1>2, <1>3, OrderedConcat, SetOfConcat
<1> DEFINE x1 == d \o a
<1>7. x1 \in Seq(S) /\ Ordered(x1, 1, 9)
  BY <1>6
<1> HIDE DEF x1
<1>8. /\ x1 \o l1 \in Seq(S) /\ Ordered(x1 \o l1, 1, 13)
      /\ ToSet(x1 \o l1) = ToSet(x1) \cup ToSet(l1)
  BY <1>7, <1>4, OrderedConcat, SetOfConcat
<1> DEFINE x2 == x1 \o l1
<1>9. x2 \in Seq(S) /\ Ordered(x2, 1, 13)
  BY <1>8
<1> HIDE DEF x2
<1>10. /\ x2 \o l2 \in Seq(S) /\ Ordered(x2 \o l2, 1, 17)
       /\ ToSet(x2 \o l2) = ToSet(x2) \cup ToSet(l2)
  BY <1>9, <1>4, OrderedConcat, SetOfConcat
<1> DEFINE x3 == x2 \o l2
<1>11. x3 \in Seq(S) /\ Ordered(x3, 1, 17)
  BY <1>10
<1> HIDE DEF x3
<1>12. /\ x3 \o l3 \in Seq(S) /\ Ordered(x3 \o l3, 1, 21)
       /\ ToSet(x3 \o l3) = ToSet(x3) \cup ToSet(l3)
  BY <1>11, <1>4, OrderedConcat, SetOfConcat
<1>13. NetnsUp = x3 \o l3
  BY DEF NetnsUp, x3, x2, x1, d, a, l1, l2, l3
<1>14. ToSet(x3 \o l3) = ToSet(d) \cup ToSet(a) \cup (ToSet(l1) \cup ToSet(l2) \cup ToSet(l3))
  <2>1. /\ ToSet(x3) = ToSet(x2) \cup ToSet(l2) /\ ToSet(x2) = ToSet(x1) \cup ToSet(l1)
        /\ ToSet(x1) = ToSet(d) \cup ToSet(a)
    BY <1>6, <1>8, <1>10 DEF x1, x2, x3
  <2> QED BY <2>1, <1>12, Zenon
<1>15. ToSet(NetnsUp) = NetnsSteps
  BY <1>2, <1>3, <1>5, <1>13, <1>14 DEF NetnsSteps
<1>16. S = UpSteps(env) \cup DownSteps
  BY DEF S
<1> QED BY <1>12, <1>13, <1>15, <1>16

\* scenario_up: ordered, and what it holds.
LEMMA ScenarioUpSteps ==
  ASSUME NEW env
  PROVE  /\ ScenarioUp(env) \in Seq(UpSteps(env) \cup DownSteps) /\ ScenarioUp(env) # <<>>
         /\ Ordered(ScenarioUp(env), 1, 25)
         /\ ToSet(ScenarioUp(env)) = UpSteps(env)
<1> DEFINE S == UpSteps(env) \cup DownSteps
           u == NetnsUp
           c == IF NeedsCoturn(env) THEN CoturnUp ELSE <<>>
           f == NftablesApply(env)
           N == ToSet(NetnsUp)
<1>0. /\ DownSteps \subseteq S /\ (NeedsCoturn(env) => <<"turn">> \in S)
      /\ (env # "lan" => <<"nft", env>> \in S)
      /\ S = UpSteps(env) \cup DownSteps
  BY DEF UpSteps
<1>u. u \in Seq(S) /\ Ordered(u, 1, 21)
  BY NetnsUpSteps
<1> HIDE DEF S
<1>1. /\ c \in Seq(S) /\ Ordered(c, 22, 23)
      /\ ToSet(c) = IF NeedsCoturn(env) THEN {<<"turnstop">>, <<"turn">>} ELSE {}
  <2>1. CASE NeedsCoturn(env)
    <3> DEFINE t == CoturnDown
               q == << <<"turn">> >>
    <3>1. c = t \o q
      BY <2>1 DEF CoturnUp
    <3>2. t \in Seq(S) /\ Ordered(t, 22, 22) /\ ToSet(t) = {<<"turnstop">>}
      BY <1>0, DownPieces
    <3>3. DOMAIN q = {1} /\ q[1] = <<"turn">> /\ q \in Seq(S)
      BY <1>0, <2>1
    <3>4. Rank(<<"turn">>) = 23
      BY DEF Rank
    <3> HIDE DEF t, q
    <3>5. Ordered(q, 23, 23) /\ ToSet(q) = {<<"turn">>}
      BY <3>3, <3>4 DEF Ordered, ToSet
    <3>6. t \o q \in Seq(S) /\ Ordered(t \o q, 22, 23) /\ ToSet(t \o q) = ToSet(t) \cup ToSet(q)
      BY <3>2, <3>3, <3>5, OrderedConcat, SetOfConcat
    <3> QED BY <3>1, <3>2, <3>5, <3>6, <2>1
  <2>2. CASE ~NeedsCoturn(env)
    BY <2>2 DEF Ordered, ToSet
  <2> QED BY <2>1, <2>2
<1>2. /\ f \in Seq(S) /\ Ordered(f, 24, 25)
      /\ ToSet(f) = {<<"nftclear">>} \cup (IF env = "lan" THEN {} ELSE {<<"nft", env>>})
  <2>1. <<"nftclear">> \in S
    BY <1>0 DEF DownSteps
  <2>2. CASE env = "lan"
    <3>1. f = << <<"nftclear">> >>
      BY <2>2 DEF NftablesApply, NftablesClear
    <3> DEFINE q == << <<"nftclear">> >>
    <3>2. DOMAIN q = {1} /\ q[1] = <<"nftclear">> /\ q \in Seq(S)
      BY <2>1
    <3>3. Rank(q[1]) = 24
      BY <3>2 DEF Rank
    <3>4. f = q
      BY <3>1
    <3> HIDE DEF q
    <3>5. Ordered(q, 24, 25) /\ ToSet(q) = {<<"nftclear">>}
      BY <3>2, <3>3 DEF Ordered, ToSet
    <3> QED BY <3>2, <3>4, <3>5, <2>2
  <2>3. CASE env # "lan"
    <3> DEFINE t == NftablesClear
               q == << <<"nft", env>> >>
    <3>1. f = t \o q
      BY <2>3 DEF NftablesApply
    <3>2. t \in Seq(S) /\ Ordered(t, 24, 24) /\ ToSet(t) = {<<"nftclear">>}
      BY <1>0, DownPieces
    <3>3. DOMAIN q = {1} /\ q[1] = <<"nft", env>> /\ q \in Seq(S)
      BY <1>0, <2>3
    <3>4. Rank(<<"nft", env>>) = 25
      BY DEF Rank
    <3> HIDE DEF t, q
    <3>5. Ordered(q, 25, 25) /\ ToSet(q) = {<<"nft", env>>}
      BY <3>3, <3>4 DEF Ordered, ToSet
    <3>6. t \o q \in Seq(S) /\ Ordered(t \o q, 24, 25) /\ ToSet(t \o q) = ToSet(t) \cup ToSet(q)
      BY <3>2, <3>3, <3>5, OrderedConcat, SetOfConcat
    <3> QED BY <3>1, <3>2, <3>5, <3>6, <2>3
  <2> QED BY <2>2, <2>3
<1>3. ScenarioUp(env) = (u \o c) \o f
  BY DEF ScenarioUp
<1> HIDE DEF u, c, f
<1>4. /\ u \o c \in Seq(S) /\ Ordered(u \o c, 1, 23) /\ ToSet(u \o c) = ToSet(u) \cup ToSet(c)
  BY <1>u, <1>1, OrderedConcat, SetOfConcat
<1> DEFINE x == u \o c
<1>5. x \in Seq(S) /\ Ordered(x, 1, 23) /\ ToSet(x) = ToSet(u) \cup ToSet(c)
  BY <1>4
<1> HIDE DEF x
<1>6. /\ x \o f \in Seq(S) /\ Ordered(x \o f, 1, 25) /\ ToSet(x \o f) = ToSet(x) \cup ToSet(f)
  BY <1>5, <1>2, OrderedConcat, SetOfConcat
<1>7. ToSet(x \o f) = UpSteps(env)
  <2>1. ToSet(x \o f) = ToSet(u) \cup ToSet(c) \cup ToSet(f)
    BY <1>5, <1>6
  <2>2. ToSet(u) = NetnsSteps
    BY NetnsUpSteps DEF u
  <2> QED BY <2>1, <2>2, <1>1, <1>2 DEF UpSteps
<1>8. <<"nftclear">> \in UpSteps(env)
  BY DEF UpSteps
<1>9. x \o f # <<>>
  BY <1>7, <1>8 DEF ToSet
<1> QED BY <1>0, <1>3, <1>6, <1>7, <1>9 DEF x

\* scenario_down: what it holds.
LEMMA ScenarioDownSteps ==
  /\ ScenarioDown \in Seq(DownSteps) /\ ScenarioDown # <<>>
  /\ ToSet(ScenarioDown) = DownSteps
<1> DEFINE f == NftablesClear
           c == CoturnDown
           d == NetnsDown
           S == DownSteps
<1>1. /\ f \in Seq(S) /\ c \in Seq(S) /\ d \in Seq(S)
      /\ ToSet(d) = {<<"del", n>> : n \in Namespaces}
      /\ ToSet(c) = {<<"turnstop">>} /\ ToSet(f) = {<<"nftclear">>}
  BY DownPieces
<1>2. ScenarioDown = (f \o c) \o d
  BY DEF ScenarioDown
<1> HIDE DEF f, c, d, S
<1>3. f \o c \in Seq(S) /\ ToSet(f \o c) = ToSet(f) \cup ToSet(c)
  BY <1>1, SetOfConcat
<1> DEFINE x == f \o c
<1> HIDE DEF x
<1>7. x \in Seq(S)
  BY <1>3 DEF x
<1>8. x \o d \in Seq(S) /\ ToSet(x \o d) = ToSet(x) \cup ToSet(d)
  BY <1>1, <1>7, SetOfConcat
<1>4. (f \o c) \o d \in Seq(S) /\ ToSet((f \o c) \o d) = ToSet(f \o c) \cup ToSet(d)
  BY <1>8 DEF x
<1>5. ToSet(ScenarioDown) = DownSteps
  BY <1>1, <1>2, <1>3, <1>4 DEF DownSteps
<1>6. ScenarioDown # <<>>
  <2>1. <<"turnstop">> \in DownSteps
    BY DEF DownSteps
  <2> QED BY <2>1, <1>5 DEF ToSet
<1> QED BY <1>2, <1>4, <1>5, <1>6 DEF S

-----------------------------------------------------------------------------
(* What the lab holds while the commands R of a scenario are still to come *)

Sides == {"ep", "gw"}

\* A link's ends are together: where one is, the other is not far.
LabShape(l) ==
  /\ l \in [ns : SUBSET Namespaces, root : SUBSET Ends, placed : SUBSET Ends,
            turn : SUBSET {"lab", "orphan"}, policy : Envs \cup {"none"}]
  /\ l.root \cap l.placed = {}
  /\ \A end \in l.placed : Home(end) \in l.ns
  /\ \A e \in Parts, s, r \in Sides :
       <<e, s>> \in l.root => <<e, r>> \in l.root \cup l.placed

\* I are the commands that have failed and been ignored.
UpNames(l, R, I) ==
  \A n \in Namespaces :
    /\ <<"add", n>> \notin R => n \in l.ns
    /\ <<"del", n>> \notin R \cup I /\ <<"add", n>> \in R => n \notin l.ns

UpLinks(l, R, I) ==
  \A e \in Parts, s \in Sides :
    /\ <<"move", e, s>> \notin R => <<e, s>> \in l.placed
    /\ <<"pair", e>> \in R /\ <<"del", Home(<<e, s>>)>> \notin R \cup I => <<e, s>> \notin l.placed
    /\ <<"pair", e>> \notin R /\ <<"move", e, s>> \in R => <<e, s>> \in l.root

UpTurn(l, R, env, I) ==
  /\ (NeedsCoturn(env) => <<"turn">> \in R) /\ <<"del", "sig">> \notin R \cup I
       => "lab" \notin l.turn
  /\ NeedsCoturn(env) /\ <<"turnstop">> \notin R \cup I => "orphan" \notin l.turn
  /\ NeedsCoturn(env) /\ <<"turn">> \notin R => "lab" \in l.turn

UpPolicy(l, R, env, I) ==
  /\ (env # "lan" => <<"nft", env>> \in R) /\ <<"del", "rtr">> \notin R \cup I
       => l.policy = "none"
  /\ env # "lan" /\ <<"nft", env>> \notin R => l.policy = env

\* An unmoved link that this executor has not made is what a fault left.
UpBlame(l, R, f) ==
  \A e \in Parts, s \in Sides : <<e, s>> \in l.root /\ <<"pair", e>> \in R => f > 0

\* A namespace that could not be deleted is there, and will be refused.
UpFailed(l, R, I) ==
  /\ I \cap R = {}
  /\ \A n \in Namespaces : <<"del", n>> \in I => <<"add", n>> \in R /\ n \in l.ns

UpSoFar(l, R, env, f, I) ==
  /\ UpNames(l, R, I) /\ UpLinks(l, R, I) /\ UpTurn(l, R, env, I) /\ UpPolicy(l, R, env, I)
  /\ UpBlame(l, R, f) /\ UpFailed(l, R, I)

DownSoFar(l, R, I) ==
  /\ l.root = {}
  /\ \A n \in Namespaces : <<"del", n>> \notin R \cup I => n \notin l.ns
  /\ <<"turnstop">> \notin R \cup I => l.turn = {}
  /\ <<"nftclear">> \notin R \cup I => l.policy = "none"

\* The order of the commands, as far as it matters.
LEMMA Ranks ==
  /\ \A n \in Namespaces : Rank(<<"del", n>>) \in 1 .. 4 /\ Rank(<<"add", n>>) \in 5 .. 8
  /\ Rank(<<"forward">>) = 9
  /\ \A e \in Parts : /\ Rank(<<"pair", e>>) \in 10 .. 18
                      /\ Rank(<<"configure", e>>) \in 13 .. 21
                      /\ \A s \in Sides : /\ Rank(<<"move", e, s>>) \in 11 .. 20
                                          /\ Rank(<<"pair", e>>) < Rank(<<"move", e, s>>)
                                          /\ Rank(<<"move", e, s>>) < Rank(<<"configure", e>>)
  /\ Rank(<<"turnstop">>) = 22 /\ Rank(<<"turn">>) = 23 /\ Rank(<<"nftclear">>) = 24
  /\ \A env : Rank(<<"nft", env>>) = 25
<1>1. /\ Place("off") = 1 /\ Place("ans") = 2 /\ Place("sig") = 3 /\ Place("rtr") = 4
  BY DEF Place
<1>2. \A n \in Namespaces : Rank(<<"del", n>>) = Place(n)
  BY DEF Rank
<1>3. \A n \in Namespaces : Rank(<<"add", n>>) = IF n = "rtr" THEN 5 ELSE 5 + Place(n)
  BY DEF Rank
<1>4. \A e \in Parts : /\ Rank(<<"pair", e>>) = 6 + 4 * Place(e)
                       /\ Rank(<<"configure", e>>) = 9 + 4 * Place(e)
                       /\ Rank(<<"move", e, "ep">>) = 7 + 4 * Place(e)
                       /\ Rank(<<"move", e, "gw">>) = 8 + 4 * Place(e)
  BY DEF Rank
<1>5. /\ Rank(<<"forward">>) = 9
      /\ Rank(<<"turnstop">>) = 22 /\ Rank(<<"turn">>) = 23 /\ Rank(<<"nftclear">>) = 24
      /\ \A env : Rank(<<"nft", env>>) = 25
  BY DEF Rank
<1>6. \A n \in Namespaces : Rank(<<"del", n>>) \in 1 .. 4 /\ Rank(<<"add", n>>) \in 5 .. 8
  BY <1>1, <1>2, <1>3, Names
<1>7. \A e \in Parts : /\ Rank(<<"pair", e>>) \in 10 .. 18
                      /\ Rank(<<"configure", e>>) \in 13 .. 21
                      /\ \A s \in Sides : /\ Rank(<<"move", e, s>>) \in 11 .. 20
                                          /\ Rank(<<"pair", e>>) < Rank(<<"move", e, s>>)
                                          /\ Rank(<<"move", e, s>>) < Rank(<<"configure", e>>)
  BY <1>1, <1>4, Names DEF Sides
<1> QED BY <1>5, <1>6, <1>7

\* A command that is run is the first of those still to come, the others are
\* later, and those that came before are earlier.
NextOf(c, R, env) ==
  /\ R \subseteq UpSteps(env) /\ c \in R
  /\ \A d \in UpSteps(env) : /\ d \in R /\ d # c => Rank(c) < Rank(d)
                             /\ d \notin R => Rank(d) < Rank(c)

\* What is in a scenario.
LEMMA InUp ==
  ASSUME NEW env
  PROVE  /\ \A n \in Namespaces : <<"del", n>> \in UpSteps(env) /\ <<"add", n>> \in UpSteps(env)
         /\ \A e \in Parts : <<"pair", e>> \in UpSteps(env)
         /\ \A e \in Parts, s \in Sides : <<"move", e, s>> \in UpSteps(env)
         /\ NeedsCoturn(env) => <<"turnstop">> \in UpSteps(env) /\ <<"turn">> \in UpSteps(env)
         /\ <<"nftclear">> \in UpSteps(env)
         /\ env # "lan" => <<"nft", env>> \in UpSteps(env)
BY DEF UpSteps, NetnsSteps, Sides

LEMMA UpKinds ==
  ASSUME NEW env
  PROVE     \A c \in UpSteps(env) :
              \/ \E n \in Namespaces : c = <<"del", n>>
              \/ \E n \in Namespaces : c = <<"add", n>>
              \/ c = <<"forward">>
              \/ \E e \in Parts : c = <<"pair", e>>
              \/ \E e \in Parts, s \in Sides : c = <<"move", e, s>>
              \/ \E e \in Parts : c = <<"configure", e>>
              \/ NeedsCoturn(env) /\ c = <<"turnstop">>
              \/ NeedsCoturn(env) /\ c = <<"turn">>
              \/ c = <<"nftclear">>
              \/ env # "lan" /\ c = <<"nft", env>>
BY DEF UpSteps, NetnsSteps, Sides

\* Commands that come later are still to come, those that came before are not.
LEMMA LaterEarlier ==
  ASSUME NEW env, NEW R, NEW c, NextOf(c, R, env)
  PROVE  /\ c \in UpSteps(env) /\ Rank(c) \in 1 .. 25
         /\ \A d \in UpSteps(env) : /\ Rank(d) \in 1 .. 25
                                    /\ Rank(c) < Rank(d) => d \in R \ {c}
                                    /\ Rank(d) < Rank(c) => d \notin R
<1>1. \A d \in UpSteps(env) : Rank(d) \in 1 .. 25
  <2> SUFFICES ASSUME NEW d \in UpSteps(env) PROVE Rank(d) \in 1 .. 25
    OBVIOUS
  <2>1. ASSUME NEW n \in Namespaces, d = <<"del", n>> \/ d = <<"add", n>>
        PROVE  Rank(d) \in 1 .. 25
    <3>1. Rank(<<"del", n>>) \in 1 .. 4 /\ Rank(<<"add", n>>) \in 5 .. 8
      BY Ranks
    <3> QED BY <2>1, <3>1
  <2>2. ASSUME NEW e \in Parts, d = <<"pair", e>> \/ d = <<"configure", e>>
        PROVE  Rank(d) \in 1 .. 25
    <3>1. Rank(<<"pair", e>>) \in 10 .. 18 /\ Rank(<<"configure", e>>) \in 13 .. 21
      BY Ranks
    <3> QED BY <2>2, <3>1
  <2>3. ASSUME NEW e \in Parts, NEW s \in Sides, d = <<"move", e, s>>
        PROVE  Rank(d) \in 1 .. 25
    <3>1. Rank(<<"move", e, s>>) \in 11 .. 20
      BY Ranks
    <3> QED BY <2>3, <3>1
  <2>4. CASE d \in {<<"forward">>, <<"turnstop">>, <<"turn">>, <<"nftclear">>, <<"nft", env>>}
    <3>1. /\ Rank(<<"forward">>) = 9 /\ Rank(<<"turnstop">>) = 22 /\ Rank(<<"turn">>) = 23
          /\ Rank(<<"nftclear">>) = 24 /\ Rank(<<"nft", env>>) = 25
      BY Ranks
    <3> QED BY <2>4, <3>1
  <2> QED BY <2>1, <2>2, <2>3, <2>4, UpKinds
<1>2. c \in UpSteps(env)
  BY DEF NextOf
<1>3. ASSUME NEW d \in UpSteps(env), Rank(c) < Rank(d) PROVE d \in R \ {c}
  <2>1. d \notin R => Rank(d) < Rank(c)
    BY DEF NextOf
  <2> QED BY <2>1, <1>1, <1>2, <1>3
<1>4. ASSUME NEW d \in UpSteps(env), Rank(d) < Rank(c) PROVE d \notin R
  <2>1. d \in R /\ d # c => Rank(c) < Rank(d)
    BY DEF NextOf
  <2> QED BY <2>1, <1>1, <1>2, <1>4
<1> QED BY <1>1, <1>2, <1>3, <1>4

\* ip netns del, wherever the lab stands.
LEMMA DeletedShape ==
  ASSUME NEW n \in Namespaces, LabShape(lab)
  PROVE  /\ LabShape(Deleted(n))
         /\ Deleted(n).ns = lab.ns \ {n}
         /\ Deleted(n).root \subseteq lab.root /\ Deleted(n).placed \subseteq lab.placed
         /\ \A e \in Parts, s \in Sides : Home(<<e, s>>) = n => <<e, s>> \notin Deleted(n).placed
         /\ Deleted(n).turn \in {lab.turn, {"orphan"}}
         /\ lab.turn = {} => Deleted(n).turn = {}
         /\ n = "sig" => "lab" \notin Deleted(n).turn
         /\ Deleted(n).policy \in {lab.policy, "none"}
         /\ n = "rtr" => Deleted(n).policy = "none"
<1> DEFINE gone == {e \in ToSet(Endpoints) :
                      \E end \in lab.placed : end[1] = e /\ Home(end) = n}
           g == Deleted(n)
<1>1. /\ g.ns = lab.ns \ {n}
      /\ g.root = {end \in lab.root : end[1] \notin gone}
      /\ g.placed = {end \in lab.placed : end[1] \notin gone}
      /\ g.turn = IF n = "sig" /\ lab.turn # {} THEN {"orphan"} ELSE lab.turn
      /\ g.policy = IF n = "rtr" THEN "none" ELSE lab.policy
      /\ DOMAIN g = {"ns", "root", "placed", "turn", "policy"}
  BY DEF Deleted
<1>2. g = [ns |-> g.ns, root |-> g.root, placed |-> g.placed, turn |-> g.turn,
           policy |-> g.policy]
  BY DEF Deleted
<1>3. \A end \in Ends : end[1] \in ToSet(Endpoints) /\ end = <<end[1], end[2]>>
  BY Names DEF Parts
<1>4. /\ lab.ns \subseteq Namespaces /\ lab.root \subseteq Ends /\ lab.placed \subseteq Ends
      /\ lab.turn \subseteq {"lab", "orphan"} /\ lab.policy \in Envs \cup {"none"}
  BY DEF LabShape
<1> HIDE DEF g, gone
<1>5. g \in [ns : SUBSET Namespaces, root : SUBSET Ends, placed : SUBSET Ends,
             turn : SUBSET {"lab", "orphan"}, policy : Envs \cup {"none"}]
  <2>1. /\ g.ns \in SUBSET Namespaces /\ g.root \in SUBSET Ends /\ g.placed \in SUBSET Ends
        /\ g.turn \in SUBSET {"lab", "orphan"} /\ g.policy \in Envs \cup {"none"}
    BY <1>1, <1>4
  <2> QED BY <2>1, <1>2, Zenon
<1>6. \A end \in lab.placed : Home(end) = n => end \notin g.placed
  BY <1>1, <1>3, <1>4 DEF gone
<1>7. \A end \in g.placed : Home(end) \in g.ns
  BY <1>1, <1>6 DEF LabShape
<1>8. g.root \cap g.placed = {}
  BY <1>1 DEF LabShape
<1>9. ASSUME NEW e \in Parts, NEW s \in Sides, NEW r \in Sides, <<e, s>> \in g.root
      PROVE  <<e, r>> \in g.root \cup g.placed
  <2>1. <<e, r>> \in lab.root \cup lab.placed /\ e \notin gone
    BY <1>1, <1>9 DEF LabShape
  <2> QED BY <2>1, <1>1
<1>10. ASSUME NEW e \in Parts, NEW s \in Sides, Home(<<e, s>>) = n
       PROVE  <<e, s>> \notin g.placed
  BY <1>1, <1>6, <1>10
<1>11. LabShape(g)
  BY <1>5, <1>7, <1>8, <1>9 DEF LabShape
<1> QED BY <1>1, <1>10, <1>11 DEF g

\* The commands of provisioning, one kind at a time.
LEMMA UpDel ==
  ASSUME NEW env, NEW R, NEW I, NEW n \in Namespaces, NextOf(<<"del", n>>, R, env),
         LabShape(lab), UpSoFar(lab, R, env, faults, I)
  PROVE  LabShape(After(<<"del", n>>)) /\ UpSoFar(After(<<"del", n>>), R \ {<<"del", n>>}, env, faults, I)
<1> DEFINE c == <<"del", n>>
           l == Deleted(n)
           Q == R \ {c}
<1>1. After(c) = l
  BY DEF After
<1>2. LabShape(l)
  BY DeletedShape
<1>3. /\ l.ns = lab.ns \ {n}
      /\ l.root \subseteq lab.root /\ l.placed \subseteq lab.placed
      /\ \A e \in Parts, s \in Sides : Home(<<e, s>>) = n => <<e, s>> \notin l.placed
      /\ l.turn \in {lab.turn, {"orphan"}}
      /\ n = "sig" => "lab" \notin l.turn
      /\ l.policy \in {lab.policy, "none"} /\ (n = "rtr" => l.policy = "none")
  BY DeletedShape
<1>4. /\ \A m \in Namespaces : <<"add", m>> \in Q
      /\ \A e \in Parts : <<"pair", e>> \in Q /\ \A s \in Sides : <<"move", e, s>> \in Q
      /\ NeedsCoturn(env) => <<"turnstop">> \in Q /\ <<"turn">> \in Q
      /\ <<"nftclear">> \in Q /\ (env # "lan" => <<"nft", env>> \in Q)
  <2>1. Rank(c) \in 1 .. 4
    BY Ranks
  <2>2. \A d \in UpSteps(env) : Rank(d) > 4 => d \in Q
    BY <2>1, LaterEarlier
  <2> HIDE DEF Q, c
  <2>3. ASSUME NEW m \in Namespaces PROVE <<"add", m>> \in Q
    <3>1. Rank(<<"add", m>>) \in 5 .. 8 /\ <<"add", m>> \in UpSteps(env)
      BY Ranks, InUp
    <3> QED BY <3>1, <2>2
  <2>4. ASSUME NEW e \in Parts PROVE <<"pair", e>> \in Q
    <3>1. Rank(<<"pair", e>>) \in 10 .. 18 /\ <<"pair", e>> \in UpSteps(env)
      BY Ranks, InUp
    <3> QED BY <3>1, <2>2
  <2>5. \A e \in Parts, s \in Sides : <<"move", e, s>> \in Q
    <3> SUFFICES ASSUME NEW e \in Parts, NEW s \in Sides PROVE <<"move", e, s>> \in Q
      OBVIOUS
    <3>1. Rank(<<"move", e, s>>) \in 11 .. 20 /\ <<"move", e, s>> \in UpSteps(env)
      BY Ranks, InUp
    <3> QED BY <3>1, <2>2
  <2>6. /\ NeedsCoturn(env) => <<"turnstop">> \in Q /\ <<"turn">> \in Q
        /\ <<"nftclear">> \in Q
    <3>1. Rank(<<"turnstop">>) = 22 /\ Rank(<<"turn">>) = 23 /\ Rank(<<"nftclear">>) = 24
      BY Ranks
    <3>2. /\ NeedsCoturn(env) => <<"turnstop">> \in UpSteps(env) /\ <<"turn">> \in UpSteps(env)
          /\ <<"nftclear">> \in UpSteps(env)
      BY InUp
    <3>3. 22 > 4 /\ 23 > 4 /\ 24 > 4
      OBVIOUS
    <3> QED BY <3>1, <3>2, <3>3, <2>2, Zenon
  <2>7. env # "lan" => <<"nft", env>> \in Q
    <3>1. Rank(<<"nft", env>>) = 25
      BY Ranks
    <3> QED BY <2>2, <3>1, InUp
  <2> QED BY <2>3, <2>4, <2>5, <2>6, <2>7
<1>5. /\ \A m \in Namespaces : <<"del", m>> \notin Q \cup I
                                => <<"del", m>> \notin R \cup I \/ m = n
      /\ <<"del", n>> \in R
  BY DEF NextOf
<1>6. \A m \in Namespaces : <<"add", m>> \in R
  BY <1>4
<1> HIDE DEF l
<1>7. UpNames(l, Q, I)
  BY <1>3, <1>4, <1>5, <1>6 DEF UpSoFar, UpNames
<1>8. UpLinks(l, Q, I)
  <2>1. \A e \in Parts, s \in Sides : Home(<<e, s>>) \in Namespaces
    BY Names DEF Home, Sides
  <2>2. ASSUME NEW e \in Parts, NEW s \in Sides, <<"del", Home(<<e, s>>)>> \notin Q \cup I
        PROVE  <<e, s>> \notin l.placed
    <3>1. CASE Home(<<e, s>>) = n
      BY <1>3, <3>1
    <3>2. CASE <<"del", Home(<<e, s>>)>> \notin R \cup I
      <4>1. <<"pair", e>> \in R
        BY <1>4
      <4> QED BY <3>2, <4>1, <1>3 DEF UpSoFar, UpLinks
    <3> QED BY <2>1, <2>2, <1>5, <3>1, <3>2
  <2> QED BY <2>2, <1>4 DEF UpLinks
<1>9. UpTurn(l, Q, env, I)
  <2>1. ASSUME <<"del", "sig">> \notin Q \cup I PROVE "lab" \notin l.turn
    <3>1. CASE n = "sig"
      BY <1>3, <3>1
    <3>2. CASE <<"del", "sig">> \notin R \cup I
      <4>1. "lab" \notin lab.turn
        BY <1>4, <3>2 DEF UpSoFar, UpTurn
      <4> QED BY <1>3, <4>1
    <3> QED BY <1>5, <2>1, <3>1, <3>2, Names
  <2> QED BY <2>1, <1>4 DEF UpTurn
<1>10. UpPolicy(l, Q, env, I)
  <2>1. ASSUME <<"del", "rtr">> \notin Q \cup I PROVE l.policy = "none"
    <3>1. CASE n = "rtr"
      BY <1>3, <3>1
    <3>2. CASE <<"del", "rtr">> \notin R \cup I
      <4>1. lab.policy = "none"
        BY <1>4, <3>2 DEF UpSoFar, UpPolicy
      <4> QED BY <1>3, <4>1
    <3> QED BY <1>5, <2>1, <3>1, <3>2, Names
  <2> QED BY <2>1, <1>4 DEF UpPolicy
<1>12. UpFailed(l, Q, I)
  <2>1. I \cap R = {} /\ <<"del", n>> \notin I
    BY <1>5 DEF UpSoFar, UpFailed
  <2>2. ASSUME NEW m \in Namespaces, <<"del", m>> \in I PROVE m \in l.ns
    <3>1. m # n /\ m \in lab.ns
      BY <2>1, <2>2 DEF UpSoFar, UpFailed
    <3> QED BY <3>1, <1>3
  <2> QED BY <2>1, <2>2, <1>4 DEF UpFailed
<1>11. UpBlame(l, Q, faults)
  BY <1>3 DEF UpSoFar, UpBlame
<1> QED BY <1>1, <1>2, <1>7, <1>8, <1>9, <1>10, <1>11, <1>12 DEF UpSoFar, l

\* What changes nothing that the other commands count on.
LEMMA UpQuiet ==
  ASSUME NEW env, NEW R, NEW I, NEW c, c = <<"forward">> \/ (\E e \in Parts : c = <<"configure", e>>),
         LabShape(lab), UpSoFar(lab, R, env, faults, I)
  PROVE  LabShape(After(c)) /\ UpSoFar(After(c), R \ {c}, env, faults, I)
<1>1. After(c) = lab
  BY DEF After
<1>2. /\ \A n \in Namespaces : /\ <<"add", n>> \in R \ {c} <=> <<"add", n>> \in R
                               /\ <<"del", n>> \in R \ {c} <=> <<"del", n>> \in R
      /\ \A e \in Parts : <<"pair", e>> \in R \ {c} <=> <<"pair", e>> \in R
      /\ \A e \in Parts, s \in Sides : <<"move", e, s>> \in R \ {c} <=> <<"move", e, s>> \in R
      /\ <<"turnstop">> \in R \ {c} <=> <<"turnstop">> \in R
      /\ <<"turn">> \in R \ {c} <=> <<"turn">> \in R
      /\ <<"nftclear">> \in R \ {c} <=> <<"nftclear">> \in R
      /\ <<"nft", env>> \in R \ {c} <=> <<"nft", env>> \in R
  OBVIOUS
<1> DEFINE Q == R \ {c}
<1> HIDE DEF Q
<1>3. \A e \in Parts, s \in Sides : Home(<<e, s>>) \in Namespaces
  BY Names DEF Home, Sides
<1>4. "sig" \in Namespaces /\ "rtr" \in Namespaces
  BY Names
<1>5. UpSoFar(lab, Q, env, faults, I)
  <2>1. UpNames(lab, Q, I)
    BY <1>2 DEF UpSoFar, UpNames, Q
  <2>2. UpLinks(lab, Q, I)
    BY <1>2, <1>3 DEF UpSoFar, UpLinks, Q
  <2>3. UpTurn(lab, Q, env, I)
    BY <1>2, <1>4 DEF UpSoFar, UpTurn, Q
  <2>4. UpPolicy(lab, Q, env, I) /\ UpBlame(lab, Q, faults)
    BY <1>2, <1>4 DEF UpSoFar, UpPolicy, UpBlame, Q
  <2>5. UpFailed(lab, Q, I)
    BY <1>2 DEF UpSoFar, UpFailed, Q
  <2> QED BY <2>1, <2>2, <2>3, <2>4, <2>5 DEF UpSoFar
<1> QED BY <1>1, <1>5 DEF Q

\* A command of another kind does not disturb a conjunct.
LEMMA Frame ==
  ASSUME NEW env, NEW R, NEW I, NEW c, NEW f, NEW k, NEW l
  PROVE  /\ k.ns = l.ns /\ (\A n \in Namespaces : c # <<"add", n>> /\ c # <<"del", n>>)
              => (UpNames(k, R, I) => UpNames(l, R \ {c}, I))
         /\ (/\ k.root = l.root /\ k.placed = l.placed
             /\ \A n \in Namespaces : c # <<"del", n>>
             /\ \A e \in Parts : c # <<"pair", e>> /\ \A s \in Sides : c # <<"move", e, s>>)
              => (UpLinks(k, R, I) => UpLinks(l, R \ {c}, I))
         /\ k.turn = l.turn /\ c \notin {<<"turnstop">>, <<"turn">>, <<"del", "sig">>}
              => (UpTurn(k, R, env, I) => UpTurn(l, R \ {c}, env, I))
         /\ k.policy = l.policy /\ c \notin {<<"nft", env>>, <<"del", "rtr">>}
              => (UpPolicy(k, R, env, I) => UpPolicy(l, R \ {c}, env, I))
         /\ k.root = l.root => (UpBlame(k, R, f) => UpBlame(l, R \ {c}, f))
         /\ k.ns \subseteq l.ns /\ (\A n \in Namespaces : c # <<"add", n>>)
              => (UpFailed(k, R, I) => UpFailed(l, R \ {c}, I))
<1> DEFINE Q == R \ {c}
<1>1. \A d : d # c => (d \in Q <=> d \in R)
  OBVIOUS
<1>2. \A d : d \in Q => d \in R
  OBVIOUS
<1> HIDE DEF Q
<1>3. k.ns = l.ns /\ (\A n \in Namespaces : c # <<"add", n>> /\ c # <<"del", n>>)
              => (UpNames(k, R, I) => UpNames(l, Q, I))
  BY <1>1 DEF UpNames
<1>4. ASSUME k.root = l.root, k.placed = l.placed,
             \A n \in Namespaces : c # <<"del", n>>,
             \A e \in Parts : c # <<"pair", e>> /\ \A s \in Sides : c # <<"move", e, s>>,
             UpLinks(k, R, I)
      PROVE  UpLinks(l, Q, I)
  <2> SUFFICES ASSUME NEW e \in Parts, NEW s \in Sides
               PROVE  /\ <<"move", e, s>> \notin Q => <<e, s>> \in l.placed
                      /\ <<"pair", e>> \in Q /\ <<"del", Home(<<e, s>>)>> \notin Q \cup I
                           => <<e, s>> \notin l.placed
                      /\ <<"pair", e>> \notin Q /\ <<"move", e, s>> \in Q => <<e, s>> \in l.root
    BY DEF UpLinks
  <2>1. Home(<<e, s>>) \in Namespaces
    BY Names DEF Home, Sides
  <2>2. c # <<"move", e, s>> /\ c # <<"pair", e>> /\ c # <<"del", Home(<<e, s>>)>>
    BY <1>4, <2>1
  <2>3. /\ <<"move", e, s>> \in Q <=> <<"move", e, s>> \in R
        /\ <<"pair", e>> \in Q <=> <<"pair", e>> \in R
        /\ <<"del", Home(<<e, s>>)>> \in Q <=> <<"del", Home(<<e, s>>)>> \in R
    BY <1>1, <2>2
  <2> QED BY <2>3, <1>4 DEF UpLinks
<1>5. k.turn = l.turn /\ c \notin {<<"turnstop">>, <<"turn">>, <<"del", "sig">>}
              => (UpTurn(k, R, env, I) => UpTurn(l, Q, env, I))
  BY <1>1 DEF UpTurn
<1>6. k.policy = l.policy /\ c \notin {<<"nft", env>>, <<"del", "rtr">>}
              => (UpPolicy(k, R, env, I) => UpPolicy(l, Q, env, I))
  BY <1>1 DEF UpPolicy
<1>7. k.root = l.root => (UpBlame(k, R, f) => UpBlame(l, Q, f))
  BY <1>2 DEF UpBlame
<1>8. k.ns \subseteq l.ns /\ (\A n \in Namespaces : c # <<"add", n>>)
              => (UpFailed(k, R, I) => UpFailed(l, Q, I))
  BY <1>1, <1>2 DEF UpFailed
<1> QED BY <1>3, <1>4, <1>5, <1>6, <1>7, <1>8 DEF Q

\* A lab of the right fields has the right shape.
LEMMA ShapeOf ==
  ASSUME NEW l, LabShape(l)
  PROVE  /\ l.ns \subseteq Namespaces /\ l.root \subseteq Ends /\ l.placed \subseteq Ends
         /\ l.turn \subseteq {"lab", "orphan"} /\ l.policy \in Envs \cup {"none"}
         /\ l = [ns |-> l.ns, root |-> l.root, placed |-> l.placed, turn |-> l.turn,
                 policy |-> l.policy]
BY DEF LabShape

LEMMA UpAdd ==
  ASSUME NEW env, NEW R, NEW I, NEW n \in Namespaces, NextOf(<<"add", n>>, R, env),
         Can(<<"add", n>>), LabShape(lab), UpSoFar(lab, R, env, faults, I)
  PROVE  LabShape(After(<<"add", n>>)) /\ UpSoFar(After(<<"add", n>>), R \ {<<"add", n>>}, env, faults, I)
<1> DEFINE c == <<"add", n>>
           l == After(c)
           Q == R \ {c}
<1>1. /\ l = [lab EXCEPT !.ns = @ \cup {n}]
  BY DEF After
<1>2. /\ l.ns = lab.ns \cup {n} /\ l.root = lab.root /\ l.placed = lab.placed
      /\ l.turn = lab.turn /\ l.policy = lab.policy
      /\ l \in [ns : SUBSET Namespaces, root : SUBSET Ends, placed : SUBSET Ends,
                turn : SUBSET {"lab", "orphan"}, policy : Envs \cup {"none"}]
  BY <1>1 DEF LabShape
<1>3. c \in R /\ (\A m \in Namespaces : c # <<"del", m>>)
  BY DEF NextOf
<1>4. ASSUME NEW m \in Namespaces PROVE <<"del", m>> \notin R
  <2>1. Rank(<<"del", m>>) \in 1 .. 4 /\ <<"del", m>> \in UpSteps(env) /\ Rank(c) \in 5 .. 8
    BY Ranks, InUp
  <2> QED BY <2>1, LaterEarlier
<1>5. /\ \A e \in Parts : c # <<"pair", e>> /\ \A s \in Sides : c # <<"move", e, s>>
      /\ c \notin {<<"turnstop">>, <<"turn">>, <<"del", "sig">>}
      /\ c \notin {<<"nft", env>>, <<"del", "rtr">>}
  OBVIOUS
<1>6. \A m \in Namespaces : <<"add", m>> \in Q <=> <<"add", m>> \in R /\ m # n
  OBVIOUS
<1>7. LabShape(l)
  BY <1>2 DEF LabShape
<1> HIDE DEF c, l
<1>8. UpNames(l, Q, I)
  <2>1. \A m \in Namespaces : /\ <<"add", m>> \notin R => m \in lab.ns
                              /\ <<"add", m>> \in R /\ <<"del", m>> \notin I => m \notin lab.ns
    BY <1>4 DEF UpSoFar, UpNames
  <2> HIDE DEF Q
  <2> QED BY <2>1, <1>2, <1>6 DEF UpNames
<1>9. UpLinks(l, Q, I) /\ UpTurn(l, Q, env, I) /\ UpPolicy(l, Q, env, I) /\ UpBlame(l, Q, faults)
  BY <1>2, <1>3, <1>5, Frame DEF UpSoFar
<1>10. UpFailed(l, Q, I)
  <2>1. n \notin lab.ns
    BY DEF Can, c
  <2>2. I \cap R = {} /\ \A m \in Namespaces : <<"del", m>> \in I
                                               => <<"add", m>> \in R /\ m \in lab.ns
    BY DEF UpSoFar, UpFailed
  <2>3. I \cap Q = {}
    BY <2>2
  <2> HIDE DEF Q
  <2> QED BY <2>1, <2>2, <2>3, <1>2, <1>6 DEF UpFailed
<1> QED BY <1>7, <1>8, <1>9, <1>10 DEF UpSoFar, c, l

LEMMA UpPair ==
  ASSUME NEW env, NEW R, NEW I, NEW e \in Parts, NextOf(<<"pair", e>>, R, env), Can(<<"pair", e>>),
         LabShape(lab), UpSoFar(lab, R, env, faults, I)
  PROVE  LabShape(After(<<"pair", e>>)) /\ UpSoFar(After(<<"pair", e>>), R \ {<<"pair", e>>}, env, faults, I)
<1> DEFINE c == <<"pair", e>>
           l == After(c)
           Q == R \ {c}
           new == {e} \X {"ep", "gw"}
<1>1. /\ l = [lab EXCEPT !.root = @ \cup new]
  BY DEF After
<1>2. /\ l.ns = lab.ns /\ l.root = lab.root \cup new /\ l.placed = lab.placed
      /\ l.turn = lab.turn /\ l.policy = lab.policy
      /\ l \in [ns : SUBSET Namespaces, root : SUBSET Ends, placed : SUBSET Ends,
                turn : SUBSET {"lab", "orphan"}, policy : Envs \cup {"none"}]
  <2>1. new \subseteq Ends
    BY Names
  <2> HIDE DEF new
  <2> QED BY <1>1, <2>1 DEF LabShape
<1>3. c \in R /\ (\A m \in Namespaces : c # <<"del", m>> /\ c # <<"add", m>>)
  BY DEF NextOf
<1>4. ASSUME NEW m \in Namespaces PROVE <<"del", m>> \notin R \cup I
  <2>1. Rank(<<"del", m>>) \in 1 .. 4 /\ <<"del", m>> \in UpSteps(env) /\ Rank(c) \in 10 .. 18
    BY Ranks, InUp
  <2>2. Rank(<<"add", m>>) \in 5 .. 8 /\ <<"add", m>> \in UpSteps(env)
    BY Ranks, InUp
  <2>3. <<"del", m>> \notin R /\ <<"add", m>> \notin R
    BY <2>1, <2>2, LaterEarlier
  <2> QED BY <2>3 DEF UpSoFar, UpFailed
<1>5. ASSUME NEW s \in Sides PROVE <<"move", e, s>> \in Q
  <2>1. /\ Rank(<<"move", e, s>>) \in 11 .. 20 /\ Rank(c) < Rank(<<"move", e, s>>)
        /\ <<"move", e, s>> \in UpSteps(env)
    BY Ranks, InUp
  <2> QED BY <2>1, LaterEarlier
<1>6. /\ c \notin {<<"turnstop">>, <<"turn">>, <<"del", "sig">>}
      /\ c \notin {<<"nft", env>>, <<"del", "rtr">>}
  OBVIOUS
<1>7. ASSUME NEW s \in Sides PROVE <<e, s>> \notin lab.placed
  <2>1. Home(<<e, s>>) \in Namespaces
    BY Names DEF Home, Sides
  <2> QED BY <2>1, <1>3, <1>4 DEF UpSoFar, UpLinks
<1>8. \A d \in Parts, s \in Sides : <<d, s>> \in new <=> d = e
  BY DEF Sides
<1>9. \A end \in new : \E s \in Sides : end = <<e, s>>
  BY DEF Sides
<1>10. LabShape(l)
  <2> HIDE DEF new, l
  <2>1. l.root \cap l.placed = {}
    BY <1>2, <1>7, <1>9 DEF LabShape
  <2>2. ASSUME NEW d \in Parts, NEW s \in Sides, NEW r \in Sides, <<d, s>> \in l.root
        PROVE  <<d, r>> \in l.root \cup l.placed
    BY <1>2, <1>8, <2>2 DEF LabShape
  <2> QED BY <1>2, <2>1, <2>2 DEF LabShape
<1>11. /\ \A d \in Parts : <<"pair", d>> \in Q <=> <<"pair", d>> \in R /\ d # e
       /\ \A d \in Parts, s \in Sides : <<"move", d, s>> \in Q <=> <<"move", d, s>> \in R
       /\ \A m \in Namespaces : <<"del", m>> \in Q <=> <<"del", m>> \in R
  OBVIOUS
<1> HIDE DEF l, new
<1>12. UpLinks(l, Q, I)
  <2> SUFFICES ASSUME NEW d \in Parts, NEW s \in Sides
               PROVE  /\ <<"move", d, s>> \notin Q => <<d, s>> \in l.placed
                      /\ <<"pair", d>> \in Q /\ <<"del", Home(<<d, s>>)>> \notin Q \cup I
                           => <<d, s>> \notin l.placed
                      /\ <<"pair", d>> \notin Q /\ <<"move", d, s>> \in Q => <<d, s>> \in l.root
    BY DEF UpLinks
  <2>1. Home(<<d, s>>) \in Namespaces
    BY Names DEF Home, Sides
  <2>2. /\ <<"move", d, s>> \notin R => <<d, s>> \in lab.placed
        /\ <<"pair", d>> \in R /\ <<"del", Home(<<d, s>>)>> \notin R \cup I => <<d, s>> \notin lab.placed
        /\ <<"pair", d>> \notin R /\ <<"move", d, s>> \in R => <<d, s>> \in lab.root
    BY DEF UpSoFar, UpLinks
  <2>3. /\ <<"pair", d>> \in Q <=> <<"pair", d>> \in R /\ d # e
        /\ <<"move", d, s>> \in Q <=> <<"move", d, s>> \in R
        /\ <<"del", Home(<<d, s>>)>> \in Q <=> <<"del", Home(<<d, s>>)>> \in R
    BY <1>11, <2>1
  <2> QED BY <2>2, <2>3, <1>2, <1>8
<1>13. UpBlame(l, Q, faults)
  <2> HIDE DEF Q
  <2> QED BY <1>2, <1>8, <1>11 DEF UpSoFar, UpBlame
<1> HIDE DEF c
<1>14. UpNames(l, Q, I) /\ UpTurn(l, Q, env, I) /\ UpPolicy(l, Q, env, I) /\ UpFailed(l, Q, I)
  BY <1>2, <1>3, <1>6, Frame DEF UpSoFar
<1> QED BY <1>10, <1>12, <1>13, <1>14 DEF UpSoFar, l, c

LEMMA UpMove ==
  ASSUME NEW env, NEW R, NEW I, NEW e \in Parts, NEW s \in Sides, NextOf(<<"move", e, s>>, R, env),
         Can(<<"move", e, s>>), LabShape(lab), UpSoFar(lab, R, env, faults, I)
  PROVE  /\ LabShape(After(<<"move", e, s>>))
         /\ UpSoFar(After(<<"move", e, s>>), R \ {<<"move", e, s>>}, env, faults, I)
<1> DEFINE c == <<"move", e, s>>
           l == After(c)
           Q == R \ {c}
           end == <<e, s>>
<1>1. /\ l = [lab EXCEPT !.root = @ \ {end}, !.placed = @ \cup {end}]
      /\ end \in lab.root /\ Home(end) \in lab.ns
  BY DEF After, Can
<1>2. /\ l.ns = lab.ns /\ l.root = lab.root \ {end} /\ l.placed = lab.placed \cup {end}
      /\ l.turn = lab.turn /\ l.policy = lab.policy
      /\ l \in [ns : SUBSET Namespaces, root : SUBSET Ends, placed : SUBSET Ends,
                turn : SUBSET {"lab", "orphan"}, policy : Envs \cup {"none"}]
  <2>1. end \in Ends
    BY Names DEF Sides
  <2> HIDE DEF end, l
  <2>2. /\ lab.ns \in SUBSET Namespaces /\ lab.root \in SUBSET Ends /\ lab.placed \in SUBSET Ends
        /\ lab.turn \in SUBSET {"lab", "orphan"} /\ lab.policy \in Envs \cup {"none"}
        /\ lab = [ns |-> lab.ns, root |-> lab.root, placed |-> lab.placed, turn |-> lab.turn,
                  policy |-> lab.policy]
    BY DEF LabShape
  <2>3. l = [ns |-> lab.ns, root |-> lab.root \ {end}, placed |-> lab.placed \cup {end},
             turn |-> lab.turn, policy |-> lab.policy]
    BY <1>1, <2>2
  <2>4. lab.root \ {end} \in SUBSET Ends /\ lab.placed \cup {end} \in SUBSET Ends
    BY <2>1, <2>2
  <2> QED BY <2>2, <2>3, <2>4
<1>3. c \in R /\ (\A m \in Namespaces : c # <<"del", m>> /\ c # <<"add", m>>)
  BY DEF NextOf
<1>4. <<"pair", e>> \notin R
  <2>1. /\ Rank(c) \in 11 .. 20 /\ Rank(<<"pair", e>>) < Rank(c)
        /\ <<"pair", e>> \in UpSteps(env)
    BY Ranks, InUp
  <2> QED BY <2>1, LaterEarlier
<1>5. /\ c \notin {<<"turnstop">>, <<"turn">>, <<"del", "sig">>}
      /\ c \notin {<<"nft", env>>, <<"del", "rtr">>}
  OBVIOUS
<1>6. \A d \in Parts, r \in Sides : <<d, r>> = end <=> d = e /\ r = s
  OBVIOUS
<1>7. LabShape(l)
  <2> HIDE DEF l
  <2>1. \A x \in l.placed : Home(x) \in l.ns
    BY <1>1, <1>2 DEF LabShape
  <2>2. l.root \cap l.placed = {}
    BY <1>2 DEF LabShape
  <2>3. ASSUME NEW d \in Parts, NEW q \in Sides, NEW r \in Sides, <<d, q>> \in l.root
        PROVE  <<d, r>> \in l.root \cup l.placed
    BY <1>2, <2>3 DEF LabShape
  <2> QED BY <1>2, <2>1, <2>2, <2>3 DEF LabShape
<1>8. /\ \A d \in Parts : <<"pair", d>> \in Q <=> <<"pair", d>> \in R
      /\ \A d \in Parts, r \in Sides : <<"move", d, r>> \in Q
                                         <=> <<"move", d, r>> \in R /\ ~(d = e /\ r = s)
      /\ \A m \in Namespaces : <<"del", m>> \in Q <=> <<"del", m>> \in R
  OBVIOUS
<1> HIDE DEF l, end
<1>9. UpLinks(l, Q, I)
  <2> SUFFICES ASSUME NEW d \in Parts, NEW r \in Sides
               PROVE  /\ <<"move", d, r>> \notin Q => <<d, r>> \in l.placed
                      /\ <<"pair", d>> \in Q /\ <<"del", Home(<<d, r>>)>> \notin Q \cup I
                           => <<d, r>> \notin l.placed
                      /\ <<"pair", d>> \notin Q /\ <<"move", d, r>> \in Q => <<d, r>> \in l.root
    BY DEF UpLinks
  <2>1. Home(<<d, r>>) \in Namespaces
    BY Names DEF Home, Sides
  <2>2. /\ <<"move", d, r>> \notin R => <<d, r>> \in lab.placed
        /\ <<"pair", d>> \in R /\ <<"del", Home(<<d, r>>)>> \notin R \cup I => <<d, r>> \notin lab.placed
        /\ <<"pair", d>> \notin R /\ <<"move", d, r>> \in R => <<d, r>> \in lab.root
    BY DEF UpSoFar, UpLinks
  <2>3. /\ <<"pair", d>> \in Q <=> <<"pair", d>> \in R
        /\ <<"move", d, r>> \in Q <=> <<"move", d, r>> \in R /\ ~(d = e /\ r = s)
        /\ <<"del", Home(<<d, r>>)>> \in Q <=> <<"del", Home(<<d, r>>)>> \in R
    BY <1>8, <2>1
  <2>4. /\ <<d, r>> \in l.placed <=> <<d, r>> \in lab.placed \/ (d = e /\ r = s)
        /\ <<d, r>> \in l.root <=> <<d, r>> \in lab.root /\ ~(d = e /\ r = s)
    BY <1>2, <1>6
  <2> QED BY <2>2, <2>3, <2>4, <1>4
<1>10. UpBlame(l, Q, faults)
  <2> HIDE DEF Q
  <2> QED BY <1>2, <1>8 DEF UpSoFar, UpBlame
<1> HIDE DEF c
<1>11. UpNames(l, Q, I) /\ UpTurn(l, Q, env, I) /\ UpPolicy(l, Q, env, I) /\ UpFailed(l, Q, I)
  BY <1>2, <1>3, <1>5, Frame DEF UpSoFar
<1> QED BY <1>7, <1>9, <1>10, <1>11 DEF UpSoFar, l, c

\* The commands about the TURN server and the policy.
LEMMA UpServices ==
  ASSUME NEW env \in Envs, NEW R, NEW I, NEW c, NextOf(c, R, env), LabShape(lab),
         UpSoFar(lab, R, env, faults, I),
         \/ NeedsCoturn(env) /\ c \in {<<"turnstop">>, <<"turn">>}
         \/ c = <<"nftclear">> \/ (env # "lan" /\ c = <<"nft", env>>)
  PROVE  LabShape(After(c)) /\ UpSoFar(After(c), R \ {c}, env, faults, I)
<1> DEFINE l == After(c)
           Q == R \ {c}
<1>1. /\ c \in {<<"turnstop">>, <<"turn">>, <<"nftclear">>, <<"nft", env>>}
      /\ \A n \in Namespaces : c # <<"add", n>> /\ c # <<"del", n>>
      /\ \A e \in Parts : c # <<"pair", e>> /\ \A s \in Sides : c # <<"move", e, s>>
      /\ c # <<"del", "sig">> /\ c # <<"del", "rtr">>
  OBVIOUS
<1>0. \A m \in Namespaces : <<"del", m>> \notin R \cup I
  <2> SUFFICES ASSUME NEW m \in Namespaces PROVE <<"del", m>> \notin R \cup I
    OBVIOUS
  <2>1. /\ Rank(<<"del", m>>) \in 1 .. 4 /\ <<"del", m>> \in UpSteps(env)
        /\ Rank(<<"add", m>>) \in 5 .. 8 /\ <<"add", m>> \in UpSteps(env)
    BY Ranks, InUp
  <2>2. Rank(c) \in {22, 23, 24, 25}
    BY <1>1, Ranks
  <2>3. <<"del", m>> \notin R /\ <<"add", m>> \notin R
    BY <2>1, <2>2, LaterEarlier
  <2> QED BY <2>3 DEF UpSoFar, UpFailed
<1>2. \/ c = <<"turnstop">> /\ l = [lab EXCEPT !.turn = {}]
      \/ c = <<"turn">> /\ l = [lab EXCEPT !.turn = @ \cup {"lab"}]
      \/ c = <<"nftclear">> /\ l = [lab EXCEPT !.policy = "none"]
      \/ c = <<"nft", env>> /\ l = [lab EXCEPT !.policy = env]
  BY <1>1 DEF After
<1> HIDE DEF l
<1>3. /\ l.ns = lab.ns /\ l.root = lab.root /\ l.placed = lab.placed
      /\ l.turn = IF c = <<"turnstop">> THEN {}
                  ELSE IF c = <<"turn">> THEN lab.turn \cup {"lab"} ELSE lab.turn
      /\ l.policy = IF c = <<"nftclear">> THEN "none"
                    ELSE IF c = <<"nft", env>> THEN env ELSE lab.policy
      /\ l \in [ns : SUBSET Namespaces, root : SUBSET Ends, placed : SUBSET Ends,
                turn : SUBSET {"lab", "orphan"}, policy : Envs \cup {"none"}]
  <2>1. CASE c = <<"turnstop">>
    BY <1>2, <2>1 DEF LabShape
  <2>2. CASE c = <<"turn">>
    BY <1>2, <2>2 DEF LabShape
  <2>3. CASE c = <<"nftclear">>
    BY <1>2, <2>3 DEF LabShape
  <2>4. CASE c = <<"nft", env>>
    BY <1>2, <2>4 DEF LabShape
  <2> QED BY <1>1, <2>1, <2>2, <2>3, <2>4
<1>4. LabShape(l)
  BY <1>3 DEF LabShape
<1>5. UpNames(l, Q, I) /\ UpLinks(l, Q, I) /\ UpBlame(l, Q, faults) /\ UpFailed(l, Q, I)
  BY <1>1, <1>3, Frame DEF UpSoFar
<1>6. UpTurn(l, Q, env, I)
  <2>1. CASE c = <<"turnstop">>
    <3>1. Rank(c) = 22 /\ Rank(<<"turn">>) = 23 /\ <<"turn">> \in UpSteps(env)
      BY <2>1, Ranks, InUp
    <3>2. <<"turn">> \in Q
      BY <3>1, LaterEarlier
    <3> QED BY <2>1, <3>2, <1>3 DEF UpTurn
  <2>2. CASE c = <<"turn">>
    <3>1. Rank(c) = 23 /\ Rank(<<"turnstop">>) = 22 /\ <<"turnstop">> \in UpSteps(env)
      BY <2>2, Ranks, InUp
    <3>2. <<"turnstop">> \notin R /\ c \in R
      BY <3>1, LaterEarlier DEF NextOf
    <3>3. <<"turnstop">> \notin I => "orphan" \notin lab.turn
      BY <2>2, <3>2 DEF UpSoFar, UpTurn
    <3>4. l.turn = lab.turn \cup {"lab"} /\ NeedsCoturn(env) /\ <<"turn">> \notin Q
      BY <2>2, <1>3
    <3> QED BY <3>2, <3>3, <3>4 DEF UpTurn
  <2>3. CASE c \notin {<<"turnstop">>, <<"turn">>}
    BY <2>3, <1>1, <1>3, Frame DEF UpSoFar
  <2> QED BY <2>1, <2>2, <2>3
<1>7. UpPolicy(l, Q, env, I)
  <2>1. CASE c = <<"nftclear">>
    <3>1. l.policy = "none" /\ (<<"nft", env>> \in Q <=> <<"nft", env>> \in R)
      BY <2>1, <1>3
    <3>2. env # "lan" => <<"nft", env>> \in R
      <4>1. Rank(c) = 24 /\ Rank(<<"nft", env>>) = 25 /\ (env # "lan" => <<"nft", env>> \in UpSteps(env))
        BY <2>1, Ranks, InUp
      <4> QED BY <4>1, LaterEarlier
    <3> QED BY <3>1, <3>2 DEF UpPolicy
  <2>2. CASE c = <<"nft", env>>
    <3>1. l.policy = env
      BY <2>2, <1>3
    <3>2. env # "lan" /\ <<"nft", env>> \notin Q
      BY <2>2
    <3> QED BY <3>1, <3>2 DEF UpPolicy
  <2>3. CASE c \notin {<<"nftclear">>, <<"nft", env>>}
    BY <2>3, <1>1, <1>3, Frame DEF UpSoFar
  <2> QED BY <2>1, <2>2, <2>3
<1> QED BY <1>4, <1>5, <1>6, <1>7 DEF UpSoFar, l

\* A command of provisioning that succeeds leaves the lab as the rest of the
\* commands expect it.
LEMMA UpStepOK ==
  ASSUME NEW env \in Envs, NEW R, NEW I, NEW c, NextOf(c, R, env), Checked(c) => Can(c),
         LabShape(lab), UpSoFar(lab, R, env, faults, I)
  PROVE  LabShape(After(c)) /\ UpSoFar(After(c), R \ {c}, env, faults, I)
<1>1. c \in UpSteps(env)
  BY DEF NextOf
<1>2. ASSUME NEW n \in Namespaces, c = <<"del", n>>
      PROVE  LabShape(After(c)) /\ UpSoFar(After(c), R \ {c}, env, faults, I)
  BY <1>2, UpDel
<1>3. ASSUME NEW n \in Namespaces, c = <<"add", n>>
      PROVE  LabShape(After(c)) /\ UpSoFar(After(c), R \ {c}, env, faults, I)
  <2>1. Can(<<"add", n>>)
    BY <1>3 DEF Checked
  <2> QED BY <1>3, <2>1, UpAdd
<1>4. ASSUME NEW e \in Parts, c = <<"pair", e>>
      PROVE  LabShape(After(c)) /\ UpSoFar(After(c), R \ {c}, env, faults, I)
  <2>1. Can(<<"pair", e>>)
    BY <1>4 DEF Checked
  <2> QED BY <1>4, <2>1, UpPair
<1>5. ASSUME NEW e \in Parts, NEW s \in Sides, c = <<"move", e, s>>
      PROVE  LabShape(After(c)) /\ UpSoFar(After(c), R \ {c}, env, faults, I)
  <2>1. Can(<<"move", e, s>>)
    BY <1>5 DEF Checked
  <2> QED BY <1>5, <2>1, UpMove
<1>6. CASE c = <<"forward">> \/ \E e \in Parts : c = <<"configure", e>>
  BY <1>6, UpQuiet
<1>7. CASE \/ NeedsCoturn(env) /\ c \in {<<"turnstop">>, <<"turn">>}
           \/ c = <<"nftclear">> \/ (env # "lan" /\ c = <<"nft", env>>)
  BY <1>7, UpServices
<1> QED BY <1>1, <1>2, <1>3, <1>4, <1>5, <1>6, <1>7, UpKinds

\* Before its first command an executor expects nothing of the lab, but that
\* what lies about is a fault's.
LEMMA UpBegins ==
  ASSUME NEW env, NEW l, NEW f, l.root # {} => f > 0
  PROVE  UpSoFar(l, UpSteps(env), env, f, {})
<1> DEFINE R == UpSteps(env)
<1>1. /\ \A n \in Namespaces : <<"del", n>> \in R /\ <<"add", n>> \in R
      /\ \A e \in Parts : <<"pair", e>> \in R
      /\ \A e \in Parts, s \in Sides : <<"move", e, s>> \in R
      /\ NeedsCoturn(env) => <<"turnstop">> \in R /\ <<"turn">> \in R
      /\ <<"nftclear">> \in R
      /\ env # "lan" => <<"nft", env>> \in R
  BY InUp
<1> HIDE DEF R
<1>2. \A e \in Parts, s \in Sides : Home(<<e, s>>) \in Namespaces
  BY Names DEF Home, Sides
<1>3. "sig" \in Namespaces /\ "rtr" \in Namespaces
  BY Names
<1>4. UpNames(l, R, {})
  BY <1>1 DEF UpNames
<1>5. UpTurn(l, R, env, {}) /\ UpPolicy(l, R, env, {})
  BY <1>1, <1>3 DEF UpTurn, UpPolicy
<1>6. UpLinks(l, R, {})
  BY <1>1, <1>2 DEF UpLinks
<1>7. UpBlame(l, R, f) /\ UpFailed(l, R, {})
  BY DEF UpBlame, UpFailed
<1> QED BY <1>4, <1>5, <1>6, <1>7 DEF UpSoFar, R

\* A command that fails unnoticed while the lab is provisioned had a namespace
\* to delete or a TURN server to stop.
LEMMA UpFails ==
  ASSUME NEW env, NEW R, NEW I, NEW c, NextOf(c, R, env), ~Checked(c), Finds(c),
         LabShape(lab), faults \in Nat, UpSoFar(lab, R, env, faults, I)
  PROVE  UpSoFar(lab, R \ {c}, env, faults + 1, I \cup {c})
<1> DEFINE Q == R \ {c}
           J == I \cup {c}
<1>1. c \in R /\ c \in UpSteps(env)
  BY DEF NextOf
<1>2. (\E n \in Namespaces : c = <<"del", n>>) \/ c \in {<<"turnstop">>, <<"nftclear">>}
  <2>1. c[1] \in {"del", "turnstop", "nftclear"}
    BY DEF Checked
  <2> QED BY <1>1, <2>1, UpKinds
<1>3. Q \cup J = R \cup I
  BY <1>1
<1>4. /\ \A n \in Namespaces : <<"add", n>> \in Q <=> <<"add", n>> \in R
      /\ \A e \in Parts : <<"pair", e>> \in Q <=> <<"pair", e>> \in R
      /\ \A e \in Parts, s \in Sides : <<"move", e, s>> \in Q <=> <<"move", e, s>> \in R
      /\ <<"turn">> \in Q <=> <<"turn">> \in R
      /\ <<"nft", env>> \in Q <=> <<"nft", env>> \in R
  BY <1>2
<1>5. UpFailed(lab, Q, J)
  <2>1. I \cap R = {} /\ \A n \in Namespaces : <<"del", n>> \in I
                                               => <<"add", n>> \in R /\ n \in lab.ns
    BY DEF UpSoFar, UpFailed
  <2>2. J \cap Q = {}
    BY <2>1
  <2>3. ASSUME NEW n \in Namespaces, c = <<"del", n>>
        PROVE  <<"add", n>> \in R /\ n \in lab.ns
    <3>1. /\ Rank(<<"del", n>>) \in 1 .. 4 /\ Rank(<<"add", n>>) \in 5 .. 8
          /\ <<"add", n>> \in UpSteps(env)
      BY Ranks, InUp
    <3>2. <<"add", n>> \in R
      BY <2>3, <3>1, LaterEarlier
    <3>3. n \in lab.ns
      BY <2>3 DEF Finds
    <3> QED BY <3>2, <3>3
  <2>4. \A n \in Namespaces : <<"del", n>> \in J => <<"del", n>> \in I \/ c = <<"del", n>>
    OBVIOUS
  <2> HIDE DEF Q, J
  <2> QED BY <2>1, <2>2, <2>3, <2>4, <1>4 DEF UpFailed
<1> HIDE DEF Q
<1>6. UpNames(lab, Q, J)
  BY <1>3, <1>4 DEF UpSoFar, UpNames
<1>7. UpLinks(lab, Q, J)
  BY <1>3, <1>4 DEF UpSoFar, UpLinks
<1>8. UpTurn(lab, Q, env, J) /\ UpPolicy(lab, Q, env, J)
  BY <1>3, <1>4 DEF UpSoFar, UpTurn, UpPolicy
<1>9. UpBlame(lab, Q, faults + 1)
  <2>1. faults > 0 => faults + 1 > 0
    OBVIOUS
  <2> QED BY <2>1, <1>4 DEF UpSoFar, UpBlame
<1> QED BY <1>5, <1>6, <1>7, <1>8, <1>9 DEF UpSoFar, Q, J

\* After its last command the lab is the scenario's.
LEMMA UpDone ==
  ASSUME NEW l, NEW env, NEW f, NEW I, LabShape(l), UpSoFar(l, {}, env, f, I)
  PROVE  /\ l.ns = Namespaces /\ l.root = {} /\ l.placed = Ends
         /\ l.policy = IF env = "lan" THEN "none" ELSE env
         /\ "lab" \in l.turn <=> NeedsCoturn(env)
         /\ NeedsCoturn(env) /\ "orphan" \in l.turn => <<"turnstop">> \in I
<1>0. \A n \in Namespaces : <<"del", n>> \notin I
  BY DEF UpSoFar, UpFailed
<1>1. l.ns = Namespaces
  BY DEF UpSoFar, UpNames, LabShape
<1>2. \A e \in Parts, s \in Sides : <<e, s>> \in l.placed
  BY DEF UpSoFar, UpLinks
<1>3. l.placed = Ends /\ l.root = {}
  <2>1. \A end \in Ends : end \in l.placed
    BY <1>2, Names DEF Sides
  <2> QED BY <2>1 DEF LabShape
<1>4. l.policy = IF env = "lan" THEN "none" ELSE env
  BY <1>0, Names DEF UpSoFar, UpPolicy
<1>5. /\ "lab" \in l.turn <=> NeedsCoturn(env)
      /\ NeedsCoturn(env) /\ "orphan" \in l.turn => <<"turnstop">> \in I
  BY <1>0, Names DEF UpSoFar, UpTurn
<1> QED BY <1>1, <1>3, <1>4, <1>5

\* The commands the machine can refuse.
LEMMA OnlyPairRefused ==
  ASSUME NEW env, NEW R, NEW I, NEW c, NextOf(c, R, env), Checked(c), ~Can(c),
         LabShape(lab), UpSoFar(lab, R, env, faults, I)
  PROVE  \/ \E e \in Parts : /\ c = <<"pair", e>>
                             /\ {e} \X {"ep", "gw"} \subseteq lab.root
                             /\ faults > 0
         \/ \E n \in Namespaces : c = <<"add", n>> /\ <<"del", n>> \in I
<1> SUFFICES ASSUME ~\E n \in Namespaces : c = <<"add", n>> /\ <<"del", n>> \in I
             PROVE  \E e \in Parts : /\ c = <<"pair", e>>
                                     /\ {e} \X {"ep", "gw"} \subseteq lab.root
                                     /\ faults > 0
  OBVIOUS
<1>1. c \in UpSteps(env) /\ c \in R
  BY DEF NextOf
<1>2. ASSUME NEW m \in Namespaces, Rank(c) > 4 PROVE <<"del", m>> \notin R
  <2>1. Rank(<<"del", m>>) \in 1 .. 4 /\ <<"del", m>> \in UpSteps(env)
    BY Ranks, InUp
  <2> QED BY <2>1, <1>2, LaterEarlier
<1>3. ASSUME NEW m \in Namespaces, Rank(c) > 8 PROVE m \in lab.ns
  <2>1. Rank(<<"add", m>>) \in 5 .. 8 /\ <<"add", m>> \in UpSteps(env)
    BY Ranks, InUp
  <2>2. <<"add", m>> \notin R
    BY <2>1, <1>3, LaterEarlier
  <2> QED BY <2>2 DEF UpSoFar, UpNames
<1>14. ASSUME NEW m \in Namespaces, Rank(c) > 8 PROVE <<"del", m>> \notin I
  <2>1. Rank(<<"add", m>>) \in 5 .. 8 /\ <<"add", m>> \in UpSteps(env)
    BY Ranks, InUp
  <2>2. <<"add", m>> \notin R
    BY <2>1, <1>14, LaterEarlier
  <2> QED BY <2>2 DEF UpSoFar, UpFailed
<1>4. ASSUME NEW n \in Namespaces, c = <<"del", n>> PROVE FALSE
  BY <1>4 DEF Checked
<1>5. ASSUME NEW n \in Namespaces, c = <<"add", n>> PROVE FALSE
  <2>1. Rank(c) > 4
    <3>1. Rank(<<"add", n>>) \in 5 .. 8
      BY Ranks
    <3> QED BY <3>1, <1>5
  <2>2. n \notin lab.ns
    <3>1. <<"del", n>> \notin R \cup I
      BY <2>1, <1>2, <1>5
    <3> QED BY <3>1, <1>1, <1>5 DEF UpSoFar, UpNames
  <2> QED BY <2>2, <1>5 DEF Can
<1>6. ASSUME c = <<"forward">> PROVE FALSE
  <2>1. Rank(c) > 8
    BY <1>6, Ranks
  <2> QED BY <2>1, <1>3, <1>6, Names DEF Can
<1>7. ASSUME NEW e \in Parts, c = <<"pair", e>>
      PROVE  {e} \X {"ep", "gw"} \subseteq lab.root /\ faults > 0
  <2>1. PICK s \in Sides : <<e, s>> \in lab.root
    <3>1. lab.root \cap ({e} \X {"ep", "gw"}) # {}
      BY <1>7 DEF Can
    <3> QED BY <3>1 DEF Sides
  <2>2. faults > 0
    BY <1>1, <1>7, <2>1 DEF UpSoFar, UpBlame
  <2>3. \A r \in Sides : <<e, r>> \in lab.root \cup lab.placed
    BY <2>1 DEF LabShape
  <2>4. Rank(c) > 8 /\ Rank(c) > 4
    <3>1. Rank(<<"pair", e>>) \in 10 .. 18
      BY Ranks
    <3> QED BY <3>1, <1>7
  <2>5. ASSUME NEW r \in Sides PROVE <<e, r>> \notin lab.placed
    <3>1. Home(<<e, r>>) \in Namespaces
      BY Names DEF Home, Sides
    <3>2. <<"del", Home(<<e, r>>)>> \notin R \cup I
      BY <3>1, <2>4, <1>2, <1>14
    <3> QED BY <3>2, <1>1, <1>7 DEF UpSoFar, UpLinks
  <2> QED BY <2>2, <2>3, <2>5 DEF Sides
<1>8. ASSUME NEW e \in Parts, NEW s \in Sides, c = <<"move", e, s>> PROVE FALSE
  <2>1. /\ Rank(<<"move", e, s>>) \in 11 .. 20 /\ Rank(<<"pair", e>>) < Rank(<<"move", e, s>>)
        /\ <<"pair", e>> \in UpSteps(env)
    BY Ranks, InUp
  <2>2. <<"pair", e>> \notin R /\ Rank(c) > 8
    BY <2>1, <1>8, LaterEarlier
  <2>3. <<e, s>> \in lab.root
    BY <2>2, <1>1, <1>8 DEF UpSoFar, UpLinks
  <2>4. Home(<<e, s>>) \in lab.ns
    <3>1. Home(<<e, s>>) \in Namespaces
      BY Names DEF Home, Sides
    <3> QED BY <3>1, <2>2, <1>3
  <2> QED BY <2>3, <2>4, <1>8 DEF Can
<1>9. ASSUME NEW e \in Parts, c = <<"configure", e>> PROVE FALSE
  <2>1. ASSUME NEW s \in Sides PROVE <<e, s>> \in lab.placed
    <3>1. /\ Rank(<<"move", e, s>>) \in 11 .. 20
          /\ Rank(<<"move", e, s>>) < Rank(<<"configure", e>>)
          /\ <<"move", e, s>> \in UpSteps(env)
      BY Ranks, InUp
    <3>2. <<"move", e, s>> \notin R
      BY <3>1, <1>9, LaterEarlier
    <3> QED BY <3>2 DEF UpSoFar, UpLinks
  <2>2. {e} \X {"ep", "gw"} \subseteq lab.placed
    BY <2>1 DEF Sides
  <2> QED BY <2>2, <1>9 DEF Can
<1>10. ASSUME NeedsCoturn(env), c = <<"turn">> PROVE FALSE
  <2>1. Rank(c) = 23 /\ Rank(<<"turnstop">>) = 22 /\ <<"turnstop">> \in UpSteps(env)
    BY <1>10, Ranks, InUp
  <2>2. <<"turn">> \in R /\ <<"del", "sig">> \notin R \cup I
    BY <2>1, <1>1, <1>2, <1>10, <1>14, Names
  <2>3. "lab" \notin lab.turn
    BY <2>2 DEF UpSoFar, UpTurn
  <2>4. "sig" \in lab.ns
    BY <2>1, <1>3, Names
  <2> QED BY <2>3, <2>4, <1>10 DEF Can
<1>11. ASSUME c \in {<<"turnstop">>, <<"nftclear">>} PROVE FALSE
  BY <1>11 DEF Checked
<1>12. ASSUME c = <<"nft", env>> PROVE FALSE
  <2>1. Rank(c) = 25
    BY <1>12, Ranks
  <2> QED BY <2>1, <1>3, <1>12, Names DEF Can
<1>13. PICK e \in Parts : c = <<"pair", e>>
  BY <1>1, <1>4, <1>5, <1>6, <1>8, <1>9, <1>10, <1>11, <1>12, UpKinds
<1> QED BY <1>7, <1>13

\* A command of teardown, too, leaves the lab as the rest expects it.
LEMMA DownStepOK ==
  ASSUME NEW R, NEW I, NEW c \in DownSteps, LabShape(lab), DownSoFar(lab, R, I)
  PROVE  LabShape(After(c)) /\ DownSoFar(After(c), R \ {c}, I)
<1> DEFINE l == After(c)
           Q == R \ {c}
<1>1. ASSUME NEW n \in Namespaces, c = <<"del", n>>
      PROVE  LabShape(l) /\ DownSoFar(l, Q, I)
  <2>1. l = Deleted(n)
    BY <1>1 DEF After
  <2>2. /\ LabShape(l) /\ l.ns = lab.ns \ {n} /\ l.root \subseteq lab.root
        /\ (lab.turn = {} => l.turn = {}) /\ l.policy \in {lab.policy, "none"}
    BY <2>1, DeletedShape
  <2>3. /\ \A m \in Namespaces : <<"del", m>> \notin Q \cup I => <<"del", m>> \notin R \cup I \/ m = n
        /\ <<"turnstop">> \notin Q \cup I => <<"turnstop">> \notin R \cup I
        /\ <<"nftclear">> \notin Q \cup I => <<"nftclear">> \notin R \cup I
    BY <1>1
  <2> HIDE DEF l, Q
  <2> QED BY <2>2, <2>3 DEF DownSoFar
<1>2. ASSUME c = <<"turnstop">>
      PROVE  LabShape(l) /\ DownSoFar(l, Q, I)
  <2>1. l = [lab EXCEPT !.turn = {}]
    BY <1>2 DEF After
  <2>2. /\ \A m \in Namespaces : <<"del", m>> \notin Q \cup I => <<"del", m>> \notin R \cup I
        /\ <<"nftclear">> \notin Q \cup I => <<"nftclear">> \notin R \cup I
    BY <1>2
  <2> HIDE DEF l, Q
  <2>3. /\ l.ns = lab.ns /\ l.root = lab.root /\ l.placed = lab.placed
        /\ l.turn = {} /\ l.policy = lab.policy
        /\ l \in [ns : SUBSET Namespaces, root : SUBSET Ends, placed : SUBSET Ends,
                  turn : SUBSET {"lab", "orphan"}, policy : Envs \cup {"none"}]
    BY <2>1 DEF LabShape
  <2> QED BY <2>2, <2>3 DEF LabShape, DownSoFar
<1>3. ASSUME c = <<"nftclear">>
      PROVE  LabShape(l) /\ DownSoFar(l, Q, I)
  <2>1. l = [lab EXCEPT !.policy = "none"]
    BY <1>3 DEF After
  <2>2. /\ \A m \in Namespaces : <<"del", m>> \notin Q \cup I => <<"del", m>> \notin R \cup I
        /\ <<"turnstop">> \notin Q \cup I => <<"turnstop">> \notin R \cup I
    BY <1>3
  <2> HIDE DEF l, Q
  <2>3. /\ l.ns = lab.ns /\ l.root = lab.root /\ l.placed = lab.placed
        /\ l.turn = lab.turn /\ l.policy = "none"
        /\ l \in [ns : SUBSET Namespaces, root : SUBSET Ends, placed : SUBSET Ends,
                  turn : SUBSET {"lab", "orphan"}, policy : Envs \cup {"none"}]
    BY <2>1 DEF LabShape
  <2> QED BY <2>2, <2>3 DEF LabShape, DownSoFar
<1> QED BY <1>1, <1>2, <1>3 DEF DownSteps

\* A command of teardown that fails is one that has not been run, and says so.
LEMMA DownFails ==
  ASSUME NEW R, NEW I, NEW c, DownSoFar(lab, R, I)
  PROVE  DownSoFar(lab, R \ {c}, I \cup {c})
BY DEF DownSoFar

-----------------------------------------------------------------------------
(* The inductive invariant *)

Phases == {"idle", "up", "down", "clear", "simulate", "corpus", "report", "write"}
Kinds == {"loopback", "netns", "shadow"}
Says == {"pass", "fail", "skip", "err"}
Statuses == {"none", "pass", "fail", "skip"}

Attempts == [phase : {"idle", "bind", "run", "done"},
             out : [AllRoles -> Says \cup {"none", "running"}], status : Statuses]

\* The program p is an end of scenario_up.
ProgUp(p, env) ==
  /\ p \in Seq(UpSteps(env)) /\ Ordered(p, 1, 25)
  /\ \A c \in UpSteps(env) : c \in ToSet(p) \/ \A d \in ToSet(p) : Rank(c) < Rank(d)

\* Who runs, and what it runs.
RunOK ==
  /\ run = [phase |-> run.phase, kind |-> run.kind, env |-> run.env, tests |-> run.tests,
            prog |-> run.prog, ignored |-> run.ignored]
  /\ run.phase \in Phases /\ run.tests \in SUBSET Tests
  /\ run.phase # "idle" => \E x \in Executors : run.kind = x.kind /\ run.env = x.env
  /\ run.phase \in {"up", "down"} => run.kind = "netns"
  /\ run.phase \in {"clear", "simulate"} => run.kind = "shadow"
  /\ run.phase = "corpus" => run.kind # "shadow"

\* The lab, in every phase.
LabOK ==
  /\ LabShape(lab) /\ faults \in Nat
  /\ run.phase = "up" => /\ run.prog # <<>> /\ ProgUp(run.prog, run.env)
                         /\ UpSoFar(lab, ToSet(run.prog), run.env, faults, run.ignored)
  /\ run.phase = "down" => /\ run.prog # <<>> /\ run.prog \in Seq(DownSteps)
                           /\ DownSoFar(lab, ToSet(run.prog), run.ignored)
  /\ run.phase \notin {"up", "down"} => run.prog = <<>>
  /\ run.phase # "up" /\ lab.root # {} => faults > 0
  /\ run.ignored # {} => faults > 0
  /\ run.kind = "netns" /\ run.phase \in {"corpus", "report", "write"} => LabOf(run.env)

\* One attempt a at the test t: what it reports, its peers have said.
AttemptOK(a, t, kind) ==
  /\ a.phase = "done" <=> a.status # "none"
  /\ a.phase = "bind" => kind # "loopback"
  /\ a.phase = "run" => \A r \in Roles(kind, t) : a.out[r] # "none"
  /\ a.status \in {"pass", "skip"} =>
       \A r \in Roles(kind, t) : a.out[r] \in {"pass", a.status}

\* The attempts, in every phase, and their processes.
AttOK ==
  /\ att \in [Tests -> Attempts]
  /\ \A t \in Tests : AttemptOK(att[t], t, run.kind)
  /\ \A t \in Tests \ run.tests : att[t].phase = "idle"
  /\ run.phase \in {"idle", "up", "down", "clear", "simulate"} => att = Untried
  /\ run.phase \in {"report", "write"} =>
       IF run.kind = "shadow" THEN att = Untried
       ELSE \A t \in run.tests : att[t].phase = "done"
  /\ run.phase = "corpus" => Cardinality(Started \ Taken) <= Jobs
  /\ procs \subseteq Tests \X (AllRoles \cup {"server"})
  /\ \A p \in procs : /\ InFlight(p[1])
                      /\ p[2] # "server" => att[p[1]].out[p[2]] = "running"

\* Shadow's data directory: what is there when it is read is this run's.
DataOK ==
  /\ data \in [there : BOOLEAN, fresh : BOOLEAN,
               out : [Tests -> [AllRoles -> Says \cup {"none"}]]]
  /\ run.phase \in {"simulate", "report", "write"} /\ run.kind = "shadow"
       => (data.there => data.fresh)

\* The runner and an executor do not run together.
RunnerOK ==
  /\ runner \in [phase : {"off", "url", "health", "load"},
                 child : {"none", "alive", "leaked"},
                 verdict : {"none", "ok", "failing", "error"}]
  /\ runner.phase = "off" => runner.child # "alive"
  /\ run.phase # "idle" => runner.phase = "off" /\ runner.verdict = "none"

\* A document that is whole is the latest of its environment.
FilesOK ==
  /\ seen \in [Envs -> [Tests -> Statuses]]
  /\ DOMAIN files = Stems
  /\ \A x \in Executors :
       LET f == files[Stem(x)]
       IN /\ f.torn \in BOOLEAN /\ f.there \in BOOLEAN /\ (f.torn => f.there)
          /\ f.there /\ ~f.torn => f.env = x.env /\ f.res = seen[x.env]
          /\ ~f.there => seen[x.env] = [t \in Tests |-> "none"]

IInv == RunOK /\ LabOK /\ AttOK /\ DataOK /\ RunnerOK /\ FilesOK /\ VerdictSound

-----------------------------------------------------------------------------
(* What the steps preserve *)

LEMMA TestsFinite == IsFiniteSet(Tests)
<1>1. Corpus \in Seq(STRING)
  BY RunAssumption
<1>2. Len(Corpus) \in Nat /\ Corpus \in [1 .. Len(Corpus) -> STRING]
  BY <1>1
<1>3. Tests = {Corpus[i] : i \in 1 .. Len(Corpus)}
  BY <1>2 DEF Tests, ToSet
<1>4. Corpus \in Surjection(1 .. Len(Corpus), Tests)
  BY <1>2, <1>3 DEF Surjection
<1>5. IsFiniteSet(1 .. Len(Corpus))
  BY <1>2, FS_Interval
<1> QED BY <1>4, <1>5, FS_Surjection

\* The next command of a program, and the rest of it.
LEMMA HeadIsNext ==
  ASSUME NEW p, NEW env, ProgUp(p, env), p # <<>>
  PROVE  /\ NextOf(Head(p), ToSet(p), env)
         /\ ToSet(Tail(p)) = ToSet(p) \ {Head(p)}
         /\ ProgUp(Tail(p), env)
<1> DEFINE h == Head(p)
           q == Tail(p)
           S == UpSteps(env)
<1> HIDE DEF S
<1>1. /\ p \in Seq(S) /\ Len(p) \in Nat /\ Len(p) > 0 /\ DOMAIN p = 1 .. Len(p)
      /\ \A k \in DOMAIN p : p[k] \in S
      /\ h = p[1]
  BY DEF ProgUp, S
<1>2. /\ q \in Seq(S) /\ DOMAIN q = 1 .. Len(p) - 1
      /\ \A k \in DOMAIN q : k + 1 \in DOMAIN p /\ q[k] = p[k + 1]
  BY <1>1
<1>3. /\ \A k \in DOMAIN p : Rank(p[k]) \in 1 .. 25
      /\ \A j, k \in DOMAIN p : j < k => Rank(p[j]) < Rank(p[k])
  BY DEF ProgUp, Ordered
<1>4. 1 \in DOMAIN p
  BY <1>1
<1> HIDE DEF h, q
<1>5. ASSUME NEW d \in ToSet(q) PROVE d \in ToSet(p) /\ Rank(h) < Rank(d) /\ d # h
  <2>1. PICK k \in DOMAIN q : d = q[k]
    BY DEF ToSet
  <2>2. k + 1 \in DOMAIN p /\ d = p[k + 1] /\ 1 < k + 1
    BY <2>1, <1>2
  <2>3. Rank(p[1]) < Rank(p[k + 1]) /\ Rank(p[1]) \in 1 .. 25
    BY <2>2, <1>3, <1>4
  <2>4. d # h
    BY <2>2, <2>3, <1>1
  <2> QED BY <2>2, <2>3, <2>4, <1>1 DEF ToSet
<1>6. ASSUME NEW d \in ToSet(p), d # h PROVE d \in ToSet(q)
  <2>1. PICK k \in DOMAIN p : d = p[k]
    BY DEF ToSet
  <2>2. k # 1
    BY <2>1, <1>1, <1>6
  <2>3. k - 1 \in DOMAIN q /\ (k - 1) + 1 = k
    BY <2>1, <2>2, <1>1, <1>2
  <2>4. q[k - 1] = d
    BY <2>1, <2>3, <1>2
  <2> QED BY <2>3, <2>4 DEF ToSet
<1>7. h \in ToSet(p) /\ ToSet(q) = ToSet(p) \ {h} /\ ToSet(p) \subseteq S
  BY <1>1, <1>4, <1>5, <1>6 DEF ToSet
<1>8. \A c \in S : c \in ToSet(p) \/ \A d \in ToSet(p) : Rank(c) < Rank(d)
  BY DEF ProgUp, S
<1>9. NextOf(h, ToSet(p), env)
  <2>1. ASSUME NEW d \in S
        PROVE  /\ d \in ToSet(p) /\ d # h => Rank(h) < Rank(d)
               /\ d \notin ToSet(p) => Rank(d) < Rank(h)
    BY <1>5, <1>6, <1>7, <1>8
  <2> QED BY <2>1, <1>7 DEF NextOf, S
<1>10. ProgUp(q, env)
  <2>1. Ordered(q, 1, 25)
    <3>1. \A k \in DOMAIN q : Rank(q[k]) \in 1 .. 25
      BY <1>2, <1>3
    <3>2. ASSUME NEW j \in DOMAIN q, NEW k \in DOMAIN q, j < k PROVE Rank(q[j]) < Rank(q[k])
      <4>1. j + 1 \in DOMAIN p /\ k + 1 \in DOMAIN p /\ j + 1 < k + 1
        BY <1>2, <3>2
      <4>2. Rank(p[j + 1]) < Rank(p[k + 1])
        BY <4>1, <1>3
      <4> QED BY <4>2, <1>2
    <3> QED BY <3>1, <3>2 DEF Ordered
  <2>2. ASSUME NEW c \in S
        PROVE  c \in ToSet(q) \/ \A d \in ToSet(q) : Rank(c) < Rank(d)
    <3>1. CASE c = h
      BY <3>1, <1>5
    <3>2. CASE c # h /\ c \in ToSet(p)
      BY <3>2, <1>6
    <3>3. CASE c \notin ToSet(p)
      BY <3>3, <1>5, <1>8
    <3> QED BY <3>1, <3>2, <3>3
  <2> QED BY <2>1, <2>2, <1>2 DEF ProgUp, S
<1> QED BY <1>7, <1>9, <1>10 DEF h, q

\* The processes ps are those there were, but for those of the attempt a at t.
OwnProcs(ps, t, a) ==
  /\ ps \subseteq Tests \X (AllRoles \cup {"server"})
  /\ \A p \in ps : IF p[1] = t THEN /\ a.phase \in {"bind", "run"}
                                    /\ p[2] # "server" => a.out[p[2]] = "running"
                  ELSE p \in procs

\* A step of one attempt, within the window.
LEMMA AttemptMoves ==
  ASSUME RunOK, AttOK, run.phase = "corpus", run' = run, NEW t \in run.tests, NEW a,
         att' = [att EXCEPT ![t] = a],
         a \in Attempts,
         AttemptOK(a, t, run.kind), att[t].phase # "done",
         att[t].phase = "idle" => Cardinality(Started \ Taken) < Jobs,
         OwnProcs(procs', t, a)
  PROVE  AttOK'
<1>1. t \in Tests /\ run.tests \subseteq Tests
  BY DEF RunOK
<1>2. att'[t] = a /\ (\A u \in Tests : u # t => att'[u] = att[u])
  BY <1>1 DEF AttOK
<1>3. att' \in [Tests -> Attempts]
  BY <1>1 DEF AttOK
<1>4. \A u \in Tests : AttemptOK(att'[u], u, run'.kind)
  BY <1>2 DEF AttOK
<1>5. \A u \in Tests \ run'.tests : att'[u].phase = "idle"
  BY <1>2 DEF AttOK
<1>6. Cardinality(Started' \ Taken') <= Jobs
  <2> DEFINE W == Started \ Taken
             V == Started' \ Taken'
  <2>1. \A u \in run.tests : Earlier(u)' = Earlier(u) /\ Earlier(u) \subseteq run.tests
    BY DEF Earlier
  <2>2. Taken \subseteq Taken'
    <3>1. \A u \in run.tests : att[u].phase = "done" => att'[u].phase = "done"
      BY <1>1, <1>2
    <3> QED BY <3>1, <2>1 DEF Taken
  <2>3. Started' \subseteq Started \cup {t}
    BY <1>1, <1>2 DEF Started
  <2>4. V \subseteq W \cup {t}
    BY <2>2, <2>3
  <2>5. att[t].phase # "idle" => t \in W
    BY <1>1 DEF Started, Taken
  <2>6. IsFiniteSet(W)
    <3>1. W \subseteq Tests
      BY <1>1 DEF Started
    <3> QED BY <3>1, TestsFinite, FS_Subset
  <2> HIDE DEF W, V
  <2>7. Cardinality(W) \in Nat /\ Jobs \in Nat /\ Cardinality(W) <= Jobs
    BY <2>6, FS_CardinalityType, RunAssumption DEF AttOK, W
  <2>8. IsFiniteSet(W \cup {t}) /\ Cardinality(W \cup {t}) = IF t \in W THEN Cardinality(W) ELSE Cardinality(W) + 1
    BY <2>6, FS_AddElement
  <2>9. Cardinality(V) <= Cardinality(W \cup {t}) /\ IsFiniteSet(V)
    BY <2>4, <2>8, FS_Subset
  <2>10. Cardinality(V) \in Nat
    BY <2>9, FS_CardinalityType
  <2>11. Cardinality(W \cup {t}) <= Jobs
    <3>1. CASE t \in W
      BY <3>1, <2>7, <2>8
    <3>2. CASE t \notin W
      <4>1. Cardinality(W) < Jobs
        BY <3>2, <2>5 DEF W
      <4> QED BY <4>1, <3>2, <2>7, <2>8
    <3> QED BY <3>1, <3>2
  <2>12. Cardinality(V) <= Jobs
    BY <2>7, <2>8, <2>9, <2>10, <2>11
  <2> QED BY <2>12 DEF V
<1>7. \A p \in procs' : /\ InFlight(p[1])'
                        /\ p[2] # "server" => att'[p[1]].out[p[2]] = "running"
  <2> SUFFICES ASSUME NEW p \in procs'
               PROVE  /\ att'[p[1]].phase \in {"bind", "run"}
                      /\ p[2] # "server" => att'[p[1]].out[p[2]] = "running"
    BY DEF InFlight
  <2>0. /\ procs' \subseteq Tests \X (AllRoles \cup {"server"})
        /\ IF p[1] = t THEN /\ a.phase \in {"bind", "run"}
                            /\ p[2] # "server" => a.out[p[2]] = "running"
           ELSE p \in procs
    BY DEF OwnProcs
  <2>1. CASE p[1] = t
    BY <2>0, <2>1, <1>2
  <2>2. CASE p[1] # t
    <3>1. p \in procs /\ p[1] \in Tests
      BY <2>0, <2>2
    <3>2. att'[p[1]] = att[p[1]]
      BY <3>1, <2>2, <1>2
    <3> QED BY <3>1, <3>2 DEF AttOK, InFlight
  <2> QED BY <2>1, <2>2
<1>8. procs' \subseteq Tests \X (AllRoles \cup {"server"})
  BY DEF OwnProcs
<1> QED BY <1>3, <1>4, <1>5, <1>6, <1>7, <1>8 DEF AttOK

\* Only the attempts and their processes change.
LEMMA AttemptStep ==
  ASSUME IInv, UNCHANGED <<lab, run, files, data, runner, seen, runs, faults>>, AttOK'
  PROVE  IInv'
<1>1. RunOK' /\ LabOK'
  <2>1. RunOK'
    BY DEF IInv, RunOK
  <2>2. LabOf(run.env)' <=> LabOf(run.env)
    BY DEF LabOf
  <2>3. LabOK'
    BY <2>2 DEF IInv, LabOK
  <2> QED BY <2>1, <2>3
<1>2. DataOK' /\ RunnerOK' /\ FilesOK'
  BY DEF IInv, DataOK, RunnerOK, FilesOK
<1>3. VerdictSound'
  BY DEF IInv, VerdictSound
<1> QED BY <1>1, <1>2, <1>3 DEF IInv

LEMMA OfRoles ==
  ASSUME NEW kind, NEW t
  PROVE  /\ Roles(kind, t) \subseteq AllRoles /\ "offerer" \in Roles(kind, t)
         /\ kind # "loopback" => Roles(kind, t) = AllRoles
         /\ AllRoles = {"offerer", "answerer"}
BY DEF Roles, AllRoles

LEMMA StartTestOK ==
  ASSUME IInv, NEW t \in Tests, StartTest(t)
  PROVE  IInv'
<1>1. /\ run.phase = "corpus" /\ t \in run.tests /\ att[t].phase = "idle"
      /\ Cardinality(Started \ Taken) < Jobs
      /\ UNCHANGED <<lab, run, files, data, runner, seen, runs, faults>>
  BY DEF StartTest, Started
<1>2. /\ att[t] \in Attempts
      /\ att[t].status = "none" /\ RunOK /\ AttOK
      /\ \A p \in procs : p[1] # t
      /\ procs \subseteq Tests \X (AllRoles \cup {"server"})
  <2>1. AttemptOK(att[t], t, run.kind)
    BY DEF IInv, AttOK
  <2>2. att[t].status = "none"
    BY <2>1, <1>1 DEF AttemptOK
  <2> QED BY <2>2, <1>1 DEF IInv, AttOK, InFlight
<1>3. CASE run.kind = "loopback"
  <2> DEFINE a == [att[t] EXCEPT !.phase = "run", !.out = Running(t)]
  <2>1. att' = [att EXCEPT ![t] = a] /\ procs' = procs
    BY <1>3, <1>1, <1>2 DEF StartTest, IInv, AttOK
  <2>2. Running(t) \in [AllRoles -> Says \cup {"none", "running"}]
    BY DEF Running
  <2>3. /\ a.phase = "run" /\ a.out = Running(t) /\ a.status = "none"
        /\ a \in Attempts
    BY <2>2, <1>2 DEF Attempts
  <2>4. \A r \in Roles(run.kind, t) : a.out[r] = "running"
    BY <2>3, OfRoles DEF Running
  <2> HIDE DEF a
  <2>5. AttemptOK(a, t, run.kind)
    BY <2>3, <2>4 DEF AttemptOK
  <2>6. OwnProcs(procs', t, a)
    BY <1>2, <2>1 DEF OwnProcs
  <2>7. run' = run
    BY <1>1
  <2>8. AttOK'
    BY <1>1, <1>2, <2>1, <2>3, <2>5, <2>6, <2>7, AttemptMoves
  <2> QED BY <2>8, <1>1, AttemptStep
<1>4. CASE run.kind # "loopback" /\ att' = [att EXCEPT ![t].phase = "bind"]
             /\ procs' = procs \cup {<<t, "server">>}
  <2> DEFINE a == [att[t] EXCEPT !.phase = "bind"]
  <2>1. att' = [att EXCEPT ![t] = a]
    BY <1>4, <1>2 DEF IInv, AttOK
  <2>2. /\ a.phase = "bind" /\ a.status = "none"
        /\ a \in Attempts
    BY <1>2 DEF Attempts
  <2> HIDE DEF a
  <2>3. AttemptOK(a, t, run.kind)
    BY <2>2, <1>4 DEF AttemptOK
  <2>4. /\ procs' \subseteq Tests \X (AllRoles \cup {"server"})
        /\ \A p \in procs' : IF p[1] = t THEN p[2] = "server" ELSE p \in procs
    BY <1>2, <1>4
  <2>6. OwnProcs(procs', t, a) /\ run' = run
    BY <2>2, <2>4, <1>1 DEF OwnProcs
  <2>5. AttOK'
    BY <1>1, <1>2, <2>1, <2>2, <2>3, <2>6, AttemptMoves
  <2> QED BY <2>5, <1>1, AttemptStep
<1>5. CASE run.kind # "loopback" /\ procs' = procs
             /\ att' = [att EXCEPT ![t].phase = "done", ![t].status = "fail"]
  <2> DEFINE a == [att[t] EXCEPT !.phase = "done", !.status = "fail"]
  <2>1. att' = [att EXCEPT ![t] = a]
    BY <1>5, <1>2 DEF IInv, AttOK
  <2>2. /\ a.phase = "done" /\ a.status = "fail"
        /\ a \in Attempts
    BY <1>2 DEF Attempts, Statuses
  <2> HIDE DEF a
  <2>3. AttemptOK(a, t, run.kind)
    BY <2>2 DEF AttemptOK
  <2>5. OwnProcs(procs', t, a) /\ run' = run
    BY <1>1, <1>2, <1>5 DEF OwnProcs
  <2>4. AttOK'
    BY <1>1, <1>2, <2>1, <2>2, <2>3, <2>5, AttemptMoves
  <2> QED BY <2>4, <1>1, AttemptStep
<1> QED BY <1>3, <1>4, <1>5 DEF StartTest

LEMMA SpawnPeersOK ==
  ASSUME IInv, NEW t \in Tests, SpawnPeers(t)
  PROVE  IInv'
<1>1. /\ run.phase = "corpus" /\ att[t].phase = "bind"
      /\ att' = [att EXCEPT ![t].phase = "run", ![t].out = Running(t)]
      /\ procs' = procs \cup Peers(t)
      /\ UNCHANGED <<lab, run, files, data, runner, seen, runs, faults>>
  BY DEF SpawnPeers
<1>2. /\ att[t] \in Attempts
      /\ AttemptOK(att[t], t, run.kind) /\ t \in run.tests /\ RunOK /\ AttOK
      /\ procs \subseteq Tests \X (AllRoles \cup {"server"})
  BY <1>1 DEF IInv, AttOK
<1>3. att[t].status = "none" /\ Roles(run.kind, t) = AllRoles
  BY <1>1, <1>2, OfRoles DEF AttemptOK
<1> DEFINE a == [att[t] EXCEPT !.phase = "run", !.out = Running(t)]
<1>4. att' = [att EXCEPT ![t] = a]
  BY <1>1, <1>2 DEF AttOK
<1>5. Running(t) \in [AllRoles -> Says \cup {"none", "running"}]
  BY DEF Running
<1>6. /\ a.phase = "run" /\ a.out = Running(t) /\ a.status = "none"
      /\ a \in Attempts
  BY <1>5, <1>2, <1>3 DEF Attempts
<1>7. \A r \in AllRoles : a.out[r] = "running"
  BY <1>3, <1>6 DEF Running
<1> HIDE DEF a
<1>8. AttemptOK(a, t, run.kind)
  BY <1>3, <1>6, <1>7 DEF AttemptOK
<1>9. /\ procs' \subseteq Tests \X (AllRoles \cup {"server"})
      /\ \A p \in procs' : IF p[1] = t THEN p[2] \in AllRoles \cup {"server"} ELSE p \in procs
  BY <1>1, <1>2, <1>3 DEF Peers
<1>11. OwnProcs(procs', t, a) /\ run' = run
  BY <1>1, <1>6, <1>7, <1>9 DEF OwnProcs
<1>12. att[t].phase \notin {"idle", "done"}
  BY <1>1
<1>10. AttOK'
  BY <1>1, <1>2, <1>4, <1>6, <1>8, <1>11, <1>12, AttemptMoves
<1> QED BY <1>1, <1>10, AttemptStep

LEMMA PeerEndsOK ==
  ASSUME IInv, NEW t \in Tests, NEW r \in AllRoles, NEW o \in Outcomes[t], PeerEnds(t, r, o)
  PROVE  IInv'
<1> DEFINE out == [att[t].out EXCEPT ![r] = o]
           outs == {out[q] : q \in Roles(run.kind, t)}
<1>1. /\ run.phase = "corpus" /\ att[t].phase = "run" /\ att[t].out[r] = "running"
      /\ UNCHANGED <<lab, run, files, data, runner, seen, runs, faults>>
      /\ IF "running" \in outs
         THEN /\ att' = [att EXCEPT ![t].out = out]
              /\ procs' = procs \ {<<t, r>>}
         ELSE /\ att' = [att EXCEPT ![t] = [phase |-> "done", out |-> out,
                                            status |-> Folded(outs)]]
              /\ procs' = procs \ Children(t)
  BY DEF PeerEnds
<1>2. /\ att[t] \in Attempts
      /\ AttemptOK(att[t], t, run.kind) /\ t \in run.tests /\ RunOK /\ AttOK
      /\ procs \subseteq Tests \X (AllRoles \cup {"server"})
      /\ \A p \in procs : p[2] # "server" => att[p[1]].out[p[2]] = "running"
  BY <1>1 DEF IInv, AttOK
<1>3. o \in Says
  BY RunAssumption DEF Says
<1>4. /\ out \in [AllRoles -> Says \cup {"none", "running"}]
      /\ \A q \in AllRoles : out[q] = IF q = r THEN o ELSE att[t].out[q]
  BY <1>2, <1>3 DEF Attempts
<1>5. \A q \in Roles(run.kind, t) : out[q] # "none" /\ q \in AllRoles
  BY <1>1, <1>2, <1>3, <1>4, OfRoles DEF AttemptOK, Says
<1> HIDE DEF out
<1>6. CASE "running" \in outs
  <2> DEFINE a == [att[t] EXCEPT !.out = out]
  <2>1. att' = [att EXCEPT ![t] = a] /\ procs' = procs \ {<<t, r>>}
    BY <1>1, <1>2, <1>6 DEF AttOK
  <2>2. /\ a.phase = "run" /\ a.out = out /\ a.status = "none"
        /\ a \in Attempts
    BY <1>1, <1>2, <1>4 DEF AttemptOK, Attempts
  <2> HIDE DEF a
  <2>3. AttemptOK(a, t, run.kind)
    BY <2>2, <1>5 DEF AttemptOK
  <2>4. ASSUME NEW p \in procs'
        PROVE  IF p[1] = t THEN p[2] # "server" => a.out[p[2]] = "running" ELSE p \in procs
    <3>1. p \in procs /\ p # <<t, r>> /\ p = <<p[1], p[2]>> /\ p[2] \in AllRoles \cup {"server"}
      BY <2>1, <1>2
    <3>2. CASE p[1] = t /\ p[2] # "server"
      <4>1. p[2] # r /\ p[2] \in AllRoles /\ att[t].out[p[2]] = "running"
        BY <3>1, <3>2, <1>2
      <4> QED BY <4>1, <3>2, <2>2, <1>4
    <3> QED BY <3>1, <3>2
  <2>5. procs' \subseteq Tests \X (AllRoles \cup {"server"})
    BY <2>1, <1>2
  <2>7. OwnProcs(procs', t, a) /\ run' = run /\ att[t].phase \notin {"idle", "done"}
    BY <1>1, <2>2, <2>4, <2>5 DEF OwnProcs
  <2>6. AttOK'
    BY <1>1, <1>2, <2>1, <2>2, <2>3, <2>7, AttemptMoves
  <2> QED BY <2>6, <1>1, AttemptStep
<1>7. CASE "running" \notin outs
  <2> DEFINE a == [phase |-> "done", out |-> out, status |-> Folded(outs)]
  <2>1. att' = [att EXCEPT ![t] = a] /\ procs' = procs \ Children(t)
    BY <1>1, <1>7
  <2>2. Folded(outs) \in {"pass", "skip", "fail"}
    BY DEF Folded
  <2>3. /\ a.phase = "done" /\ a.out = out /\ a.status = Folded(outs)
        /\ a \in Attempts
    BY <2>2, <1>4 DEF Attempts, Statuses
  <2> HIDE DEF a
  <2>4. ASSUME NEW q \in Roles(run.kind, t), Folded(outs) # "fail"
        PROVE  out[q] \in {"pass", Folded(outs)}
    <3>1. out[q] \in outs
      OBVIOUS
    <3>2. out[q] \in Says
      BY <1>4, <1>5, <1>7, <3>1
    <3> HIDE DEF outs
    <3>3. out[q] \notin {"fail", "err"}
      BY <2>4, <3>1 DEF Folded
    <3>4. out[q] = "skip" => Folded(outs) = "skip"
      BY <3>1, <2>4 DEF Folded
    <3> QED BY <3>2, <3>3, <3>4 DEF Says
  <2>5. AttemptOK(a, t, run.kind)
    BY <2>2, <2>3, <2>4 DEF AttemptOK
  <2>6. \A p \in procs' : p \in procs /\ p[1] # t
    BY <2>1, <1>2 DEF Children
  <2>7. procs' \subseteq Tests \X (AllRoles \cup {"server"})
    BY <2>1, <1>2
  <2>9. OwnProcs(procs', t, a) /\ run' = run /\ att[t].phase \notin {"idle", "done"}
    BY <1>1, <2>6, <2>7 DEF OwnProcs
  <2>8. AttOK'
    BY <1>1, <1>2, <2>1, <2>3, <2>5, <2>9, AttemptMoves
  <2> QED BY <2>8, <1>1, AttemptStep
<1> QED BY <1>6, <1>7

LEMMA TimeoutOK ==
  ASSUME IInv, NEW t \in Tests, Timeout(t)
  PROVE  IInv'
<1> DEFINE a == [NotTried EXCEPT !.phase = "done", !.status = "fail"]
<1>1. /\ run.phase = "corpus" /\ att[t].phase \in {"bind", "run"}
      /\ att' = [att EXCEPT ![t] = a] /\ procs' = procs \ Children(t)
      /\ UNCHANGED <<lab, run, files, data, runner, seen, runs, faults>>
  BY DEF Timeout, InFlight
<1>2. /\ a.phase = "done" /\ a.status = "fail"
      /\ a \in Attempts
  BY DEF NotTried, Attempts, Statuses
<1> HIDE DEF a
<1>3. AttemptOK(a, t, run.kind)
  BY <1>2 DEF AttemptOK
<1>4. /\ t \in run.tests /\ RunOK /\ AttOK
      /\ procs \subseteq Tests \X (AllRoles \cup {"server"})
  BY <1>1 DEF IInv, AttOK
<1>5. \A p \in procs' : p \in procs /\ p[1] # t
  BY <1>1, <1>4 DEF Children
<1>6. procs' \subseteq Tests \X (AllRoles \cup {"server"})
  BY <1>1, <1>4
<1>8. OwnProcs(procs', t, a) /\ run' = run /\ att[t].phase \notin {"idle", "done"}
  BY <1>1, <1>5, <1>6 DEF OwnProcs
<1>7. AttOK'
  BY <1>1, <1>2, <1>3, <1>4, <1>8, AttemptMoves
<1> QED BY <1>1, <1>7, AttemptStep

\* Outside a corpus no attempt is under way, and no process is left.
LEMMA NoneInFlight ==
  ASSUME AttOK, run.phase \in Phases \ {"corpus"}
  PROVE  (\A t \in Tests : ~InFlight(t)) /\ procs = {}
<1>1. \A t \in Tests : att[t].phase \in {"idle", "done"}
  <2>1. CASE att = Untried
    BY <2>1 DEF Untried, NotTried
  <2>2. CASE run.phase \in {"report", "write"} /\ run.kind # "shadow"
    BY <2>2 DEF AttOK
  <2> QED BY <2>1, <2>2 DEF AttOK, Phases
<1>2. \A t \in Tests : ~InFlight(t)
  BY <1>1 DEF InFlight
<1>3. \A p \in procs : p[1] \in Tests /\ InFlight(p[1])
  BY DEF AttOK
<1> QED BY <1>2, <1>3

\* Nothing tried is a good state of the attempts.
LEMMA UntriedOK ==
  ASSUME att' = Untried, procs' = {}, run'.tests \subseteq Tests,
         run'.phase \in {"report", "write"} => run'.kind = "shadow"
  PROVE  AttOK'
<1>1. \A t \in Tests : Untried[t] = NotTried
  BY DEF Untried
<1>2. NotTried \in Attempts
  BY DEF NotTried, Attempts, Statuses
<1>3. att' \in [Tests -> Attempts]
  BY <1>2 DEF Untried
<1>4. \A t \in Tests : AttemptOK(att'[t], t, run'.kind)
  BY <1>1 DEF AttemptOK, NotTried
<1>5. \A t \in Tests : att'[t].phase = "idle"
  BY <1>1 DEF NotTried
<1>6. Cardinality(Started' \ Taken') <= Jobs
  <2>1. Started' = {}
    BY <1>5 DEF Started
  <2>2. Started' \ Taken' = {}
    BY <2>1
  <2>3. Cardinality({}) = 0 /\ Jobs \in Nat
    BY FS_EmptySet, RunAssumption
  <2> QED BY <2>2, <2>3
<1> QED BY <1>3, <1>4, <1>5, <1>6 DEF AttOK

\* One document per environment.
LEMMA StemIsEnv ==
  ASSUME NEW x \in Executors, NEW y \in Executors
  PROVE  Stem(x) = Stem(y) <=> x.env = y.env
<1>1. CASE x.kind = "loopback"
  BY <1>1, RunAssumption DEF Stem
<1>2. CASE y.kind = "loopback"
  BY <1>2, RunAssumption DEF Stem
<1>3. CASE x.kind # "loopback" /\ y.kind # "loopback"
  BY <1>3 DEF Stem
<1> QED BY <1>1, <1>2, <1>3

\* The executor and the lab stay as they are.
LEMMA LabUnchanged ==
  ASSUME IInv, run' = run, lab' = lab, faults' = faults
  PROVE  RunOK' /\ LabOK'
<1>1. RunOK'
  BY DEF IInv, RunOK
<1>2. LabOf(run.env)' <=> LabOf(run.env)
  BY DEF LabOf
<1>3. LabOK'
  BY <1>2 DEF IInv, LabOK
<1> QED BY <1>1, <1>3

\* The executor is over, and leaves the lab as it was.
LEMMA RunEnds ==
  ASSUME RunOK, LabOK, run' = NoRun, LabShape(lab'), faults' \in Nat,
         lab'.root # {} => faults' > 0
  PROVE  RunOK' /\ LabOK'
<1>1. /\ run'.phase = "idle" /\ run'.tests = {} /\ run'.prog = <<>> /\ run'.kind = "none"
      /\ run'.ignored = {}
      /\ run' = [phase |-> run'.phase, kind |-> run'.kind, env |-> run'.env,
                 tests |-> run'.tests, prog |-> run'.prog, ignored |-> run'.ignored]
  BY DEF NoRun
<1>2. RunOK'
  BY <1>1 DEF RunOK, Phases
<1>3. LabOK'
  BY <1>1 DEF LabOK
<1> QED BY <1>2, <1>3

LEMMA StartRunOK ==
  ASSUME IInv, NEW x \in Executors, NEW only \in Only, StartRun(x, only)
  PROVE  IInv'
<1>1. /\ run.phase = "idle" /\ runner.phase = "off"
      /\ run' = [kind |-> x.kind, env |-> x.env, tests |-> Selected(x.kind, only),
                 phase |-> CASE x.kind = "netns" -> "up"
                             [] x.kind = "shadow" -> "clear"
                             [] x.kind = "loopback" -> "corpus",
                 prog |-> IF x.kind = "netns" THEN ScenarioUp(x.env) ELSE <<>>,
                 ignored |-> {}]
      /\ data' = [data EXCEPT !.fresh = FALSE]
      /\ runner' = [runner EXCEPT !.verdict = "none"]
      /\ UNCHANGED <<lab, att, procs, files, seen, faults>>
  BY DEF StartRun
<1>2. x.kind \in Kinds
  BY RunAssumption DEF Kinds
<1>3. /\ run'.kind = x.kind /\ run'.env = x.env /\ run'.tests = Selected(x.kind, only)
      /\ run'.phase = IF x.kind = "netns" THEN "up"
                      ELSE IF x.kind = "shadow" THEN "clear" ELSE "corpus"
      /\ run'.prog = IF x.kind = "netns" THEN ScenarioUp(x.env) ELSE <<>>
      /\ run'.ignored = {}
      /\ run' = [phase |-> run'.phase, kind |-> run'.kind, env |-> run'.env,
                 tests |-> run'.tests, prog |-> run'.prog, ignored |-> run'.ignored]
  <2>1. /\ run'.kind = x.kind /\ run'.env = x.env /\ run'.tests = Selected(x.kind, only)
        /\ run'.prog = IF x.kind = "netns" THEN ScenarioUp(x.env) ELSE <<>>
        /\ run'.ignored = {}
      /\ run'.ignored = {}
        /\ run' = [phase |-> run'.phase, kind |-> run'.kind, env |-> run'.env,
                   tests |-> run'.tests, prog |-> run'.prog, ignored |-> run'.ignored]
    BY <1>1
  <2>2. run'.phase = CASE x.kind = "netns" -> "up"
                       [] x.kind = "shadow" -> "clear"
                       [] x.kind = "loopback" -> "corpus"
    BY <1>1
  <2>3. run'.phase = IF x.kind = "netns" THEN "up"
                     ELSE IF x.kind = "shadow" THEN "clear" ELSE "corpus"
    BY <1>2, <2>2 DEF Kinds
  <2> QED BY <2>1, <2>3
<1>4. RunOK'
  <2>1. run'.tests \in SUBSET Tests
    BY <1>3 DEF Selected
  <2>2. run'.phase \in Phases
    BY <1>3 DEF Phases
  <2> QED BY <1>2, <1>3, <2>1, <2>2 DEF RunOK, Kinds
<1>5. LabOK'
  <2>1. LabShape(lab') /\ faults' \in Nat /\ (lab'.root # {} => faults' > 0)
    BY <1>1 DEF IInv, LabOK
  <2>2. CASE x.kind = "netns"
    <3> DEFINE p == ScenarioUp(x.env)
    <3>1. /\ run'.prog = p /\ run'.phase = "up" /\ run'.env = x.env /\ run'.ignored = {}
      BY <1>3, <2>2
    <3>2. p # <<>> /\ Ordered(p, 1, 25) /\ ToSet(p) = UpSteps(x.env)
          /\ p \in Seq(UpSteps(x.env) \cup DownSteps)
      BY ScenarioUpSteps
    <3> HIDE DEF p
    <3>3. p \in Seq(UpSteps(x.env))
      <4>1. \A k \in 1 .. Len(p) : p[k] \in ToSet(p)
        BY <3>2 DEF ToSet
      <4> QED BY <4>1, <3>2
    <3>4. ProgUp(p, x.env)
      BY <3>2, <3>3 DEF ProgUp
    <3>5. UpSoFar(lab', UpSteps(x.env), x.env, faults', {})
      BY <2>1, UpBegins
    <3> QED BY <2>1, <3>1, <3>2, <3>4, <3>5 DEF LabOK
  <2>3. CASE x.kind # "netns"
    BY <1>3, <2>1, <2>3 DEF LabOK
  <2> QED BY <2>2, <2>3
<1>6. AttOK'
  <2>1. att = Untried /\ procs = {}
    <3>1. AttOK /\ run.phase \in Phases \ {"corpus"}
      BY <1>1 DEF IInv, Phases
    <3> QED BY <3>1, <1>1, NoneInFlight DEF AttOK
  <2>2. run'.phase \notin {"report", "write"}
    BY <1>3
  <2>3. run'.tests \subseteq Tests
    BY <1>4 DEF RunOK
  <2> QED BY <1>1, <2>1, <2>2, <2>3, UntriedOK
<1>7. DataOK'
  <2>1. run'.phase \notin {"simulate", "report", "write"}
    BY <1>3
  <2> QED BY <1>1, <2>1 DEF IInv, DataOK
<1>8. RunnerOK' /\ FilesOK'
  BY <1>1 DEF IInv, RunnerOK, FilesOK
<1>9. VerdictSound'
  BY <1>1 DEF IInv, VerdictSound, RunnerOK
<1> QED BY <1>4, <1>5, <1>6, <1>7, <1>8, <1>9 DEF IInv

\* The executor goes on to its next command, or to its tests, or returns, if
\* the lab is then as what is left of the commands expects it.
LEMMA AdvanceOK ==
  ASSUME IInv, run.phase \in {"up", "down"}, NEW F, Advance(F),
         LabShape(lab'), faults' \in Nat, (run.ignored \cup F # {} => faults' > 0),
         run.phase = "up" => UpSoFar(lab', ToSet(run.prog) \ {Head(run.prog)}, run.env,
                                     faults', run.ignored \cup F),
         run.phase = "down" => DownSoFar(lab', ToSet(run.prog) \ {Head(run.prog)},
                                         run.ignored \cup F),
         UNCHANGED <<att, procs, files, data, runner, seen, runs>>
  PROVE  IInv'
<1> DEFINE c == Head(run.prog)
           rest == Tail(run.prog)
           I == run.ignored \cup F
<1>1. IF rest # <<>> THEN run' = [run EXCEPT !.prog = Tail(@), !.ignored = @ \cup F]
      ELSE run' = IF run.phase = "down" THEN NoRun
                  ELSE [run EXCEPT !.phase = "corpus", !.prog = <<>>, !.ignored = @ \cup F]
  BY DEF Advance
<1>2. /\ RunOK /\ LabOK /\ run.kind = "netns" /\ run.prog # <<>>
      /\ run.env \in Envs
  BY DEF IInv, LabOK, RunOK, Envs
<1>3. att = Untried /\ procs = {}
  BY NoneInFlight DEF IInv, AttOK, Phases
<1>4. /\ run'.phase \in Phases /\ run'.tests \in SUBSET Tests
      /\ run' = [phase |-> run'.phase, kind |-> run'.kind, env |-> run'.env,
                 tests |-> run'.tests, prog |-> run'.prog, ignored |-> run'.ignored]
      /\ run'.prog = rest
      /\ \/ /\ run'.phase = run.phase /\ rest # <<>> /\ run'.kind = run.kind
            /\ run'.env = run.env /\ run'.ignored = I
         \/ run.phase = "down" /\ run' = NoRun /\ run'.phase = "idle" /\ run'.kind = "none" /\ rest = <<>>
         \/ /\ run.phase = "up" /\ run'.phase = "corpus" /\ run'.kind = run.kind
            /\ run'.env = run.env /\ rest = <<>> /\ run'.ignored = I
  <2>1. CASE rest # <<>>
    <3>1. run' = [run EXCEPT !.prog = rest, !.ignored = I]
      BY <1>1, <2>1
    <3> HIDE DEF rest, I
    <3> QED BY <3>1, <2>1, <1>2 DEF RunOK
  <2>2. CASE rest = <<>> /\ run.phase = "down"
    <3>1. run' = NoRun
      BY <1>1, <2>2
    <3> QED BY <3>1, <2>2 DEF NoRun, Phases
  <2>3. CASE rest = <<>> /\ run.phase = "up"
    <3>1. run' = [run EXCEPT !.phase = "corpus", !.prog = <<>>, !.ignored = I]
      BY <1>1, <2>3
    <3> HIDE DEF rest, I
    <3> QED BY <3>1, <2>3, <1>2 DEF RunOK, Phases
  <2> QED BY <2>1, <2>2, <2>3
<1>f. I # {} => faults' > 0
  OBVIOUS
<1> HIDE DEF I, c, rest
<1>5. RunOK'
  BY <1>2, <1>4 DEF RunOK
<1>6. LabOK'
  <2>1. CASE run.phase = "up"
    <3> DEFINE R == ToSet(run.prog)
    <3>1. ProgUp(run.prog, run.env) /\ UpSoFar(lab', R \ {c}, run.env, faults', I)
      BY <2>1 DEF IInv, LabOK, c, I
    <3>2. ToSet(rest) = R \ {c} /\ ProgUp(rest, run.env)
      BY <3>1, <1>2, HeadIsNext DEF c, rest
    <3> HIDE DEF R
    <3>3. UpSoFar(lab', ToSet(rest), run.env, faults', I)
      BY <3>1, <3>2
    <3>4. CASE rest # <<>>
      <4>1. run'.phase = "up" /\ run'.env = run.env /\ run'.ignored = I
        BY <1>4, <2>1, <3>4
      <4> QED BY <4>1, <3>2, <3>3, <3>4, <1>2, <1>4, <1>f DEF LabOK
    <3>5. CASE rest = <<>>
      <4>1. run'.phase = "corpus" /\ run'.env = run.env /\ run'.ignored = I
        BY <1>4, <2>1, <3>5
      <4>2. ToSet(rest) = {}
        BY <3>5 DEF ToSet
      <4>3. UpSoFar(lab', {}, run.env, faults', I)
        BY <3>3, <4>2
      <4>4. LabOf(run.env)'
        <5>1. \A l, e, f, J : LabShape(l) /\ UpSoFar(l, {}, e, f, J)
                => /\ l.ns = Namespaces /\ l.root = {} /\ l.placed = Ends
                   /\ l.policy = IF e = "lan" THEN "none" ELSE e
                   /\ "lab" \in l.turn <=> NeedsCoturn(e)
                   /\ NeedsCoturn(e) /\ "orphan" \in l.turn => <<"turnstop">> \in J
          BY UpDone
        <5> QED BY <5>1, <4>1, <4>3 DEF LabOf
      <4>5. lab'.root = {}
        BY <4>4 DEF LabOf
      <4> QED BY <4>1, <4>4, <4>5, <3>5, <1>2, <1>4, <1>f DEF LabOK
    <3> QED BY <3>4, <3>5
  <2>2. CASE run.phase = "down"
    <3> DEFINE R == ToSet(run.prog)
    <3>1. run.prog \in Seq(DownSteps) /\ DownSoFar(lab', R \ {c}, I)
      BY <2>2 DEF IInv, LabOK, c, I
    <3>2. c \in DownSteps /\ rest \in Seq(DownSteps) /\ R \ {c} \subseteq ToSet(rest)
      <4> DEFINE p == run.prog
      <4>1. /\ p \in Seq(DownSteps) /\ p # <<>> /\ Len(p) \in Nat /\ DOMAIN p = 1 .. Len(p)
            /\ c = p[1] /\ 1 \in DOMAIN p /\ p[1] \in DownSteps
            /\ rest \in Seq(DownSteps) /\ DOMAIN rest = 1 .. Len(p) - 1
            /\ \A k \in DOMAIN rest : rest[k] = p[k + 1]
        BY <3>1, <1>2 DEF c, rest
      <4> HIDE DEF p
      <4>2. ASSUME NEW d \in ToSet(p), d # c PROVE d \in ToSet(rest)
        <5>1. PICK k \in DOMAIN p : d = p[k]
          BY DEF ToSet
        <5>2. k # 1
          BY <5>1, <4>1, <4>2
        <5>3. k - 1 \in DOMAIN rest /\ (k - 1) + 1 = k
          BY <5>1, <5>2, <4>1
        <5>4. rest[k - 1] = d
          BY <5>1, <5>3, <4>1
        <5> QED BY <5>3, <5>4 DEF ToSet
      <4> QED BY <4>1, <4>2 DEF p
    <3> HIDE DEF R
    <3>4. DownSoFar(lab', ToSet(rest), I)
      BY <3>1, <3>2 DEF DownSoFar
    <3>5. lab'.root = {}
      BY <3>4 DEF DownSoFar
    <3>6. CASE rest # <<>>
      <4>1. run'.phase = "down" /\ run'.ignored = I
        BY <1>4, <2>2, <3>6
      <4> QED BY <4>1, <3>2, <3>4, <3>5, <3>6, <1>2, <1>4, <1>f DEF LabOK
    <3>7. CASE rest = <<>>
      <4>1. run' = NoRun
        BY <1>4, <2>2, <3>7
      <4> QED BY <4>1, <3>5, <1>2, RunEnds
    <3> QED BY <3>6, <3>7
  <2> QED BY <2>1, <2>2
<1>7. AttOK'
  <2>1. run'.phase \notin {"report", "write"}
    BY <1>4
  <2> QED BY <2>1, <1>3, <1>4, UntriedOK
<1>8. DataOK'
  <2>1. run'.phase \notin {"simulate", "report", "write"}
    BY <1>4
  <2> QED BY <2>1 DEF IInv, DataOK
<1>9. RunnerOK'
  BY <1>4 DEF IInv, RunnerOK
<1>10. FilesOK' /\ VerdictSound'
  BY DEF IInv, FilesOK, VerdictSound
<1> QED BY <1>5, <1>6, <1>7, <1>8, <1>9, <1>10 DEF IInv

LEMMA CommandOK ==
  ASSUME IInv, Command
  PROVE  IInv'
<1> DEFINE c == Head(run.prog)
           R == ToSet(run.prog)
<1>1. /\ run.phase \in {"up", "down"} /\ (Checked(c) => Can(c)) /\ lab' = After(c)
      /\ Advance({})
      /\ UNCHANGED <<att, procs, files, data, runner, seen, runs, faults>>
  BY DEF Command
<1>2. /\ LabShape(lab) /\ faults' = faults /\ faults \in Nat /\ run.prog # <<>> /\ run.env \in Envs
      /\ run.ignored \cup {} = run.ignored /\ (run.ignored # {} => faults > 0)
  BY <1>1 DEF IInv, LabOK, RunOK, Envs
<1> HIDE DEF c
<1>3. ASSUME run.phase = "up"
      PROVE  LabShape(lab') /\ UpSoFar(lab', R \ {c}, run.env, faults', run.ignored \cup {})
  <2>1. ProgUp(run.prog, run.env) /\ UpSoFar(lab, R, run.env, faults, run.ignored)
    BY <1>3 DEF IInv, LabOK
  <2>2. NextOf(c, R, run.env)
    BY <2>1, <1>2, HeadIsNext DEF c
  <2> HIDE DEF R
  <2>3. LabShape(After(c)) /\ UpSoFar(After(c), R \ {c}, run.env, faults, run.ignored)
    BY <2>1, <2>2, <1>1, <1>2, UpStepOK
  <2> QED BY <2>3, <1>1, <1>2
<1>4. ASSUME run.phase = "down"
      PROVE  LabShape(lab') /\ DownSoFar(lab', R \ {c}, run.ignored \cup {})
  <2>1. run.prog \in Seq(DownSteps) /\ DownSoFar(lab, R, run.ignored)
    BY <1>4 DEF IInv, LabOK
  <2>2. c \in DownSteps
    BY <2>1, <1>2 DEF c
  <2> HIDE DEF R
  <2>3. LabShape(After(c)) /\ DownSoFar(After(c), R \ {c}, run.ignored)
    BY <2>1, <2>2, <1>2, DownStepOK
  <2> QED BY <2>3, <1>1, <1>2
<1> QED BY <1>1, <1>2, <1>3, <1>4, AdvanceOK DEF c

LEMMA IgnoredFailsOK ==
  ASSUME IInv, IgnoredFails
  PROVE  IInv'
<1> DEFINE c == Head(run.prog)
           R == ToSet(run.prog)
<1>1. /\ run.phase \in {"up", "down"} /\ ~Checked(c) /\ Finds(c) /\ Advance({c})
      /\ lab' = lab /\ faults' = faults + 1
      /\ UNCHANGED <<att, procs, files, data, runner, seen, runs>>
  BY DEF IgnoredFails
<1>2. LabShape(lab) /\ faults \in Nat /\ run.prog # <<>>
  BY <1>1 DEF IInv, LabOK
<1>3. LabShape(lab') /\ faults' \in Nat /\ faults' > 0
  BY <1>1, <1>2
<1> HIDE DEF c
<1>4. ASSUME run.phase = "up"
      PROVE  UpSoFar(lab', R \ {c}, run.env, faults', run.ignored \cup {c})
  <2>1. ProgUp(run.prog, run.env) /\ UpSoFar(lab, R, run.env, faults, run.ignored)
    BY <1>4 DEF IInv, LabOK
  <2>2. NextOf(c, R, run.env)
    BY <2>1, <1>2, HeadIsNext DEF c
  <2> HIDE DEF R
  <2>3. UpSoFar(lab, R \ {c}, run.env, faults + 1, run.ignored \cup {c})
    BY <2>1, <2>2, <1>1, <1>2, UpFails
  <2> QED BY <2>3, <1>1
<1>5. ASSUME run.phase = "down"
      PROVE  DownSoFar(lab', R \ {c}, run.ignored \cup {c})
  <2>1. DownSoFar(lab, R, run.ignored)
    BY <1>5 DEF IInv, LabOK
  <2> HIDE DEF R
  <2>2. DownSoFar(lab, R \ {c}, run.ignored \cup {c})
    BY <2>1, DownFails
  <2> QED BY <2>2, <1>1
<1> QED BY <1>1, <1>3, <1>4, <1>5, AdvanceOK DEF c

\* An executor that ends where it stands, its attempts dropped.
LEMMA EndsOK ==
  ASSUME IInv, run.phase # "idle", run' = NoRun, lab' = lab, att' = Untried, procs' = {},
         faults' \in Nat, (lab.root # {} => faults' > 0),
         UNCHANGED <<files, data, runner, seen>>
  PROVE  IInv'
<1>1. RunOK' /\ LabOK'
  BY RunEnds DEF IInv, LabOK
<1>2. run'.phase = "idle" /\ run'.tests \subseteq Tests
  BY DEF NoRun
<1>3. AttOK'
  BY <1>2, UntriedOK
<1>4. DataOK' /\ RunnerOK' /\ FilesOK' /\ VerdictSound'
  BY <1>2 DEF IInv, DataOK, RunnerOK, FilesOK, VerdictSound
<1> QED BY <1>1, <1>3, <1>4 DEF IInv

LEMMA CommandFailsOK ==
  ASSUME IInv, CommandFails
  PROVE  IInv'
<1>1. /\ run.phase = "up" /\ Checked(Head(run.prog)) /\ run' = NoRun
      /\ UNCHANGED <<lab, att, procs, files, data, runner, seen, runs>>
      /\ \/ ~Can(Head(run.prog)) /\ faults' = faults
         \/ faults' = faults + 1
  BY DEF CommandFails
<1>2. att' = Untried /\ procs' = {}
  BY <1>1, NoneInFlight DEF IInv, AttOK, Phases
<1>3. /\ run.prog # <<>> /\ ProgUp(run.prog, run.env) /\ LabShape(lab) /\ faults \in Nat
      /\ UpSoFar(lab, ToSet(run.prog), run.env, faults, run.ignored)
  BY <1>1 DEF IInv, LabOK
<1>4. NextOf(Head(run.prog), ToSet(run.prog), run.env)
  BY <1>3, HeadIsNext
<1>5. ~Can(Head(run.prog)) => faults > 0
  <2> SUFFICES ASSUME ~Can(Head(run.prog)) PROVE faults > 0
    OBVIOUS
  <2>1. \/ faults > 0
        \/ \E n \in Namespaces : <<"del", n>> \in run.ignored
    BY <1>1, <1>3, <1>4, OnlyPairRefused
  <2> QED BY <2>1 DEF IInv, LabOK
<1>6. faults' \in Nat /\ faults' > 0
  BY <1>1, <1>3, <1>5
<1> QED BY <1>1, <1>2, <1>6, EndsOK

LEMMA KillOK ==
  ASSUME IInv, Kill
  PROVE  IInv'
<1>1. /\ run.phase # "idle" /\ faults' = faults + 1 /\ faults \in Nat
      /\ run' = NoRun /\ att' = Untried /\ procs' = {}
      /\ UNCHANGED <<lab, files, data, runner, seen, runs>>
  BY DEF Kill, IInv, LabOK
<1>2. faults' \in Nat /\ faults' > 0
  BY <1>1
<1> QED BY <1>1, <1>2, EndsOK

\* The executor goes from phase to phase with the lab as it is.
LEMMA PhaseMoves ==
  ASSUME RunOK, LabOK, NEW ph \in {"simulate", "corpus", "report", "write"},
         run' = [run EXCEPT !.phase = ph], lab' = lab, faults' = faults,
         run.phase \notin {"idle", "up", "down"},
         run.kind = "netns" => run.phase \in {"corpus", "report", "write"},
         ph = "simulate" => run.kind = "shadow", ph = "corpus" => run.kind # "shadow"
  PROVE  /\ RunOK' /\ LabOK'
         /\ run'.phase = ph /\ run'.kind = run.kind /\ run'.env = run.env
         /\ run'.tests = run.tests
<1>1. /\ run'.phase = ph /\ run'.kind = run.kind /\ run'.env = run.env
      /\ run'.tests = run.tests /\ run'.prog = run.prog /\ run'.ignored = run.ignored
      /\ run' = [phase |-> run'.phase, kind |-> run'.kind, env |-> run'.env,
                 tests |-> run'.tests, prog |-> run'.prog, ignored |-> run'.ignored]
  BY DEF RunOK
<1>2. RunOK'
  BY <1>1 DEF RunOK, Phases
<1>3. LabOf(run.env)' <=> LabOf(run.env)
  BY <1>1 DEF LabOf
<1>4. LabOK'
  BY <1>1, <1>3 DEF LabOK
<1> QED BY <1>1, <1>2, <1>4

LEMMA CorpusEndsOK ==
  ASSUME IInv, CorpusEnds
  PROVE  IInv'
<1>1. /\ run.phase = "corpus" /\ Taken = run.tests
      /\ run' = [run EXCEPT !.phase = "report"]
      /\ UNCHANGED <<lab, att, procs, files, data, runner, seen, runs, faults>>
  BY DEF CorpusEnds
<1>2. /\ RunOK' /\ LabOK' /\ run'.phase = "report" /\ run'.kind = run.kind
      /\ run'.env = run.env /\ run'.tests = run.tests /\ run.kind # "shadow"
  <2>1. RunOK /\ LabOK /\ run.kind # "shadow"
    BY <1>1 DEF IInv, RunOK
  <2> QED BY <1>1, <2>1, PhaseMoves
<1>3. \A t \in run.tests : att[t].phase = "done"
  BY <1>1 DEF Taken
<1>4. AttOK'
  <2>1. \A t \in Tests : InFlight(t)' <=> InFlight(t)
    BY <1>1 DEF InFlight
  <2>2. \A p \in procs : p[1] \in Tests
    BY DEF IInv, AttOK
  <2> QED BY <1>1, <1>2, <1>3, <2>1, <2>2 DEF IInv, AttOK
<1>5. DataOK' /\ RunnerOK' /\ FilesOK' /\ VerdictSound'
  BY <1>1, <1>2 DEF IInv, DataOK, RunnerOK, FilesOK, VerdictSound
<1> QED BY <1>2, <1>4, <1>5 DEF IInv

LEMMA ClearDataOK ==
  ASSUME IInv, ClearData
  PROVE  IInv'
<1>1. run.phase = "clear" /\ UNCHANGED <<lab, att, procs, files, runner, seen, runs>>
  BY DEF ClearData
<1>2. /\ att = Untried /\ procs = {} /\ run.kind = "shadow" /\ run.tests \subseteq Tests
      /\ RunOK /\ LabOK
  BY <1>1, NoneInFlight DEF IInv, AttOK, Phases, RunOK
<1>3. CASE data' = NoData /\ run' = [run EXCEPT !.phase = "simulate"] /\ faults' = faults
  <2>1. /\ RunOK' /\ LabOK' /\ run'.phase = "simulate" /\ run'.kind = run.kind
        /\ run'.tests = run.tests
    BY <1>1, <1>2, <1>3, PhaseMoves
  <2>2. AttOK'
    BY <1>1, <1>2, <2>1, UntriedOK
  <2>3. DataOK'
    <3>1. data'.there = FALSE
      BY <1>3 DEF NoData
    <3>2. data' \in [there : BOOLEAN, fresh : BOOLEAN,
                     out : [Tests -> [AllRoles -> Says \cup {"none"}]]]
      BY <1>3 DEF NoData
    <3> QED BY <3>1, <3>2 DEF DataOK
  <2>4. RunnerOK' /\ FilesOK' /\ VerdictSound'
    BY <1>1, <2>1 DEF IInv, RunnerOK, FilesOK, VerdictSound
  <2> QED BY <2>1, <2>2, <2>3, <2>4 DEF IInv
<1>4. CASE faults' = faults + 1 /\ run' = NoRun /\ data' = data
  <2>1. faults' \in Nat /\ faults' > 0
    BY <1>2, <1>4 DEF LabOK
  <2> QED BY <1>1, <1>2, <1>4, <2>1, EndsOK
<1> QED BY <1>3, <1>4 DEF ClearData

LEMMA SimulateOK ==
  ASSUME IInv, Simulate
  PROVE  IInv'
<1>1. /\ run.phase = "simulate" /\ run' = [run EXCEPT !.phase = "report"]
      /\ UNCHANGED <<lab, att, procs, files, runner, seen, runs, faults>>
  BY DEF Simulate
<1>2. /\ att = Untried /\ procs = {} /\ run.kind = "shadow" /\ run.tests \subseteq Tests
      /\ RunOK /\ LabOK
  BY <1>1, NoneInFlight DEF IInv, AttOK, Phases, RunOK
<1>3. /\ RunOK' /\ LabOK' /\ run'.phase = "report" /\ run'.kind = run.kind
      /\ run'.tests = run.tests
  BY <1>1, <1>2, PhaseMoves
<1>4. AttOK'
  BY <1>1, <1>2, <1>3, UntriedOK
<1>5. DataOK'
  <2>1. CASE data' = data
    BY <1>1, <1>2, <2>1 DEF IInv, DataOK
  <2>2. CASE data' # data
    <3>1. PICK out \in [run.tests -> [AllRoles -> UNION {Outcomes[t] : t \in Tests}]] :
            data' = [there |-> TRUE, fresh |-> TRUE,
                     out |-> [t \in Tests |-> IF t \in run.tests THEN out[t]
                                              ELSE NoData.out[t]]]
      BY <2>2 DEF Simulate
    <3>2. UNION {Outcomes[t] : t \in Tests} \subseteq Says
      BY RunAssumption DEF Says
    <3>3. \A t \in run.tests : out[t] \in [AllRoles -> Says \cup {"none"}]
      BY <3>2
    <3>4. \A t \in Tests : NoData.out[t] \in [AllRoles -> Says \cup {"none"}]
      BY DEF NoData
    <3> HIDE DEF NoData
    <3>5. [t \in Tests |-> IF t \in run.tests THEN out[t] ELSE NoData.out[t]]
            \in [Tests -> [AllRoles -> Says \cup {"none"}]]
      BY <3>3, <3>4
    <3>6. /\ data'.fresh = TRUE
          /\ data' \in [there : BOOLEAN, fresh : BOOLEAN,
                        out : [Tests -> [AllRoles -> Says \cup {"none"}]]]
      BY <3>1, <3>5
    <3> QED BY <3>6 DEF DataOK
  <2> QED BY <2>1, <2>2
<1>6. RunnerOK' /\ FilesOK' /\ VerdictSound'
  BY <1>1, <1>3 DEF IInv, RunnerOK, FilesOK, VerdictSound
<1> QED BY <1>3, <1>4, <1>5, <1>6 DEF IInv

\* The executor returns from its corpus: a lab is torn down, whatever is reported.
LEMMA ReturnOK ==
  ASSUME IInv, run.phase \in {"report", "write"}, Return, lab' = lab, procs' = procs,
         faults' \in {faults, faults + 1}
  PROVE  /\ RunOK' /\ LabOK' /\ AttOK' /\ run'.phase \in {"down", "idle"}
<1>1. /\ procs = {} /\ att' = Untried /\ RunOK /\ LabOK
      /\ LabShape(lab) /\ faults \in Nat
  BY NoneInFlight DEF IInv, Return, Phases, LabOK
<1>2. CASE run.kind = "netns"
  <2>1. run' = [run EXCEPT !.phase = "down", !.prog = ScenarioDown, !.ignored = {}]
    BY <1>2 DEF Return
  <2>2. /\ run'.phase = "down" /\ run'.kind = run.kind /\ run'.env = run.env
        /\ run'.tests = run.tests /\ run'.prog = ScenarioDown /\ run'.ignored = {}
        /\ run' = [phase |-> run'.phase, kind |-> run'.kind, env |-> run'.env,
                   tests |-> run'.tests, prog |-> run'.prog, ignored |-> run'.ignored]
    BY <2>1, <1>1 DEF RunOK
  <2>3. RunOK'
    BY <2>2, <1>1, <1>2 DEF RunOK, Phases
  <2>4. lab.root = {}
    BY <1>1, <1>2 DEF LabOK, LabOf
  <2>5. DownSoFar(lab', ToSet(ScenarioDown), {})
    <3>1. /\ ToSet(ScenarioDown) = DownSteps
          /\ \A n \in Namespaces : <<"del", n>> \in DownSteps
          /\ <<"turnstop">> \in DownSteps /\ <<"nftclear">> \in DownSteps
      BY ScenarioDownSteps DEF DownSteps
    <3> QED BY <3>1, <2>4 DEF DownSoFar
  <2>6. LabOK'
    <3>1. ScenarioDown # <<>> /\ ScenarioDown \in Seq(DownSteps)
      BY ScenarioDownSteps
    <3>2. LabShape(lab') /\ faults' \in Nat /\ lab'.root = {}
      BY <1>1, <2>4
    <3> QED BY <3>1, <3>2, <2>2, <2>5 DEF LabOK
  <2>7. AttOK'
    BY <1>1, <2>2, UntriedOK DEF RunOK
  <2> QED BY <2>2, <2>3, <2>6, <2>7
<1>3. CASE run.kind # "netns"
  <2>1. run' = NoRun
    BY <1>3 DEF Return
  <2>2. faults' \in Nat /\ (lab'.root # {} => faults' > 0)
    BY <1>1 DEF LabOK
  <2>3. RunOK' /\ LabOK'
    BY <2>1, <2>2, <1>1, RunEnds
  <2>4. run'.phase = "idle" /\ run'.tests \subseteq Tests
    BY <2>1 DEF NoRun
  <2>5. AttOK'
    BY <1>1, <2>4, UntriedOK
  <2> QED BY <2>3, <2>4, <2>5
<1> QED BY <1>2, <1>3

LEMMA OpenReportOK ==
  ASSUME IInv, OpenReport
  PROVE  IInv'
<1>1. /\ run.phase = "report" /\ UNCHANGED <<lab, procs, data, runner, seen, runs>>
  BY DEF OpenReport
<1>2. PICK x \in Executors : run.kind = x.kind /\ run.env = x.env
  BY <1>1 DEF IInv, RunOK
<1>3. Stem(run) = Stem(x) /\ Stem(x) \in Stems
  BY <1>2 DEF Stem, Stems
<1>4. CASE /\ files' = [files EXCEPT ![Stem(run)] = [NoReport EXCEPT !.there = TRUE, !.torn = TRUE]]
           /\ run' = [run EXCEPT !.phase = "write"] /\ UNCHANGED <<att, faults>>
  <2>1. /\ RunOK' /\ LabOK' /\ run'.phase = "write" /\ run'.kind = run.kind
        /\ run'.env = run.env /\ run'.tests = run.tests
    BY <1>1, <1>4, PhaseMoves DEF IInv
  <2>2. AttOK'
    <3>1. \A t \in Tests : InFlight(t)' <=> InFlight(t)
      BY <1>4 DEF InFlight
    <3>2. \A p \in procs : p[1] \in Tests
      BY DEF IInv, AttOK
    <3> QED BY <1>1, <1>4, <2>1, <3>1, <3>2 DEF IInv, AttOK
  <2>3. DataOK' /\ RunnerOK' /\ VerdictSound'
    BY <1>1, <2>1 DEF IInv, DataOK, RunnerOK, VerdictSound
  <2>4. FilesOK'
    <3>1. /\ DOMAIN files' = Stems
          /\ \A s \in Stems : IF s = Stem(x) THEN files'[s].there = TRUE /\ files'[s].torn = TRUE
                              ELSE files'[s] = files[s]
      BY <1>3, <1>4 DEF IInv, FilesOK, NoReport
    <3>2. ASSUME NEW y \in Executors
          PROVE  LET f == files'[Stem(y)]
                 IN /\ f.torn \in BOOLEAN /\ f.there \in BOOLEAN /\ (f.torn => f.there)
                    /\ f.there /\ ~f.torn => f.env = y.env /\ f.res = seen[y.env]
                    /\ ~f.there => seen[y.env] = [t \in Tests |-> "none"]
      <4>1. Stem(y) \in Stems
        BY DEF Stems
      <4> QED BY <4>1, <3>1 DEF IInv, FilesOK
    <3> QED BY <1>1, <3>1, <3>2 DEF IInv, FilesOK
  <2> QED BY <2>1, <2>2, <2>3, <2>4 DEF IInv
<1>5. CASE faults' = faults + 1 /\ Return /\ files' = files
  <2>1. RunOK' /\ LabOK' /\ AttOK' /\ run'.phase \in {"down", "idle"}
    BY <1>1, <1>5, ReturnOK
  <2>2. DataOK' /\ RunnerOK' /\ FilesOK' /\ VerdictSound'
    BY <1>1, <1>5, <2>1 DEF IInv, DataOK, RunnerOK, FilesOK, VerdictSound
  <2> QED BY <2>1, <2>2 DEF IInv
<1> QED BY <1>4, <1>5 DEF OpenReport

\* Every result that is written is a status.
LEMMA ResultTyped ==
  ASSUME IInv, NEW t \in Tests
  PROVE  Result(t) \in Statuses
<1>1. CASE t \notin run.tests
  BY <1>1 DEF Result, Statuses
<1>2. CASE t \in run.tests /\ run.kind = "shadow"
  <2>1. Result(t) = Collected(t)
    BY <1>2 DEF Result
  <2> QED BY <2>1 DEF Collected, Folded, Statuses
<1>3. CASE t \in run.tests /\ run.kind # "shadow"
  <2>1. Result(t) = att[t].status
    BY <1>3 DEF Result
  <2> QED BY <2>1 DEF IInv, AttOK, Attempts
<1> QED BY <1>1, <1>2, <1>3

LEMMA WriteReportOK ==
  ASSUME IInv, WriteReport
  PROVE  IInv'
<1>1. /\ run.phase = "write" /\ Return /\ UNCHANGED <<lab, procs, data, runner, runs>>
  BY DEF WriteReport
<1>2. faults' \in {faults, faults + 1}
  BY DEF WriteReport
<1>3. RunOK' /\ LabOK' /\ AttOK' /\ run'.phase \in {"down", "idle"}
  BY <1>1, <1>2, ReturnOK
<1>4. DataOK' /\ RunnerOK'
  BY <1>1, <1>3 DEF IInv, DataOK, RunnerOK
<1>5. VerdictSound'
  BY <1>1 DEF IInv, VerdictSound, RunnerOK
<1>6. CASE files' = files /\ seen' = seen
  BY <1>3, <1>4, <1>5, <1>6 DEF IInv, FilesOK
<1>7. CASE /\ files' = [files EXCEPT ![Stem(run)] =
                 [there |-> TRUE, torn |-> FALSE, env |-> run.env,
                  res |-> [t \in Tests |-> Result(t)]]]
           /\ seen' = [seen EXCEPT ![run.env] = [t \in Tests |-> Result(t)]]
  <2> DEFINE res == [t \in Tests |-> Result(t)]
  <2>1. res \in [Tests -> Statuses]
    BY ResultTyped
  <2> HIDE DEF res
  <2>2. PICK x \in Executors : run.kind = x.kind /\ run.env = x.env
    BY <1>1 DEF IInv, RunOK
  <2>3. Stem(run) = Stem(x) /\ Stem(x) \in Stems /\ run.env \in Envs
    BY <2>2 DEF Stem, Stems, Envs
  <2>4. /\ seen' \in [Envs -> [Tests -> Statuses]]
        /\ \A e \in Envs : seen'[e] = IF e = run.env THEN res ELSE seen[e]
    BY <1>7, <2>1, <2>3 DEF IInv, FilesOK, res
  <2>5. /\ DOMAIN files' = Stems
        /\ \A s \in Stems : files'[s] = IF s = Stem(x)
                                        THEN [there |-> TRUE, torn |-> FALSE, env |-> run.env,
                                              res |-> res]
                                        ELSE files[s]
    BY <1>7, <2>3 DEF IInv, FilesOK, res
  <2>6. ASSUME NEW y \in Executors
        PROVE  LET f == files'[Stem(y)]
               IN /\ f.torn \in BOOLEAN /\ f.there \in BOOLEAN /\ (f.torn => f.there)
                  /\ f.there /\ ~f.torn => f.env = y.env /\ f.res = seen'[y.env]
                  /\ ~f.there => seen'[y.env] = [t \in Tests |-> "none"]
    <3>1. Stem(y) \in Stems /\ y.env \in Envs
      BY DEF Stems, Envs
    <3>2. Stem(y) = Stem(x) <=> y.env = run.env
      BY <2>2, StemIsEnv
    <3>3. CASE Stem(y) = Stem(x)
      <4>1. files'[Stem(y)] = [there |-> TRUE, torn |-> FALSE, env |-> run.env, res |-> res]
        BY <3>1, <3>3, <2>5
      <4>2. seen'[y.env] = res /\ y.env = run.env
        BY <3>1, <3>2, <3>3, <2>4
      <4>3. /\ files'[Stem(y)].there = TRUE /\ files'[Stem(y)].torn = FALSE
            /\ files'[Stem(y)].env = run.env /\ files'[Stem(y)].res = res
        BY <4>1
      <4> QED BY <4>2, <4>3
    <3>4. CASE Stem(y) # Stem(x)
      <4>1. files'[Stem(y)] = files[Stem(y)] /\ seen'[y.env] = seen[y.env]
        BY <3>1, <3>2, <3>4, <2>4, <2>5
      <4> QED BY <4>1 DEF IInv, FilesOK
    <3> QED BY <3>3, <3>4
  <2>7. FilesOK'
    BY <2>4, <2>5, <2>6 DEF FilesOK
  <2> QED BY <1>3, <1>4, <1>5, <2>7 DEF IInv
<1> QED BY <1>6, <1>7 DEF WriteReport

-----------------------------------------------------------------------------
(* The runner *)

\* Whoever changes nothing but the runner.
LEMMA RunnerStep ==
  ASSUME IInv, UNCHANGED <<lab, run, att, procs, files, data, seen, runs, faults>>,
         RunnerOK', VerdictSound'
  PROVE  IInv'
<1>1. RunOK' /\ LabOK'
  BY LabUnchanged
<1>2. AttOK'
  <2>1. \A t \in Tests : InFlight(t)' <=> InFlight(t)
    BY DEF InFlight
  <2>2. \A p \in procs : p[1] \in Tests
    BY DEF IInv, AttOK
  <2>3. Started' = Started /\ Taken' = Taken
    BY DEF Started, Taken, Earlier
  <2> QED BY <2>1, <2>2, <2>3 DEF IInv, AttOK
<1>3. DataOK' /\ FilesOK'
  BY DEF IInv, DataOK, FilesOK
<1> QED BY <1>1, <1>2, <1>3 DEF IInv

\* The classification is the manifest's expectation.
LEMMA ClassifiedRight ==
  ASSUME NEW env, NEW t, NEW s \in Statuses
  PROVE  IsFailure(ClassifyOne(env, t, s)) <=> Surprising(env, t, s)
<1> DEFINE un == Applies(Unsupported, t, env)
           ex == Applies(ExpectedFail, t, env)
<1>1. un <=> ~(\A x \in Unsupported : x.test = t => x.envs # {} /\ env \notin x.envs)
  BY DEF Applies, ScopeApplies
<1>2. ex <=> \E x \in ExpectedFail : x.test = t /\ (x.envs = {} \/ env \in x.envs)
  BY DEF Applies, ScopeApplies
<1>3. Surprising(env, t, s) <=> ~un /\ ((s = "fail" /\ ~ex) \/ (s = "pass" /\ ex))
  BY <1>1, <1>2 DEF Surprising
<1>4. ClassifyOne(env, t, s) =
        IF un THEN "skip-unsupported"
        ELSE CASE s = "none" -> "missing"
               [] s = "skip" -> "skip-unsupported"
               [] s = "pass" -> IF ex THEN "unexpected-pass" ELSE "pass"
               [] s = "fail" -> IF ex THEN "expected-fail" ELSE "fail"
  BY DEF ClassifyOne
<1> HIDE DEF un, ex
<1>5. CASE s = "none"
  BY <1>3, <1>4, <1>5 DEF IsFailure
<1>6. CASE s = "skip"
  BY <1>3, <1>4, <1>6 DEF IsFailure
<1>7. CASE s = "pass"
  BY <1>3, <1>4, <1>7 DEF IsFailure
<1>8. CASE s = "fail"
  BY <1>3, <1>4, <1>8 DEF IsFailure
<1> QED BY <1>5, <1>6, <1>7, <1>8 DEF Statuses

LEMMA JudgeOK ==
  ASSUME IInv, Judge
  PROVE  IInv'
<1>1. /\ runner.phase = "load"
      /\ UNCHANGED <<lab, run, att, procs, files, data, seen, runs, faults>>
  BY DEF Judge
<1>0. PICK v \in {"error", IF \E s \in Reports : files[s].torn THEN "error"
                          ELSE IF HasFailures THEN "failing" ELSE "ok"} :
        runner' = [phase |-> "off", verdict |-> v,
                   child |-> IF runner.child = "alive" THEN "none" ELSE runner.child]
  BY DEF Judge
<1>2. RunnerOK'
  <2>1. run.phase = "idle" /\ runner.child \in {"none", "alive", "leaked"}
    BY <1>1 DEF IInv, RunnerOK
  <2> QED BY <1>0, <1>1, <2>1 DEF RunnerOK
<1>3. VerdictSound'
  <2> DEFINE bad == \E env \in Envs, t \in Tests : Surprising(env, t, seen[env][t])
             torn == \E s \in Reports : files[s].torn
  <2>1. ASSUME ~torn, NEW x \in Executors
        PROVE  IF files[Stem(x)].there
               THEN files[Stem(x)].env = x.env /\ files[Stem(x)].res = seen[x.env]
               ELSE \A t \in Tests : seen[x.env][t] = "none"
    <3>1. Stem(x) \in Stems
      BY DEF Stems
    <3>2. files[Stem(x)].there => files[Stem(x)].torn = FALSE
      BY <2>1, <3>1 DEF Reports, IInv, FilesOK
    <3> QED BY <3>2 DEF IInv, FilesOK
  <2>2. ASSUME NEW env \in Envs, NEW t \in Tests
        PROVE  seen[env][t] \in Statuses
    BY DEF IInv, FilesOK
  <2>3. ~torn => (HasFailures <=> bad)
    <3> SUFFICES ASSUME ~torn PROVE HasFailures <=> bad
      OBVIOUS
    <3>1. ASSUME HasFailures PROVE bad
      <4>1. PICK s \in Reports, t \in Tests :
              IsFailure(ClassifyOne(files[s].env, t, files[s].res[t]))
        BY <3>1 DEF HasFailures
      <4>2. PICK x \in Executors : s = Stem(x) /\ files[Stem(x)].there
        BY DEF Reports, Stems
      <4>3. files[s].env = x.env /\ files[s].res = seen[x.env]
        BY <4>2, <2>1
      <4>4. x.env \in Envs
        BY DEF Envs
      <4>5. seen[x.env][t] \in Statuses
        BY <4>4, <2>2
      <4>6. IsFailure(ClassifyOne(x.env, t, seen[x.env][t]))
        BY <4>1, <4>3
      <4>7. Surprising(x.env, t, seen[x.env][t])
        BY <4>5, <4>6, ClassifiedRight
      <4> QED BY <4>4, <4>7
    <3>2. ASSUME bad PROVE HasFailures
      <4>1. PICK env \in Envs, t \in Tests : Surprising(env, t, seen[env][t])
        BY <3>2
      <4>2. PICK x \in Executors : env = x.env
        BY DEF Envs
      <4>3. seen[env][t] # "none"
        BY <4>1 DEF Surprising
      <4>4. files[Stem(x)].there /\ files[Stem(x)].env = env /\ files[Stem(x)].res = seen[env]
        BY <4>2, <4>3, <2>1
      <4>5. Stem(x) \in Reports
        BY <4>4 DEF Reports, Stems
      <4>6. IsFailure(ClassifyOne(env, t, seen[env][t]))
        BY <4>1, <2>2, ClassifiedRight
      <4> QED BY <4>4, <4>5, <4>6 DEF HasFailures
    <3> QED BY <3>1, <3>2
  <2>4. bad' <=> bad
    BY <1>1 DEF Surprising
  <2>5. /\ runner'.verdict = "ok" => ~torn /\ ~HasFailures
        /\ runner'.verdict = "failing" => ~torn /\ HasFailures
    BY <1>0
  <2>6. /\ runner'.verdict = "ok" => ~bad'
        /\ runner'.verdict = "failing" => bad'
    BY <2>3, <2>4, <2>5
  <2> QED BY <2>6 DEF VerdictSound
<1> QED BY <1>1, <1>2, <1>3, RunnerStep

LEMMA RunnerOtherOK ==
  ASSUME IInv, RunnerStarts \/ ReadBaseUrl \/ AwaitHealthy
  PROVE  IInv'
<1>1. UNCHANGED <<lab, run, att, procs, files, data, seen, runs, faults>>
  BY DEF RunnerStarts, ReadBaseUrl, AwaitHealthy
<1>2. RunnerOK' /\ runner'.verdict \in {runner.verdict, "error"}
  <2>1. /\ runner \in [phase : {"off", "url", "health", "load"},
                       child : {"none", "alive", "leaked"},
                       verdict : {"none", "ok", "failing", "error"}]
        /\ runner.phase = "off" => runner.child # "alive"
        /\ run.phase # "idle" => runner.phase = "off" /\ runner.verdict = "none"
    BY DEF IInv, RunnerOK
  <2>2. CASE RunnerStarts
    <3>1. /\ run.phase = "idle"
          /\ runner' \in {[runner EXCEPT !.phase = "load"],
                          [runner EXCEPT !.phase = "url", !.child = "alive"]}
      BY <2>2 DEF RunnerStarts
    <3> QED BY <3>1, <2>1, <1>1 DEF RunnerOK
  <2>3. CASE ReadBaseUrl
    <3>1. /\ runner.phase = "url"
          /\ runner' \in {[runner EXCEPT !.phase = "health"],
                          [phase |-> "off", child |-> "leaked", verdict |-> "error"]}
      BY <2>3 DEF ReadBaseUrl
    <3> QED BY <3>1, <2>1, <1>1 DEF RunnerOK
  <2>4. CASE AwaitHealthy
    <3>1. /\ runner.phase = "health"
          /\ runner' \in {[runner EXCEPT !.phase = "load"],
                          [phase |-> "off", child |-> "none", verdict |-> "error"]}
      BY <2>4 DEF AwaitHealthy
    <3> QED BY <3>1, <2>1, <1>1 DEF RunnerOK
  <2> QED BY <2>2, <2>3, <2>4
<1>3. VerdictSound'
  BY <1>1, <1>2 DEF IInv, VerdictSound, Surprising
<1> QED BY <1>1, <1>2, <1>3, RunnerStep

-----------------------------------------------------------------------------
(* The invariant holds *)

LEMMA InitOK == Init => IInv
<1> SUFFICES ASSUME Init PROVE IInv
  OBVIOUS
<1>1. /\ lab = NoLab /\ run = NoRun /\ att = Untried /\ procs = {}
      /\ files = [s \in Stems |-> NoReport] /\ data = NoData
      /\ runner = [phase |-> "off", child |-> "none", verdict |-> "none"]
      /\ seen = [e \in Envs |-> [t \in Tests |-> "none"]]
      /\ faults = 0
  BY DEF Init
<1>2. /\ run.phase = "idle" /\ run.kind = "none" /\ run.tests = {} /\ run.prog = <<>>
      /\ run.ignored = {}
      /\ run = [phase |-> run.phase, kind |-> run.kind, env |-> run.env,
                tests |-> run.tests, prog |-> run.prog, ignored |-> run.ignored]
  BY <1>1 DEF NoRun
<1>3. RunOK
  BY <1>2 DEF RunOK, Phases
<1>4. LabOK
  <2>1. LabShape(lab) /\ lab.root = {}
    BY <1>1 DEF LabShape, NoLab
  <2> QED BY <1>1, <1>2, <2>1 DEF LabOK
<1>5. AttOK
  <2>1. \A t \in Tests : att[t] = NotTried
    BY <1>1 DEF Untried
  <2>2. NotTried \in Attempts
    BY DEF NotTried, Attempts, Statuses
  <2>3. att \in [Tests -> Attempts]
    BY <1>1, <2>2 DEF Untried
  <2>4. \A t \in Tests : AttemptOK(att[t], t, run.kind)
    BY <2>1 DEF AttemptOK, NotTried
  <2>5. \A t \in Tests : att[t].phase = "idle"
    BY <2>1 DEF NotTried
  <2> QED BY <1>1, <1>2, <2>3, <2>4, <2>5 DEF AttOK
<1>6. DataOK
  BY <1>1, <1>2 DEF DataOK, NoData
<1>7. RunnerOK
  BY <1>1, <1>2 DEF RunnerOK
<1>8. FilesOK
  <2>1. seen \in [Envs -> [Tests -> Statuses]] /\ DOMAIN files = Stems
    BY <1>1 DEF Statuses
  <2>2. ASSUME NEW x \in Executors
        PROVE  LET f == files[Stem(x)]
               IN /\ f.torn \in BOOLEAN /\ f.there \in BOOLEAN /\ (f.torn => f.there)
                  /\ f.there /\ ~f.torn => f.env = x.env /\ f.res = seen[x.env]
                  /\ ~f.there => seen[x.env] = [t \in Tests |-> "none"]
    <3>1. Stem(x) \in Stems /\ x.env \in Envs
      BY DEF Stems, Envs
    <3>2. files[Stem(x)] = NoReport /\ seen[x.env] = [t \in Tests |-> "none"]
      BY <1>1, <3>1
    <3>3. NoReport.there = FALSE /\ NoReport.torn = FALSE
      BY DEF NoReport
    <3> HIDE DEF NoReport
    <3> QED BY <3>2, <3>3
  <2> QED BY <2>1, <2>2 DEF FilesOK
<1>9. VerdictSound
  BY <1>1 DEF VerdictSound
<1> QED BY <1>3, <1>4, <1>5, <1>6, <1>7, <1>8, <1>9 DEF IInv

LEMMA StepOK == IInv /\ [Next]_vars => IInv'
<1> SUFFICES ASSUME IInv, [Next]_vars PROVE IInv'
  OBVIOUS
<1>1. ASSUME NEW x \in Executors, NEW only \in Only, StartRun(x, only) PROVE IInv'
  BY <1>1, StartRunOK
<1>2. CASE Command
  BY <1>2, CommandOK
<1>3. CASE CommandFails
  BY <1>3, CommandFailsOK
<1>17. CASE IgnoredFails
  BY <1>17, IgnoredFailsOK
<1>4. CASE CorpusEnds
  BY <1>4, CorpusEndsOK
<1>5. CASE ClearData
  BY <1>5, ClearDataOK
<1>6. CASE Simulate
  BY <1>6, SimulateOK
<1>7. ASSUME NEW t \in Tests, StartTest(t) PROVE IInv'
  BY <1>7, StartTestOK
<1>8. ASSUME NEW t \in Tests, SpawnPeers(t) PROVE IInv'
  BY <1>8, SpawnPeersOK
<1>9. ASSUME NEW t \in Tests, Timeout(t) PROVE IInv'
  BY <1>9, TimeoutOK
<1>10. ASSUME NEW t \in Tests, NEW r \in AllRoles, NEW o \in Outcomes[t], PeerEnds(t, r, o)
       PROVE  IInv'
  BY <1>10, PeerEndsOK
<1>11. CASE OpenReport
  BY <1>11, OpenReportOK
<1>12. CASE WriteReport
  BY <1>12, WriteReportOK
<1>13. CASE Kill
  BY <1>13, KillOK
<1>14. CASE RunnerStarts \/ ReadBaseUrl \/ AwaitHealthy
  BY <1>14, RunnerOtherOK
<1>15. CASE Judge
  BY <1>15, JudgeOK
<1>16. CASE UNCHANGED vars
  <2>1. /\ UNCHANGED <<lab, run, att, procs, files, data, seen, runs, faults>>
        /\ runner' = runner
    BY <1>16 DEF vars
  <2>2. RunnerOK' /\ VerdictSound'
    BY <2>1 DEF IInv, RunnerOK, VerdictSound
  <2> QED BY <2>1, <2>2, RunnerStep
<1> QED
  BY <1>1, <1>2, <1>3, <1>4, <1>5, <1>6, <1>7, <1>8, <1>9, <1>10, <1>11, <1>12, <1>13,
     <1>14, <1>15, <1>16, <1>17 DEF Next

LEMMA IInvHolds == Spec => []IInv
BY InitOK, StepOK, PTL DEF Spec

-----------------------------------------------------------------------------
(* The theorems *)

\* What every state looks like: a link's end is in one place, its home exists,
\* the executor has commands left exactly while it runs them, a test that is
\* done has a status.
THEOREM TypeCorrect == Spec => []TypeOK
<1>1. IInv => TypeOK
  <2> SUFFICES ASSUME IInv PROVE TypeOK
    OBVIOUS
  <2>1. /\ lab \in [ns : SUBSET Namespaces, root : SUBSET Ends, placed : SUBSET Ends,
                    turn : SUBSET {"lab", "orphan"}, policy : Envs \cup {"none"}]
        /\ lab.root \cap lab.placed = {}
        /\ \A end \in lab.placed : Home(end) \in lab.ns
    BY DEF IInv, LabOK, LabShape
  <2>2. run.phase \in Phases /\ (run.phase \in {"up", "down"} <=> run.prog # <<>>)
    BY DEF IInv, RunOK, LabOK
  <2>3. ASSUME NEW t \in Tests
        PROVE  /\ att[t].phase \in {"idle", "bind", "run", "done"}
               /\ att[t].phase = "done" <=> att[t].status \in {"pass", "fail", "skip"}
    <3>1. att[t] \in Attempts /\ AttemptOK(att[t], t, run.kind)
      BY DEF IInv, AttOK
    <3> QED BY <3>1 DEF Attempts, AttemptOK, Statuses
  <2>4. procs \subseteq Tests \X (AllRoles \cup {"server"})
    BY DEF IInv, AttOK
  <2>5. runner \in [phase : {"off", "url", "health", "load"},
                    child : {"none", "alive", "leaked"},
                    verdict : {"none", "ok", "failing", "error"}]
    BY DEF IInv, RunnerOK
  <2> QED BY <2>1, <2>2, <2>3, <2>4, <2>5 DEF TypeOK, Phases
<1> QED BY <1>1, IInvHolds, PTL

\* Attempts under way are started and their results not taken, so the window
\* bounds them.
LEMMA WindowBounds ==
  ASSUME IInv
  PROVE  Cardinality({t \in Tests : InFlight(t)}) <= Jobs
<1> DEFINE F == {t \in Tests : InFlight(t)}
           W == Started \ Taken
<1>1. CASE run.phase = "corpus"
  <2>1. IsFiniteSet(W)
    <3>1. W \subseteq Tests
      BY DEF Started, IInv, RunOK
    <3> QED BY <3>1, TestsFinite, FS_Subset
  <2>2. F \subseteq W
    <3>1. ASSUME NEW t \in F PROVE t \in W
      <4>1. t \in Tests /\ att[t].phase \in {"bind", "run"}
        BY DEF InFlight
      <4>2. t \in run.tests
        BY <4>1 DEF IInv, AttOK
      <4> QED BY <4>1, <4>2 DEF Started, Taken
    <3> QED BY <3>1
  <2>3. Cardinality(F) <= Cardinality(W) /\ Cardinality(F) \in Nat /\ Cardinality(W) \in Nat
    BY <2>1, <2>2, FS_Subset, FS_CardinalityType
  <2>4. Cardinality(W) <= Jobs
    BY <1>1 DEF IInv, AttOK
  <2> QED BY <2>3, <2>4, RunAssumption
<1>2. CASE run.phase # "corpus"
  <2>1. \A t \in Tests : ~InFlight(t)
    BY <1>2, NoneInFlight DEF IInv, RunOK
  <2>2. F = {}
    BY <2>1
  <2>3. Cardinality({}) = 0 /\ Jobs \in Nat
    BY FS_EmptySet, RunAssumption
  <2> QED BY <2>2, <2>3
<1> QED BY <1>1, <1>2

\* Every child process belongs to an attempt under way, at most Jobs are, and
\* the runner's server ends with it, for any corpus and any faults.
THEOREM NoProcessOutlivesHolds == Spec => []NoProcessOutlives
<1>1. IInv /\ TypeOK => NoProcessOutlives
  <2> SUFFICES ASSUME IInv, TypeOK PROVE NoProcessOutlives
    OBVIOUS
  <2>1. \A p \in procs : /\ InFlight(p[1])
                         /\ p[2] # "server" => att[p[1]].out[p[2]] = "running"
    BY DEF IInv, AttOK
  <2>2. run.phase = "idle" => procs = {}
    BY NoneInFlight DEF IInv, Phases
  <2>3. runner.phase = "off" => runner.child # "alive"
    BY DEF IInv, RunnerOK
  <2> QED BY <2>1, <2>2, <2>3, WindowBounds DEF NoProcessOutlives
<1> QED BY <1>1, IInvHolds, TypeCorrect, PTL

\* The only checked commands the machine can refuse are the making of a link
\* that an executor cut between its creation and its move has left, and of a
\* namespace this one has failed to delete.
THEOREM OnlyAnUnmovedLinkWedgesHolds == Spec => []OnlyAnUnmovedLinkWedges
<1>1. IInv => OnlyAnUnmovedLinkWedges
  <2> SUFFICES ASSUME IInv, run.phase = "up", Checked(Head(run.prog)), ~Can(Head(run.prog))
               PROVE  \/ \E e \in ToSet(Endpoints) :
                           /\ Head(run.prog) = <<"pair", e>>
                           /\ {e} \X {"ep", "gw"} \subseteq lab.root
                           /\ faults > 0
                      \/ \E n \in Namespaces :
                           Head(run.prog) = <<"add", n>> /\ <<"del", n>> \in run.ignored
    BY DEF OnlyAnUnmovedLinkWedges
  <2>1. /\ run.prog # <<>> /\ ProgUp(run.prog, run.env) /\ LabShape(lab)
        /\ UpSoFar(lab, ToSet(run.prog), run.env, faults, run.ignored)
    BY DEF IInv, LabOK
  <2>2. NextOf(Head(run.prog), ToSet(run.prog), run.env)
    BY <2>1, HeadIsNext
  <2>3. \/ \E e \in Parts : /\ Head(run.prog) = <<"pair", e>>
                           /\ {e} \X {"ep", "gw"} \subseteq lab.root
                           /\ faults > 0
        \/ \E n \in Namespaces : Head(run.prog) = <<"add", n>> /\ <<"del", n>> \in run.ignored
    <3> DEFINE c == Head(run.prog)
               R == ToSet(run.prog)
               I == run.ignored
    <3>1. /\ NextOf(c, R, run.env) /\ Checked(c) /\ ~Can(c) /\ LabShape(lab)
          /\ UpSoFar(lab, R, run.env, faults, I)
      BY <2>1, <2>2
    <3> HIDE DEF c, R, I
    <3>2. \/ \E e \in Parts : /\ c = <<"pair", e>>
                             /\ {e} \X {"ep", "gw"} \subseteq lab.root
                             /\ faults > 0
          \/ \E n \in Namespaces : c = <<"add", n>> /\ <<"del", n>> \in I
      BY <3>1, OnlyPairRefused, Zenon
    <3> QED BY <3>2 DEF c, I
  <2> QED BY <2>3 DEF Parts
<1> QED BY <1>1, IInvHolds, PTL

\* The runner says ok exactly when no environment's last report has a surprise.
THEOREM VerdictSoundHolds == Spec => []VerdictSound
<1>1. IInv => VerdictSound
  BY DEF IInv
<1> QED BY <1>1, IInvHolds, PTL

\* The teardown's last step leaves what its commands failed to remove.
LEMMA TornDown ==
  ASSUME IInv, [Next]_vars, run.phase = "down", run'.phase = "idle", faults' = faults
  PROVE  /\ lab'.ns \subseteq {n \in Namespaces : <<"del", n>> \in run.ignored}
         /\ lab'.root = {}
         /\ lab'.turn # {} => <<"turnstop">> \in run.ignored
         /\ lab'.policy # "none" => <<"nftclear">> \in run.ignored
<1>1. faults \in Nat /\ run.prog # <<>> /\ run.prog \in Seq(DownSteps)
      /\ DownSoFar(lab, ToSet(run.prog), run.ignored) /\ LabShape(lab)
  BY DEF IInv, LabOK
<1>2. Command
  <2>1. faults' # faults + 1
    BY <1>1
  <2>2. ~Kill /\ ~IgnoredFails
    BY <2>1 DEF Kill, IgnoredFails
  <2>3. run' # run
    OBVIOUS
  <2>4. /\ ~UNCHANGED vars
        /\ ~RunnerStarts /\ ~ReadBaseUrl /\ ~AwaitHealthy /\ ~Judge
        /\ \A t \in Tests : ~StartTest(t) /\ ~SpawnPeers(t) /\ ~Timeout(t)
        /\ \A t \in Tests, r \in AllRoles : \A o \in Outcomes[t] : ~PeerEnds(t, r, o)
    BY <2>3 DEF vars, RunnerStarts, ReadBaseUrl, AwaitHealthy, Judge, StartTest, SpawnPeers,
               Timeout, PeerEnds
  <2>5. /\ \A x \in Executors, only \in Only : ~StartRun(x, only)
        /\ ~CommandFails /\ ~CorpusEnds /\ ~ClearData /\ ~Simulate
        /\ ~OpenReport /\ ~WriteReport
    BY DEF StartRun, CommandFails, CorpusEnds, ClearData, Simulate, OpenReport, WriteReport
  <2> QED BY <2>2, <2>4, <2>5 DEF Next
<1> DEFINE c == Head(run.prog)
           rest == Tail(run.prog)
<1>3. /\ lab' = After(c)
      /\ rest # <<>> => run' = [run EXCEPT !.prog = Tail(@), !.ignored = @ \cup {}]
  BY <1>2 DEF Command, Advance
<1>4. rest = <<>>
  <2>1. ASSUME rest # <<>> PROVE FALSE
    <3>1. run' = [run EXCEPT !.prog = Tail(@), !.ignored = @ \cup {}]
      BY <1>3, <2>1
    <3>2. run'.phase = run.phase
      BY <3>1 DEF IInv, RunOK
    <3> QED BY <3>2
  <2> QED BY <2>1
<1>5. c \in DownSteps /\ ToSet(run.prog) \ {c} = {}
  <2>1. ASSUME NEW p \in Seq(DownSteps), p # <<>>, Tail(p) = <<>>
        PROVE  Head(p) \in DownSteps /\ ToSet(p) \ {Head(p)} = {}
    <3>1. /\ Len(p) \in Nat /\ Len(p) > 0 /\ Len(Tail(p)) = Len(p) - 1 /\ DOMAIN p = 1 .. Len(p)
          /\ Head(p) = p[1]
      BY <2>1
    <3> DEFINE q == Tail(p)
    <3>2. Len(q) = 0
      <4>1. q = <<>>
        BY <2>1
      <4> HIDE DEF q
      <4> QED BY <4>1
    <3>3. DOMAIN p = {1} /\ p[1] \in DownSteps
      BY <3>1, <3>2
    <3> QED BY <3>1, <3>3 DEF ToSet
  <2> QED BY <1>1, <1>4, <2>1
<1> HIDE DEF c, rest
<1>6. LabShape(After(c)) /\ DownSoFar(After(c), ToSet(run.prog) \ {c}, run.ignored)
  BY <1>1, <1>5, DownStepOK
<1>7. LabShape(lab') /\ DownSoFar(lab', {}, run.ignored)
  BY <1>3, <1>5, <1>6
<1> QED BY <1>7 DEF LabShape, DownSoFar

\* While tests run, and until their report is written, the lab is the
\* scenario's; an executor that was not killed leaves nothing behind but what
\* a command of its teardown failed to remove.
THEOREM LabMatchesScenarioHolds == Spec => LabMatchesScenario
<1> DEFINE Matches == run.kind = "netns" /\ run.phase \in {"corpus", "report", "write"}
                        => LabOf(run.env)
<1>1. IInv => Matches
  BY DEF IInv, LabOK
<1>2. IInv /\ [Next]_vars => [LeftBehind]_vars
  BY TornDown DEF LeftBehind
<1>3. Spec => []Matches
  BY <1>1, IInvHolds, PTL
<1>4. Spec => [][LeftBehind]_vars
  BY <1>2, IInvHolds, PTL DEF Spec
<1> QED BY <1>3, <1>4 DEF LabMatchesScenario

\* Only the writing of the report makes a whole document.
LEMMA OnlyWritten ==
  ASSUME IInv, [Next]_vars, run.phase = "write", files' # files
  PROVE  files' = [files EXCEPT ![Stem(run)] =
                     [there |-> TRUE, torn |-> FALSE, env |-> run.env,
                      res |-> [t \in Tests |-> Result(t)]]]
<1>1. WriteReport
  <2>1. /\ ~UNCHANGED vars
        /\ ~RunnerStarts /\ ~ReadBaseUrl /\ ~AwaitHealthy /\ ~Judge
        /\ \A t \in Tests : ~StartTest(t) /\ ~SpawnPeers(t) /\ ~Timeout(t)
        /\ \A t \in Tests, r \in AllRoles : \A o \in Outcomes[t] : ~PeerEnds(t, r, o)
    BY DEF vars, RunnerStarts, ReadBaseUrl, AwaitHealthy, Judge, StartTest, SpawnPeers,
           Timeout, PeerEnds
  <2>2. /\ \A x \in Executors, only \in Only : ~StartRun(x, only)
        /\ ~Command /\ ~IgnoredFails /\ ~CommandFails /\ ~CorpusEnds /\ ~ClearData /\ ~Simulate
        /\ ~OpenReport /\ ~Kill
    BY DEF StartRun, Command, IgnoredFails, CommandFails, CorpusEnds, ClearData, Simulate, OpenReport, Kill
  <2> QED BY <2>1, <2>2 DEF Next
<1> QED BY <1>1 DEF WriteReport

\* What is written of a test, its peers have said.
LEMMA ResultEarned ==
  ASSUME IInv, run.phase = "write", NEW t \in run.tests
  PROVE  /\ Result(t) # "fail" => /\ Said(t) \cap {"fail", "err", "running", "none"} = {}
                                  /\ run.kind = "shadow" => data.fresh
         /\ Result(t) = "pass" => Said(t) = {"pass"}
<1>1. t \in Tests
  BY DEF IInv, RunOK
<1>2. CASE run.kind = "shadow"
  <2> DEFINE out == data.out[t]
  <2>1. Result(t) = Collected(t) /\ Roles(run.kind, t) = AllRoles
    BY <1>2, OfRoles DEF Result
  <2>2. Said(t) = {out[r] : r \in AllRoles}
    BY <1>2, <2>1 DEF Said
  <2>3. out \in [AllRoles -> Says \cup {"none"}] /\ (data.there => data.fresh)
    BY <1>1, <1>2 DEF IInv, DataOK
  <2>4. Collected(t) = IF data.there /\ \A r \in AllRoles : out[r] # "none"
                       THEN Folded({out[r] : r \in AllRoles}) ELSE "fail"
    BY DEF Collected
  <2> HIDE DEF out
  <2>5. CASE Collected(t) = "fail"
    BY <2>1, <2>5
  <2>6. CASE Collected(t) # "fail"
    <3>1. /\ data.there /\ (\A r \in AllRoles : out[r] # "none")
          /\ Collected(t) = Folded(Said(t))
      BY <2>2, <2>4, <2>6
    <3>2. Said(t) \cap {"fail", "err"} = {}
      BY <2>6, <3>1 DEF Folded
    <3>3. Said(t) \subseteq Says
      BY <2>2, <2>3, <3>1
    <3>4. Said(t) \cap {"fail", "err", "running", "none"} = {}
      BY <3>2, <3>3 DEF Says
    <3>5. Collected(t) = "pass" => "skip" \notin Said(t)
      BY <3>1 DEF Folded
    <3>6. Said(t) # {}
      BY <2>2 DEF AllRoles
    <3>7. Collected(t) = "pass" => Said(t) = {"pass"}
      BY <3>2, <3>3, <3>5, <3>6 DEF Says
    <3> QED BY <2>1, <2>3, <3>1, <3>4, <3>7
  <2> QED BY <2>5, <2>6
<1>3. CASE run.kind # "shadow"
  <2> DEFINE a == att[t]
             P == Roles(run.kind, t)
  <2>1. Result(t) = a.status
    BY <1>3 DEF Result
  <2>2. Said(t) = {a.out[r] : r \in P}
    BY <1>3 DEF Said
  <2>3. a \in Attempts /\ AttemptOK(a, t, run.kind) /\ a.phase = "done"
    BY <1>1, <1>3 DEF IInv, AttOK
  <2>4. /\ a.status \in {"pass", "skip", "fail"}
        /\ a.status \in {"pass", "skip"} => \A r \in P : a.out[r] \in {"pass", a.status}
    BY <2>3 DEF AttemptOK, Attempts, Statuses
  <2>5. "offerer" \in P
    BY OfRoles
  <2> HIDE DEF a, P
  <2>6. a.status # "fail" => Said(t) \subseteq {"pass", "skip"}
    BY <2>2, <2>4
  <2>7. a.status = "pass" => Said(t) = {"pass"}
    BY <2>2, <2>4, <2>5
  <2> QED BY <1>3, <2>1, <2>6, <2>7
<1> QED BY <1>2, <1>3

\* No report says more for a test than its peers said in the run that writes
\* it, whatever has timed out, been killed or been left by earlier runs.
THEOREM PassIsEarnedHolds == Spec => PassIsEarned
<1>1. IInv /\ [Next]_vars => [EarnedStep]_vars
  <2> SUFFICES ASSUME IInv, [Next]_vars, run.phase = "write", files' # files,
                      NEW t \in run.tests
               PROVE  LET s == files'[Stem(run)].res[t]
                      IN /\ s # "fail" =>
                              /\ Said(t) \cap {"fail", "err", "running", "none"} = {}
                              /\ run.kind = "shadow" => data.fresh
                         /\ s = "pass" => Said(t) = {"pass"}
    BY DEF EarnedStep
  <2>1. PICK x \in Executors : run.kind = x.kind /\ run.env = x.env
    BY DEF IInv, RunOK
  <2>2. Stem(run) \in Stems /\ t \in Tests
    BY <2>1 DEF Stem, Stems, IInv, RunOK
  <2>3. files'[Stem(run)] = [there |-> TRUE, torn |-> FALSE, env |-> run.env,
                             res |-> [u \in Tests |-> Result(u)]]
    BY <2>2, OnlyWritten DEF IInv, FilesOK
  <2>4. files'[Stem(run)].res[t] = Result(t)
    BY <2>2, <2>3
  <2> QED BY <2>4, ResultEarned
<1> QED BY <1>1, IInvHolds, PTL DEF Spec, PassIsEarned
=============================================================================
