------------------------------ MODULE ClientProofs ------------------------------
(***************************************************************************)
(* What holds of Client for every set of channels, any number of commands, *)
(* crashes and losses of PipeWire: the types, and that an idle bus leaves  *)
(* the client with exactly what the daemon exports (MirrorIsTrue).         *)
(*                                                                         *)
(* Signals, snapshots, local writes and restarts cross, so the invariant   *)
(* speaks of what the client will come to believe: of every object the     *)
(* last word on its way is true, and where there is none the mirror, or    *)
(* the snapshot that will replace it, is.                                  *)
(***************************************************************************)
EXTENDS Client, FiniteSetTheorems, SequenceTheorems, WellFoundedInduction, TLAPS

\* Of the signals on their way to the client, those it will still believe: a new
\* owner of the name makes it ask for everything again.
IsOwner(i) == sent[i].kind = "owner"
OwnerDue == \E i \in DOMAIN sent : IsOwner(i)
Current(i) == i \in DOMAIN sent /\ \A j \in DOMAIN sent : IsOwner(j) => j < i

About(i, p) == sent[i].kind \in {"props", "removed"} /\ sent[i].path = p
LastWord(i, p) == Current(i) /\ About(i, p) /\ \A j \in DOMAIN sent : About(j, p) => j <= i
Unsaid(p) == \A i \in DOMAIN sent : Current(i) => ~About(i, p)
Takes(i, c) == Current(i) /\ sent[i].kind = "removed" /\ sent[i].path = Chan(c)
Lists(i) == Current(i) /\ sent[i].kind = "order"

\* What the client starts from: its mirror, or the snapshot it is handed.
Open == OwnerDue \/ (waiting /\ answer = None)
Mirror == IF waiting THEN answer.values ELSE mirror
Order == IF waiting THEN answer.order ELSE order

Asked(p) == \E i \in DOMAIN calls : calls[i].op = "set" /\ calls[i].arg = p

\* The last word on an object is true.
Spoken(p) ==
  \A i \in DOMAIN sent : LastWord(i, p) =>
    IF p \in objects THEN sent[i].kind = "props" /\ (sent[i].value = value[p] \/ p \in silent)
                     ELSE sent[i].kind = "removed"

\* What nobody speaks of, the client has right.
Kept(p) ==
  ~Open /\ Unsaid(p) =>
    IF p \in objects
      THEN Mirror[p] # None /\ (Mirror[p] = value[p] \/ p \in silent \/ Asked(p))
      ELSE p[1] = "cell" => Mirror[p] = None

\* A channel that is gone is taken from the client's list, after whatever puts it there ...
TakenOff(c) ==
  c \notin Range(live) =>
    /\ \A i \in DOMAIN sent : Lists(i) /\ c \in Range(sent[i].order) =>
         \E j \in DOMAIN sent : j > i /\ Takes(j, c)
    /\ ~Open /\ c \in Range(Order) => \E j \in DOMAIN sent : Takes(j, c)

\* ... the last list is the daemon's, and every removal is followed by a list.
InOrder ==
  /\ \A i \in DOMAIN sent : Lists(i) /\ (\A j \in DOMAIN sent : Lists(j) => j <= i) =>
       sent[i].order = live
  /\ ~Open /\ (\A i \in DOMAIN sent : ~Lists(i)) => Order = live
  /\ \A i \in DOMAIN sent, c \in Channels : Takes(i, c) =>
       \E j \in DOMAIN sent : j > i /\ Lists(j)

\* What the daemon exports, and which channels it publishes.
Exported == \A c \in Channels : Chan(c) \in objects <=> c \in Range(live)

\* A client that is not waiting, and that nobody will tell to ask again, is connected.
Connected ==
  /\ \A i \in DOMAIN sent : sent[i].kind = "gone" => \E j \in DOMAIN sent : j > i /\ IsOwner(j)
  /\ ~OwnerDue => waiting \/ available
  /\ answer = Refused => OwnerDue

Faithful ==
  up => /\ Exported /\ Connected /\ InOrder
        /\ \A p \in Paths : Spoken(p) /\ Kept(p)
        /\ \A c \in Channels : TakenOff(c)

\* One snapshot at a time, asked for and then answered.
OneSnapshot ==
  /\ ~waiting => answer = None
  /\ \A i \in DOMAIN calls : calls[i].op = "managed" =>
       /\ waiting /\ answer = None
       /\ \A j \in DOMAIN calls : calls[j].op = "managed" => j = i

IInv == TypeOK /\ OneSnapshot /\ Faithful
-----------------------------------------------------------------------------
(* Lists without repetition                                                *)

\* Induction over the naturals, for a set of numbers.
LEMMA NatSetInduction ==
  ASSUME NEW T, 0 \in T, \A n \in Nat : n \in T => n + 1 \in T
  PROVE  Nat \subseteq T
<1> DEFINE U == Nat \ T
<1> SUFFICES ASSUME U # {} PROVE FALSE
  OBVIOUS
<1>1. PICK x \in U : \A y \in U : ~(<<y, x>> \in OpToRel(<, Nat))
  <2>1. U \subseteq Nat
    OBVIOUS
  <2> HIDE DEF U
  <2>2. \E x \in U : \A y \in U : ~(<<y, x>> \in OpToRel(<, Nat))
    BY <2>1, NatLessThanWellFounded, WFMin
  <2>3. QED
    BY <2>2
<1>2. x - 1 \in U /\ x - 1 < x
  OBVIOUS
<1>3. <<x - 1, x>> \in OpToRel(<, Nat)
  BY <1>2 DEF OpToRel
<1>4. QED
  BY <1>1, <1>2, <1>3

LEMMA OrderIs ==
  ASSUME NEW s \in Orders
  PROVE  s \in Seq(Channels) /\ IsInjective(s) /\ Range(s) \subseteq Channels
<1>1. PICK n \in 0..Cardinality(Channels) : s \in [1..n -> Channels]
  BY DEF Orders
<1>2. Cardinality(Channels) \in Nat
  BY ClientAssumption, FS_CardinalityType
<1>3. n \in Nat
  BY <1>1, <1>2
<1>4. QED
  BY <1>1, <1>3 DEF Orders, Range

\* No list without repetition is longer than there are channels.
LEMMA IsOrder ==
  ASSUME NEW s \in Seq(Channels), IsInjective(s)
  PROVE  s \in Orders
<1>1. s \in [1..Len(s) -> Channels] /\ Len(s) \in Nat
  OBVIOUS
<1>2. IsFiniteSet(Channels) /\ Cardinality(Channels) \in Nat
  BY ClientAssumption, FS_CardinalityType
<1>3. s \in Injection(1..Len(s), Channels)
  BY <1>1 DEF Injection, IsInjective
<1>4. Cardinality(1..Len(s)) <= Cardinality(Channels)
  BY <1>2, <1>3, FS_Injection
<1>5. Cardinality(1..Len(s)) = Len(s)
  <2>1. 1 \in Int /\ Len(s) \in Int /\ (1 > Len(s) => Len(s) = 0) /\ Len(s) - 1 + 1 = Len(s)
    BY <1>1
  <2>2. Cardinality(1..Len(s)) = IF 1 > Len(s) THEN 0 ELSE Len(s) - 1 + 1
    BY <2>1, FS_Interval
  <2>3. QED
    BY <2>1, <2>2
<1>6. Len(s) \in 0..Cardinality(Channels)
  BY <1>1, <1>2, <1>4, <1>5
<1>7. QED
  BY <1>1, <1>6 DEF Orders

LEMMA Appended ==
  ASSUME NEW s \in Orders, NEW c \in Channels, c \notin Range(s)
  PROVE  Append(s, c) \in Orders /\ Range(Append(s, c)) = Range(s) \cup {c}
<1> DEFINE t == Append(s, c)
<1>1. s \in Seq(Channels) /\ IsInjective(s)
  BY OrderIs
<1>2. /\ t \in Seq(Channels) /\ DOMAIN s = 1..Len(s) /\ DOMAIN t = 1..(Len(s) + 1)
      /\ t[Len(s) + 1] = c /\ \A i \in 1..Len(s) : t[i] = s[i]
  BY <1>1
<1> HIDE DEF t
<1>3. \A i \in 1..Len(s) : s[i] # c
  BY <1>2 DEF Range
<1>4. Len(s) \in Nat
  BY <1>1
<1>5. IsInjective(t)
  BY <1>1, <1>2, <1>3, <1>4 DEF IsInjective
<1>6. Range(t) = Range(s) \cup {c}
  <2>1. \A i \in DOMAIN t : t[i] \in Range(s) \cup {c}
    BY <1>2, <1>4 DEF Range
  <2>2. \A i \in DOMAIN s : s[i] \in Range(t)
    BY <1>2, <1>4 DEF Range
  <2>3. c \in Range(t)
    BY <1>2, <1>4 DEF Range
  <2>4. QED
    BY <2>1, <2>2, <2>3 DEF Range
<1>7. QED
  BY <1>2, <1>5, <1>6, IsOrder DEF t

LEMMA Concatenated ==
  ASSUME NEW s \in Orders, NEW t \in Orders, Range(s) \cap Range(t) = {}
  PROVE  s \o t \in Orders /\ Range(s \o t) = Range(s) \cup Range(t)
<1> DEFINE u == s \o t
<1>1. s \in Seq(Channels) /\ IsInjective(s) /\ t \in Seq(Channels) /\ IsInjective(t)
  BY OrderIs
<1>2. /\ u \in Seq(Channels) /\ Len(s) \in Nat /\ Len(t) \in Nat
      /\ DOMAIN s = 1..Len(s) /\ DOMAIN t = 1..Len(t) /\ DOMAIN u = 1..(Len(s) + Len(t))
      /\ \A i \in 1..Len(s) : u[i] = s[i]
      /\ \A i \in 1..Len(t) : u[i + Len(s)] = t[i]
  BY <1>1
<1> HIDE DEF u
<1>3. \A i \in DOMAIN u : i \in DOMAIN s \/ (i - Len(s) \in DOMAIN t /\ u[i] = t[i - Len(s)])
  BY <1>2
<1>4. \A i \in DOMAIN s : \A j \in DOMAIN t : s[i] # t[j]
  BY DEF Range
<1>5. IsInjective(u)
  <2> SUFFICES ASSUME NEW i \in DOMAIN u, NEW j \in DOMAIN u, u[i] = u[j] PROVE i = j
    BY DEF IsInjective
  <2>1. CASE i \in DOMAIN s /\ j \in DOMAIN s
    BY <1>1, <1>2, <2>1 DEF IsInjective
  <2>2. CASE i \in DOMAIN s /\ j \notin DOMAIN s
    BY <1>2, <1>3, <1>4, <2>2
  <2>3. CASE i \notin DOMAIN s /\ j \in DOMAIN s
    BY <1>2, <1>3, <1>4, <2>3
  <2>4. CASE i \notin DOMAIN s /\ j \notin DOMAIN s
    <3>1. /\ i - Len(s) \in DOMAIN t /\ u[i] = t[i - Len(s)]
          /\ j - Len(s) \in DOMAIN t /\ u[j] = t[j - Len(s)]
      BY <1>3, <2>4
    <3>2. i - Len(s) = j - Len(s)
      BY <1>1, <3>1 DEF IsInjective
    <3>3. QED
      BY <1>2, <3>2
  <2>5. QED
    BY <2>1, <2>2, <2>3, <2>4
<1>6. Range(u) = Range(s) \cup Range(t)
  <2>1. \A i \in DOMAIN u : u[i] \in Range(s) \cup Range(t)
    BY <1>2, <1>3 DEF Range
  <2>2. \A i \in DOMAIN s : s[i] \in Range(u)
    BY <1>2 DEF Range
  <2>3. ASSUME NEW i \in DOMAIN t PROVE t[i] \in Range(u)
    <3>1. i + Len(s) \in DOMAIN u /\ u[i + Len(s)] = t[i]
      BY <1>2
    <3>2. QED
      BY <3>1 DEF Range
  <2>4. QED
    BY <2>1, <2>2, <2>3 DEF Range
<1>7. QED
  BY <1>2, <1>5, <1>6, IsOrder DEF u

LEMMA Without ==
  ASSUME NEW s \in Orders, NEW c
  PROVE  /\ RemoveFirst(s, c) \in Orders
         /\ Range(RemoveFirst(s, c)) = Range(s) \ {c}
         /\ c \in Range(s) => Len(RemoveFirst(s, c)) = Len(s) - 1
<1>1. s \in Seq(Channels) /\ IsInjective(s) /\ DOMAIN s = 1..Len(s) /\ Len(s) \in Nat
  BY OrderIs
<1>2. CASE \A i \in 1..Len(s) : s[i] # c
  <2>1. RemoveFirst(s, c) = s
    BY <1>2 DEF RemoveFirst
  <2>2. c \notin Range(s)
    BY <1>1, <1>2 DEF Range
  <2>3. QED
    BY <2>1, <2>2
<1>3. CASE \E i \in 1..Len(s) : s[i] = c
  <2>1. PICK k \in 1..Len(s) : s[k] = c
    BY <1>3
  <2>2. {i \in 1..Len(s) : s[i] = c} = {k}
    BY <1>1, <2>1 DEF IsInjective
  <2>3. Min({k}) = k
    BY <2>1 DEF Min
  <2>4. SelectInSeq(s, LAMBDA v : v = c) = k
    BY <2>2, <2>3 DEF SelectInSeq
  <2>5. RemoveFirst(s, c) = RemoveAt(s, k)
    BY <1>3, <2>4 DEF RemoveFirst
  <2> DEFINE t == RemoveAt(s, k)
  <2>6. /\ t \in Seq(Channels) /\ Len(t) = Len(s) - 1 /\ DOMAIN t = 1..(Len(s) - 1)
        /\ \A i \in 1..(Len(s) - 1) : t[i] = IF i < k THEN s[i] ELSE s[i + 1]
    <3> DEFINE a == SubSeq(s, 1, k - 1)
               b == SubSeq(s, k + 1, Len(s))
    <3>1. /\ a \in Seq(Channels) /\ Len(a) = k - 1
          /\ \A i \in 1..(k - 1) : a[i] = s[i]
      BY <1>1, <2>1
    <3>2. /\ b \in Seq(Channels) /\ Len(b) = Len(s) - k
          /\ \A i \in 1..(Len(s) - k) : b[i] = s[i + k]
      <4>1. k \in Nat /\ Len(s) \in Nat /\ k <= Len(s)
        BY <1>1, <2>1
      <4>2. \A i \in (k + 1)..Len(s) : s[i] \in Channels
        BY <1>1, <4>1
      <4>3. /\ b \in Seq(Channels)
            /\ Len(b) = IF k + 1 <= Len(s) THEN Len(s) - (k + 1) + 1 ELSE 0
            /\ \A i \in 1..(Len(s) - (k + 1) + 1) : b[i] = s[(k + 1) + i - 1]
        BY <4>1, <4>2, SubSeqProperties
      <4> HIDE DEF b
      <4>4. Len(b) = Len(s) - k
        BY <4>1, <4>3
      <4>5. ASSUME NEW i \in 1..(Len(s) - k) PROVE b[i] = s[i + k]
        <5>1. i \in 1..(Len(s) - (k + 1) + 1) /\ (k + 1) + i - 1 = i + k
          BY <4>1
        <5>2. QED
          BY <4>3, <5>1
      <4>6. QED
        BY <4>3, <4>4, <4>5
    <3>3. t = a \o b
      BY DEF RemoveAt
    <3> HIDE DEF a, b, t
    <3>4. t \in Seq(Channels) /\ Len(t) = Len(s) - 1 /\ DOMAIN t = 1..(Len(s) - 1)
      <4>1. t \in Seq(Channels) /\ Len(t) = Len(a) + Len(b)
        BY <3>1, <3>2, <3>3, ConcatProperties
      <4>2. Len(a) + Len(b) = Len(s) - 1
        BY <1>1, <2>1, <3>1, <3>2
      <4>3. QED
        BY <4>1, <4>2
    <3>5. ASSUME NEW i \in 1..(Len(s) - 1)
          PROVE  t[i] = IF i < k THEN s[i] ELSE s[i + 1]
      <4>1. CASE i < k
        BY <1>1, <2>1, <3>1, <3>2, <3>3, <4>1
      <4>2. CASE ~(i < k)
        <5>1. i - (k - 1) \in 1..(Len(s) - k) /\ (i - (k - 1)) + k = i + 1
          BY <1>1, <2>1, <4>2
        <5>2. t[i] = b[i - (k - 1)]
          BY <1>1, <2>1, <3>1, <3>2, <3>3, <4>2
        <5>3. QED
          BY <3>2, <4>2, <5>1, <5>2
      <4>3. QED
        BY <4>1, <4>2
    <3>6. QED
      BY <3>4, <3>5
  <2> HIDE DEF t
  <2>7. IsInjective(t)
    <3> SUFFICES ASSUME NEW i \in 1..(Len(s) - 1), NEW j \in 1..(Len(s) - 1), t[i] = t[j]
                 PROVE  i = j
      BY <2>6 DEF IsInjective
    <3> DEFINE At(m) == IF m < k THEN m ELSE m + 1
    <3>1. At(i) \in DOMAIN s /\ At(j) \in DOMAIN s
      BY <1>1, <2>1
    <3>2. t[i] = s[At(i)] /\ t[j] = s[At(j)]
      BY <2>6
    <3>3. At(i) = At(j)
      BY <1>1, <3>1, <3>2 DEF IsInjective
    <3>4. QED
      BY <1>1, <2>1, <3>3
  <2>8. Range(t) = Range(s) \ {c}
    <3>1. ASSUME NEW i \in DOMAIN t PROVE t[i] \in Range(s) \ {c}
      <4>1. PICK j \in DOMAIN s : j # k /\ t[i] = s[j]
        BY <1>1, <2>1, <2>6
      <4>2. QED
        BY <1>1, <2>1, <4>1 DEF IsInjective, Range
    <3>2. ASSUME NEW i \in DOMAIN s, s[i] # c PROVE s[i] \in Range(t)
      <4>1. PICK j \in DOMAIN t : t[j] = s[i]
        <5>1. CASE i < k
          BY <1>1, <2>1, <2>6, <5>1
        <5>2. CASE i > k
          <6>1. i - 1 \in DOMAIN t /\ t[i - 1] = s[i]
            BY <1>1, <2>1, <2>6, <5>2
          <6>2. QED
            BY <6>1
        <5>3. QED
          BY <1>1, <2>1, <3>2, <5>1, <5>2
      <4>2. QED
        BY <4>1 DEF Range
    <3>3. QED
      BY <3>1, <3>2 DEF Range
  <2>9. QED
    BY <2>5, <2>6, <2>7, <2>8, IsOrder DEF t
<1>4. QED
  BY <1>2, <1>3

LEMMA Inserted ==
  ASSUME NEW s \in Orders, NEW c \in Channels, c \notin Range(s), NEW k \in 1..(Len(s) + 1)
  PROVE  InsertAt(s, k, c) \in Orders /\ Range(InsertAt(s, k, c)) = Range(s) \cup {c}
<1> DEFINE t == InsertAt(s, k, c)
<1>1. s \in Seq(Channels) /\ IsInjective(s) /\ DOMAIN s = 1..Len(s) /\ Len(s) \in Nat
  BY OrderIs
<1>2. /\ t \in Seq(Channels) /\ DOMAIN t = 1..(Len(s) + 1)
      /\ \A i \in 1..(Len(s) + 1) :
           t[i] = IF i < k THEN s[i] ELSE IF i = k THEN c ELSE s[i - 1]
  <2> DEFINE a == SubSeq(s, 1, k - 1)
             b == SubSeq(s, k, Len(s))
  <2>1. /\ a \in Seq(Channels) /\ Len(a) = k - 1
        /\ \A i \in 1..(k - 1) : a[i] = s[i]
    BY <1>1
  <2>2. /\ b \in Seq(Channels) /\ Len(b) = Len(s) - k + 1
        /\ \A i \in 1..(Len(s) - k + 1) : b[i] = s[i + k - 1]
    BY <1>1
  <2>3. t = (a \o <<c>>) \o b
    BY DEF InsertAt
  <2> HIDE DEF a, b, t
  <2> DEFINE d == a \o <<c>>
  <2>4. /\ d \in Seq(Channels) /\ Len(d) = k /\ d[k] = c
        /\ \A i \in 1..(k - 1) : d[i] = s[i]
    BY <1>1, <2>1
  <2> HIDE DEF d
  <2>5. t = d \o b
    BY <2>3 DEF d
  <2>6. t \in Seq(Channels) /\ DOMAIN t = 1..(Len(s) + 1)
    <3>1. t \in Seq(Channels) /\ Len(t) = Len(d) + Len(b)
      BY <2>2, <2>4, <2>5
    <3>2. Len(d) + Len(b) = Len(s) + 1
      BY <1>1, <2>2, <2>4
    <3>3. QED
      BY <3>1, <3>2
  <2>7. ASSUME NEW i \in 1..(Len(s) + 1)
        PROVE  t[i] = IF i < k THEN s[i] ELSE IF i = k THEN c ELSE s[i - 1]
    <3>1. CASE i <= k
      BY <1>1, <2>2, <2>4, <2>5, <3>1
    <3>2. CASE i > k
      <4>1. i - k \in 1..(Len(s) - k + 1) /\ (i - k) + k - 1 = i - 1
        BY <1>1, <3>2
      <4>2. t[i] = b[i - k]
        BY <1>1, <2>2, <2>4, <2>5, <3>2
      <4>3. QED
        BY <1>1, <2>2, <3>2, <4>1, <4>2
    <3>3. QED
      BY <1>1, <3>1, <3>2
  <2>8. QED
    BY <2>6, <2>7
<1> HIDE DEF t
<1>3. \A i \in DOMAIN s : s[i] # c
  BY DEF Range
<1>4. IsInjective(t)
  <2> SUFFICES ASSUME NEW i \in 1..(Len(s) + 1), NEW j \in 1..(Len(s) + 1), t[i] = t[j]
               PROVE  i = j
    BY <1>2 DEF IsInjective
  <2> DEFINE At(m) == IF m < k THEN m ELSE m - 1
  <2>1. \A m \in 1..(Len(s) + 1) : m # k => At(m) \in DOMAIN s /\ t[m] = s[At(m)]
    BY <1>1, <1>2
  <2>2. t[k] = c
    BY <1>1, <1>2
  <2>3. CASE i = k \/ j = k
    BY <1>3, <2>1, <2>2, <2>3
  <2>4. CASE i # k /\ j # k
    <3>1. At(i) = At(j)
      BY <1>1, <2>1, <2>4 DEF IsInjective
    <3>2. QED
      BY <1>1, <2>4, <3>1
  <2>5. QED
    BY <2>3, <2>4
<1>5. Range(t) = Range(s) \cup {c}
  <2>1. ASSUME NEW i \in DOMAIN t PROVE t[i] \in Range(s) \cup {c}
    <3>1. CASE i < k
      BY <1>1, <1>2, <3>1 DEF Range
    <3>2. CASE i > k
      <4>1. i - 1 \in DOMAIN s /\ t[i] = s[i - 1]
        BY <1>1, <1>2, <3>2
      <4>2. QED
        BY <4>1 DEF Range
    <3>3. QED
      BY <1>1, <1>2, <3>1, <3>2
  <2>2. ASSUME NEW i \in DOMAIN s PROVE s[i] \in Range(t)
    <3>1. CASE i < k
      BY <1>1, <1>2, <3>1 DEF Range
    <3>2. CASE i >= k
      <4>1. i + 1 \in DOMAIN t /\ t[i + 1] = s[i]
        BY <1>1, <1>2, <3>2
      <4>2. QED
        BY <4>1 DEF Range
    <3>3. QED
      BY <1>1, <3>1, <3>2
  <2>3. k \in DOMAIN t /\ t[k] = c
    BY <1>1, <1>2
  <2>4. c \in Range(t)
    BY <2>3 DEF Range
  <2>5. QED
    BY <2>1, <2>2, <2>4 DEF Range
<1>6. QED
  BY <1>2, <1>4, <1>5, IsOrder DEF t

\* One list, then what another has that it lacks.
UpTo(f, n, list, more) ==
  IF n = 0 THEN list
  ELSE IF more[n] \in Range(f[n - 1]) THEN f[n - 1] ELSE Append(f[n - 1], more[n])

LEMMA JoinedExists ==
  ASSUME NEW list, NEW more, NEW k \in Nat
  PROVE  \E f : f = [n \in 0..k |-> UpTo(f, n, list, more)]
<1> DEFINE Is(f, m) == f = [n \in 0..m |-> UpTo(f, n, list, more)]
           T == {m \in Nat : \E f : Is(f, m)}
<1>1. 0 \in T
  <2> DEFINE f == [n \in 0..0 |-> list]
  <2>1. Is(f, 0)
    BY DEF UpTo
  <2>2. QED
    BY <2>1
<1>2. ASSUME NEW m \in Nat, m \in T PROVE m + 1 \in T
  <2>1. PICK f : Is(f, m)
    BY <1>2
  <2> DEFINE g == [n \in 0..(m + 1) |-> UpTo(f, n, list, more)]
  <2>2. \A n \in 0..m : g[n] = f[n]
    BY <2>1
  <2>3. \A n \in 0..(m + 1) : n # 0 => n - 1 \in 0..m
    OBVIOUS
  <2> HIDE DEF g
  <2>4. ASSUME NEW n \in 0..(m + 1)
        PROVE  UpTo(f, n, list, more) = UpTo(g, n, list, more)
    BY <2>2, <2>3 DEF UpTo
  <2>5. Is(g, m + 1)
    BY <2>4 DEF g
  <2>6. QED
    BY <2>5
<1>3. Nat \subseteq T
  <2> HIDE DEF T
  <2>1. QED
    BY <1>1, <1>2, NatSetInduction
<1>4. QED
  BY <1>3

LEMMA JoinedIs ==
  ASSUME NEW list \in Orders, NEW more \in Orders
  PROVE  Joined(list, more) \in Orders /\ Range(Joined(list, more)) = Range(list) \cup Range(more)
<1> DEFINE m == Len(more)
           f == CHOOSE g : g = [n \in 0..m |-> UpTo(g, n, list, more)]
<1>1. more \in Seq(Channels) /\ m \in Nat /\ DOMAIN more = 1..m
  BY OrderIs
<1>2. Joined(list, more) = f[m]
  BY DEF Joined, UpTo
<1>3. f = [n \in 0..m |-> UpTo(f, n, list, more)]
  BY <1>1, JoinedExists
<1> HIDE DEF f, m
<1>4. \A n \in 0..m : f[n] = UpTo(f, n, list, more)
  BY <1>3
<1> DEFINE Got(n) == {more[i] : i \in 1..n}
           Good(n) == f[n] \in Orders /\ Range(f[n]) = Range(list) \cup Got(n)
           T == {n \in Nat : n <= m => Good(n)}
<1>5. 0 \in T
  <2>1. f[0] = list
    BY <1>1, <1>4 DEF UpTo
  <2>2. QED
    BY <2>1
<1>6. ASSUME NEW n \in Nat, n \in T PROVE n + 1 \in T
  <2> SUFFICES ASSUME n + 1 <= m PROVE Good(n + 1)
    OBVIOUS
  <2>1. Good(n)
    BY <1>1, <1>6
  <2>2. n + 1 \in 0..m /\ n + 1 # 0 /\ (n + 1) - 1 = n /\ n + 1 \in 1..m
    BY <1>1
  <2>3. f[n + 1] = IF more[n + 1] \in Range(f[n]) THEN f[n] ELSE Append(f[n], more[n + 1])
    BY <1>4, <2>2 DEF UpTo
  <2>4. more[n + 1] \in Channels
    BY <1>1, <2>2
  <2>5. Got(n + 1) = Got(n) \cup {more[n + 1]}
    OBVIOUS
  <2> HIDE DEF Got
  <2>6. CASE more[n + 1] \in Range(f[n])
    BY <2>1, <2>3, <2>5, <2>6
  <2>7. CASE more[n + 1] \notin Range(f[n])
    BY <2>1, <2>3, <2>4, <2>5, <2>7, Appended
  <2>8. QED
    BY <2>6, <2>7
<1>7. m \in T
  <2> HIDE DEF T
  <2>1. Nat \subseteq T
    BY <1>5, <1>6, NatSetInduction
  <2>2. QED
    BY <1>1, <2>1
<1>8. Good(m)
  BY <1>1, <1>7
<1>9. Got(m) = Range(more)
  BY <1>1 DEF Range
<1>10. QED
  BY <1>2, <1>8, <1>9

\* Every element of a finite set has a place in its sequence.
LEMMA SetToSeqIs ==
  ASSUME NEW S, IsFiniteSet(S)
  PROVE  /\ Cardinality(S) \in Nat
         /\ \A i \in 1..Cardinality(S) : SetToSeq(S)[i] \in S
         /\ \A x \in S : \E i \in 1..Cardinality(S) : SetToSeq(S)[i] = x
<1> DEFINE n == Cardinality(S)
           q == SetToSeq(S)
<1>1. n \in Nat /\ ExistsBijection(1..n, S)
  BY FS_CardinalityType
<1>2. \E f \in [1..n -> S] : IsInjective(f)
  BY <1>1 DEF ExistsBijection, Bijection, Injection, IsInjective
<1>3. q \in [1..n -> S] /\ IsInjective(q)
  BY <1>2 DEF SetToSeq
<1>4. q \in Injection(1..n, S)
  BY <1>3 DEF Injection, IsInjective
<1>5. IsFiniteSet(1..n) /\ Cardinality(1..n) = n
  <2>1. 1 \in Int /\ n \in Int /\ (1 > n => n = 0) /\ n - 1 + 1 = n
    BY <1>1
  <2>2. IsFiniteSet(1..n) /\ Cardinality(1..n) = IF 1 > n THEN 0 ELSE n - 1 + 1
    BY <2>1, FS_Interval
  <2>3. QED
    BY <2>1, <2>2
<1>6. q \in Surjection(1..n, S)
  BY <1>4, <1>5, FS_Injection
<1>7. QED
  BY <1>1, <1>3, <1>6 DEF Surjection
-----------------------------------------------------------------------------
(* What the daemon sends                                                   *)

LEMMA PathsAre ==
  /\ IsFiniteSet(Paths)
  /\ \A c \in Channels : Chan(c) \in Paths /\ Cell(c) \in Paths
  /\ \A p \in Paths : /\ ChannelOf(p) \in Channels
                      /\ (p[1] = "channel" /\ p = Chan(ChannelOf(p))) \/ (p[1] = "cell" /\ p = Cell(ChannelOf(p)))
  /\ \A c, d \in Channels : Chan(c) # Cell(d) /\ (Chan(c) = Chan(d) => c = d)
<1>1. Paths \subseteq {"channel", "cell"} \X Channels
  BY DEF Paths, Chan, Cell
<1>2. IsFiniteSet({"channel", "cell"} \X Channels)
  <2>1. IsFiniteSet({"channel", "cell"})
    <3>1. IsFiniteSet({}) /\ {"channel", "cell"} = ({} \cup {"channel"}) \cup {"cell"}
      BY FS_EmptySet
    <3>2. QED
      BY <3>1, FS_AddElement
  <2>2. QED
    BY <2>1, ClientAssumption, FS_Product
<1>3. IsFiniteSet(Paths)
  BY <1>1, <1>2, FS_Subset
<1>4. QED
  BY <1>3 DEF Paths, Chan, Cell, ChannelOf

LEMMA Concat ==
  ASSUME NEW S, NEW a \in Seq(S), NEW b \in Seq(S)
  PROVE  /\ a \o b \in Seq(S) /\ Len(a \o b) = Len(a) + Len(b)
         /\ Range(a \o b) = Range(a) \cup Range(b)
         /\ \A i \in 1..Len(a) : (a \o b)[i] = a[i]
         /\ \A i \in 1..Len(b) : (a \o b)[i + Len(a)] = b[i]
<1> DEFINE c == a \o b
<1>1. /\ c \in Seq(S) /\ Len(c) = Len(a) + Len(b) /\ DOMAIN c = 1..(Len(a) + Len(b))
      /\ DOMAIN a = 1..Len(a) /\ DOMAIN b = 1..Len(b) /\ Len(a) \in Nat /\ Len(b) \in Nat
      /\ \A i \in 1..Len(a) : c[i] = a[i]
      /\ \A i \in 1..Len(b) : c[i + Len(a)] = b[i]
  OBVIOUS
<1> HIDE DEF c
<1>2. ASSUME NEW i \in DOMAIN c PROVE c[i] \in Range(a) \cup Range(b)
  <2>1. CASE i \in DOMAIN a
    BY <1>1, <2>1 DEF Range
  <2>2. CASE i \notin DOMAIN a
    <3>1. i - Len(a) \in DOMAIN b /\ c[i] = b[i - Len(a)]
      BY <1>1, <2>2
    <3>2. QED
      BY <3>1 DEF Range
  <2>3. QED
    BY <2>1, <2>2
<1>3. ASSUME NEW i \in DOMAIN a PROVE a[i] \in Range(c)
  <2>1. i \in DOMAIN c /\ c[i] = a[i]
    BY <1>1
  <2>2. QED
    BY <2>1 DEF Range
<1>4. ASSUME NEW i \in DOMAIN b PROVE b[i] \in Range(c)
  <2>1. i + Len(a) \in DOMAIN c /\ c[i + Len(a)] = b[i]
    BY <1>1
  <2>2. QED
    BY <2>1 DEF Range
<1>5. Range(c) = Range(a) \cup Range(b)
  BY <1>2, <1>3, <1>4 DEF Range
<1>6. QED
  BY <1>1, <1>5 DEF c

LEMMA MessagesAre ==
  /\ \A p \in Paths : Removed(p) \in Messages
  /\ \A p \in Paths, v \in Accepted : Added(p, v) \in Messages
  /\ \A liv \in Orders : Listed(liv) \in Messages
BY DEF Messages, Removed, Added, Listed

RemovedOnes(part) == [i \in 1..Cardinality(part) |-> Removed(SetToSeq(part)[i])]
AddedOnes(part, val) ==
  [i \in 1..Cardinality(part) |-> Added(SetToSeq(part)[i], val[SetToSeq(part)[i]])]

LEMMA Parts ==
  ASSUME NEW part \in SUBSET Paths, NEW val \in [Paths -> Accepted]
  PROVE  /\ RemovedOnes(part) \in Seq(Messages)
         /\ Range(RemovedOnes(part)) = {Removed(p) : p \in part}
         /\ AddedOnes(part, val) \in Seq(Messages)
         /\ Range(AddedOnes(part, val)) = {Added(p, val[p]) : p \in part}
<1> DEFINE n == Cardinality(part)
           q == SetToSeq(part)
<1>1. IsFiniteSet(part)
  BY PathsAre, FS_Subset
<1>2. n \in Nat /\ (\A i \in 1..n : q[i] \in part) /\ \A x \in part : \E i \in 1..n : q[i] = x
  BY <1>1, SetToSeqIs
<1> HIDE DEF n, q
<1>3. /\ [i \in 1..n |-> Removed(q[i])] \in Seq(Messages)
      /\ Range([i \in 1..n |-> Removed(q[i])]) = {Removed(p) : p \in part}
  <2> DEFINE f == [i \in 1..n |-> Removed(q[i])]
  <2>1. \A i \in 1..n : f[i] \in Messages
    BY <1>2, MessagesAre
  <2>2. f \in [1..n -> Messages]
    BY <2>1
  <2>3. f \in Seq(Messages)
    BY <1>2, <2>2
  <2>4. QED
    BY <1>2, <2>3 DEF Range
<1>4. /\ [i \in 1..n |-> Added(q[i], val[q[i]])] \in Seq(Messages)
      /\ Range([i \in 1..n |-> Added(q[i], val[q[i]])]) = {Added(p, val[p]) : p \in part}
  <2> DEFINE f == [i \in 1..n |-> Added(q[i], val[q[i]])]
  <2>1. \A i \in 1..n : f[i] \in Messages
    BY <1>2, MessagesAre
  <2>2. f \in [1..n -> Messages]
    BY <2>1
  <2>3. f \in Seq(Messages)
    BY <1>2, <2>2
  <2>4. QED
    BY <1>2, <2>3 DEF Range
<1>5. QED
  BY <1>3, <1>4 DEF RemovedOnes, AddedOnes, n, q

\* syncObjects() in signals: who leaves, who comes, and last the list of channels.
LEMMA PublishedIs ==
  ASSUME objects \in SUBSET Paths, NEW want \in SUBSET Paths, NEW val \in [Paths -> Accepted],
         NEW liv \in Orders
  PROVE  \E front \in Seq(Messages) :
           /\ Published(want, val, liv) = front \o <<Listed(liv)>>
           /\ Range(front) = {Removed(p) : p \in objects \ want}
                               \cup {Added(p, val[p]) : p \in want \ objects}
<1> DEFINE gone == objects \ want
           new == want \ objects
           chans == {p \in new : p[1] = "channel"}
           cells == {p \in new : p[1] = "cell"}
           a == RemovedOnes(gone)
           b == AddedOnes(chans, val)
           c == AddedOnes(cells, val)
<1>1. gone \in SUBSET Paths /\ chans \in SUBSET Paths /\ cells \in SUBSET Paths /\ new = chans \cup cells
  BY PathsAre
<1>2. Published(want, val, liv) = ((a \o b) \o c) \o <<Listed(liv)>>
  BY DEF Published, RemovedOnes, AddedOnes
<1>3. /\ a \in Seq(Messages) /\ Range(a) = {Removed(p) : p \in gone}
      /\ b \in Seq(Messages) /\ Range(b) = {Added(p, val[p]) : p \in chans}
      /\ c \in Seq(Messages) /\ Range(c) = {Added(p, val[p]) : p \in cells}
  BY <1>1, Parts
<1> HIDE DEF a, b, c
<1>4. a \o b \in Seq(Messages) /\ Range(a \o b) = Range(a) \cup Range(b)
  BY <1>3, Concat
<1>5. (a \o b) \o c \in Seq(Messages) /\ Range((a \o b) \o c) = Range(a \o b) \cup Range(c)
  <2> DEFINE d == a \o b
  <2>1. d \in Seq(Messages)
    BY <1>4
  <2> HIDE DEF d
  <2>2. d \o c \in Seq(Messages) /\ Range(d \o c) = Range(d) \cup Range(c)
    BY <1>3, <2>1, Concat
  <2>3. QED
    BY <2>2 DEF d
<1>6. {Added(p, val[p]) : p \in new} =
        {Added(p, val[p]) : p \in chans} \cup {Added(p, val[p]) : p \in cells}
  BY <1>1
<1>7. QED
  BY <1>2, <1>3, <1>4, <1>5, <1>6
-----------------------------------------------------------------------------
(* A broadcast                                                             *)

\* Signals the daemon may send in a step that leads to the objects, values and lists of
\* the next state: every word on an object is true of it, every list is the new one, every
\* change is told, and whatever takes a channel away is followed by a list.
Says(b, i, p) == b[i].kind \in {"props", "removed"} /\ b[i].path = p
Tells(b) ==
  /\ b \in Seq(Messages)
  /\ \A i \in DOMAIN b : b[i].kind \notin {"owner", "gone"}
  /\ \A i \in DOMAIN b, p \in Paths : Says(b, i, p) =>
       IF p \in objects' THEN b[i].kind = "props" /\ (b[i].value = value'[p] \/ p \in silent')
                         ELSE b[i].kind = "removed"
  /\ \A p \in Paths : (\A i \in DOMAIN b : ~Says(b, i, p)) =>
       /\ p \in objects' <=> p \in objects
       /\ p \in objects' => p \in silent' \/ (p \notin silent /\ value'[p] = value[p])
  /\ \A i \in DOMAIN b : b[i].kind = "order" => b[i].order = live'
  /\ live' = live \/ \E i \in DOMAIN b : b[i].kind = "order"
  /\ \A i \in DOMAIN b, c \in Channels : b[i].kind = "removed" /\ b[i].path = Chan(c) =>
       \E j \in DOMAIN b : j > i /\ b[j].kind = "order"

\* The client that a step of the daemon leaves alone.  A write that was served is spoken of.
Untouched(b) ==
  /\ UNCHANGED client
  /\ \A p \in Paths : Asked(p) => \/ Asked(p)' \/ p \in silent'
                                  \/ \E i \in DOMAIN b : Says(b, i, p)

LEMMA Broadcast ==
  ASSUME TypeOK, Faithful, up, up', Exported', NEW b, Tells(b), Untouched(b), sent' = sent \o b
  PROVE  Faithful'
<1> DEFINE n == Len(sent)
           m == Len(b)
<1>1. /\ n \in Nat /\ m \in Nat /\ DOMAIN sent = 1..n /\ DOMAIN b = 1..m
      /\ DOMAIN sent' = 1..(n + m) /\ sent' \in Seq(Messages)
      /\ \A i \in 1..n : sent'[i] = sent[i]
      /\ \A i \in 1..m : sent'[i + n] = b[i]
  <2>1. sent \in Seq(Messages) /\ b \in Seq(Messages)
    BY DEF TypeOK, Tells
  <2>2. QED
    BY <2>1, Concat
<1> HIDE DEF n, m
<1>2. \A i \in 1..(n + m) : i \in 1..n \/ (i - n \in 1..m /\ i > n /\ sent'[i] = b[i - n])
  BY <1>1
<1>3. ASSUME NEW k \in 1..m
      PROVE  \E q \in 1..(n + m) : q \notin 1..n /\ q - n = k /\ q > n
  <2>1. n \in Nat /\ m \in Nat
    BY <1>1
  <2>2. k + n \in 1..(n + m) /\ k + n \notin 1..n /\ (k + n) - n = k /\ k + n > n
    BY <2>1
  <2>3. QED
    BY <2>2
\* who owns the name
<1>4. ASSUME NEW i \in 1..(n + m) PROVE IsOwner(i)' <=> i \in 1..n /\ IsOwner(i)
  <2>1. CASE i \in 1..n
    BY <1>1, <2>1 DEF IsOwner
  <2>2. CASE i \notin 1..n
    <3>1. i - n \in 1..m /\ sent'[i] = b[i - n]
      BY <1>2, <2>2
    <3>2. b[i - n].kind # "owner"
      BY <1>1, <3>1 DEF Tells
    <3>3. QED
      BY <2>2, <3>1, <3>2 DEF IsOwner
  <2>3. QED
    BY <2>1, <2>2
<1>5. OwnerDue' <=> OwnerDue
  BY <1>1, <1>4 DEF OwnerDue
<1>6. \A i \in 1..(n + m) : i \in 1..n => (Current(i)' <=> Current(i))
  BY <1>1, <1>4 DEF Current
<1>7. \A i \in 1..(n + m) : i \notin 1..n => Current(i)'
  BY <1>1, <1>2, <1>4 DEF Current
<1>8. Open' <=> Open
  BY <1>5 DEF Open, Untouched, client
<1>9. Mirror' = Mirror /\ Order' = Order
  BY DEF Mirror, Order, Untouched, client
<1>10. Connected'
  <2>1. Connected
    BY DEF Faithful
  <2>2. ASSUME NEW i \in DOMAIN sent', sent'[i].kind = "gone"
        PROVE  \E j \in DOMAIN sent' : j > i /\ IsOwner(j)'
    <3>1. i \in 1..n /\ sent[i].kind = "gone"
      BY <1>1, <1>2, <2>2 DEF Tells
    <3>2. PICK j \in DOMAIN sent : j > i /\ IsOwner(j)
      BY <1>1, <2>1, <3>1 DEF Connected
    <3>3. j \in DOMAIN sent' /\ IsOwner(j)'
      BY <1>1, <1>4, <3>2
    <3>4. QED
      BY <3>2, <3>3
  <2>3. QED
    BY <1>5, <2>1, <2>2 DEF Connected, Untouched, client
\* who is spoken of
<1>11. \A i \in 1..n : \A p \in Paths : About(i, p)' <=> About(i, p)
  BY <1>1 DEF About
<1>12. \A i \in 1..(n + m) : i \notin 1..n => \A p \in Paths : About(i, p)' <=> Says(b, i - n, p)
  BY <1>2 DEF About, Says
<1>13. ASSUME NEW p \in Paths PROVE Spoken(p)' /\ Kept(p)'
  <2>1. Spoken(p) /\ Kept(p)
    BY DEF Faithful
  <2>2. CASE \E k \in 1..m : Says(b, k, p)
    <3>1. PICK k \in 1..m : Says(b, k, p)
      BY <2>2
    <3>2. PICK q \in 1..(n + m) : q \notin 1..n /\ q - n = k /\ q > n
      BY <1>3
    <3>3. About(q, p)' /\ Current(q)'
      BY <1>7, <1>12, <3>1, <3>2
    <3>4. ASSUME NEW i \in DOMAIN sent', LastWord(i, p)' PROVE i - n \in 1..m /\ Says(b, i - n, p) /\ sent'[i] = b[i - n]
      <4>1. i >= q /\ About(i, p)'
        BY <1>1, <3>2, <3>3, <3>4 DEF LastWord
      <4>2. i \notin 1..n
        BY <1>1, <3>2, <4>1
      <4>3. QED
        BY <1>1, <1>2, <1>12, <4>1, <4>2
    <3>5. Spoken(p)'
      BY <1>1, <3>4 DEF Spoken, Tells
    <3>6. ~Unsaid(p)'
      BY <1>1, <3>2, <3>3 DEF Unsaid
    <3>7. QED
      BY <3>5, <3>6 DEF Kept
  <2>3. CASE ~\E k \in 1..m : Says(b, k, p)
    <3>1. /\ p \in objects' <=> p \in objects
          /\ p \in objects' => p \in silent' \/ (p \notin silent /\ value'[p] = value[p])
          /\ Asked(p) => Asked(p)' \/ p \in silent'
      BY <1>1, <2>3 DEF Tells, Untouched
    <3>2. \A i \in 1..(n + m) : About(i, p)' <=> i \in 1..n /\ About(i, p)
      BY <1>2, <1>11, <1>12, <2>3
    <3>3. ASSUME NEW i \in DOMAIN sent', LastWord(i, p)' PROVE i \in 1..n /\ LastWord(i, p) /\ sent'[i] = sent[i]
      <4>1. i \in 1..n /\ About(i, p) /\ Current(i)
        BY <1>1, <1>6, <3>2, <3>3 DEF LastWord
      <4>2. \A j \in 1..n : About(j, p) => j <= i
        BY <1>1, <3>2, <3>3 DEF LastWord
      <4>3. QED
        BY <1>1, <4>1, <4>2 DEF LastWord
    <3>4. Spoken(p)'
      BY <1>1, <2>1, <3>1, <3>3 DEF Spoken
    <3>5. Unsaid(p)' => Unsaid(p)
      BY <1>1, <1>6, <3>2 DEF Unsaid
    <3>6. Kept(p)'
      BY <1>8, <1>9, <2>1, <3>1, <3>5 DEF Kept
    <3>7. QED
      BY <3>4, <3>6
  <2>4. QED
    BY <2>2, <2>3
\* who is listed
<1>14. \A i \in 1..n : Lists(i)' <=> Lists(i)
  BY <1>1, <1>6 DEF Lists
<1>15. \A i \in 1..(n + m) : i \notin 1..n => (Lists(i)' <=> b[i - n].kind = "order")
  BY <1>2, <1>7 DEF Lists
<1>16. \A i \in 1..n, c \in Channels : Takes(i, c)' <=> Takes(i, c)
  BY <1>1, <1>6 DEF Takes
<1>17. \A i \in 1..(n + m), c \in Channels : i \notin 1..n =>
         (Takes(i, c)' <=> b[i - n].kind = "removed" /\ b[i - n].path = Chan(c))
  BY <1>2, <1>7 DEF Takes
<1>18. InOrder'
  <2>1. InOrder
    BY DEF Faithful
  <2>2. CASE \E k \in 1..m : b[k].kind = "order"
    <3>1. PICK k \in 1..m : b[k].kind = "order"
      BY <2>2
    <3>2. PICK q \in 1..(n + m) : q \notin 1..n /\ q - n = k /\ q > n
      BY <1>3
    <3>3. Lists(q)'
      BY <1>15, <3>1, <3>2
    <3>4. ASSUME NEW i \in DOMAIN sent', Lists(i)', \A j \in DOMAIN sent' : Lists(j)' => j <= i
          PROVE  sent'[i].order = live'
      <4>1. i >= q
        BY <1>1, <3>2, <3>3, <3>4
      <4>2. i \notin 1..n /\ i - n \in 1..m /\ sent'[i] = b[i - n]
        BY <1>1, <1>2, <3>2, <4>1
      <4>3. b[i - n].kind = "order"
        BY <1>1, <1>15, <3>4, <4>2
      <4>4. QED
        BY <1>1, <4>2, <4>3 DEF Tells
    <3>5. ASSUME NEW i \in DOMAIN sent', NEW c \in Channels, Takes(i, c)'
          PROVE  \E j \in DOMAIN sent' : j > i /\ Lists(j)'
      <4>1. CASE i \in 1..n
        <5>1. q \in DOMAIN sent' /\ q > i
          BY <1>1, <3>2, <4>1
        <5>2. QED
          BY <3>3, <5>1
      <4>2. CASE i \notin 1..n
        <5>1. i - n \in 1..m /\ b[i - n].kind = "removed" /\ b[i - n].path = Chan(c)
          BY <1>1, <1>2, <1>17, <3>5, <4>2
        <5>2. PICK j \in 1..m : j > i - n /\ b[j].kind = "order"
          BY <1>1, <5>1 DEF Tells
        <5>3. PICK q2 \in 1..(n + m) : q2 \notin 1..n /\ q2 - n = j
          BY <1>3
        <5>4. Lists(q2)'
          BY <1>15, <5>2, <5>3
        <5>5. q2 \in DOMAIN sent' /\ q2 > i
          BY <1>1, <5>2, <5>3
        <5>6. QED
          BY <5>4, <5>5
      <4>3. QED
        BY <4>1, <4>2
    <3>6. QED
      BY <1>1, <3>2, <3>3, <3>4, <3>5 DEF InOrder
  <2>3. CASE ~\E k \in 1..m : b[k].kind = "order"
    <3>1. live' = live
      BY <1>1, <2>3 DEF Tells
    <3>2. \A i \in 1..(n + m) : Lists(i)' <=> i \in 1..n /\ Lists(i)
      BY <1>2, <1>14, <1>15, <2>3
    <3>3. ASSUME NEW i \in DOMAIN sent', Lists(i)', \A j \in DOMAIN sent' : Lists(j)' => j <= i
          PROVE  sent'[i].order = live'
      <4>1. i \in 1..(n + m)
        BY <1>1
      <4>2. i \in 1..n /\ Lists(i)
        BY <3>2, <3>3, <4>1
      <4>3. ASSUME NEW j \in 1..n, Lists(j) PROVE j <= i
        <5>1. j \in 1..(n + m)
          BY <1>1
        <5>2. Lists(j)' /\ j \in DOMAIN sent'
          BY <1>1, <3>2, <4>3, <5>1
        <5>3. QED
          BY <3>3, <5>2
      <4>4. QED
        BY <1>1, <2>1, <3>1, <4>2, <4>3 DEF InOrder
    <3>4. ~Open' /\ (\A i \in DOMAIN sent' : ~Lists(i)') => Order' = live'
      BY <1>1, <1>8, <1>9, <2>1, <3>1, <3>2 DEF InOrder
    <3>5. ASSUME NEW i \in DOMAIN sent', NEW c \in Channels, Takes(i, c)'
          PROVE  \E j \in DOMAIN sent' : j > i /\ Lists(j)'
      <4>1. CASE i \in 1..n
        <5>1. Takes(i, c)
          BY <1>16, <3>5, <4>1
        <5>2. PICK j \in 1..n : j > i /\ Lists(j)
          BY <1>1, <2>1, <4>1, <5>1 DEF InOrder
        <5>3. j \in 1..(n + m) /\ Lists(j)'
          BY <1>1, <3>2, <5>2
        <5>4. QED
          BY <1>1, <5>2, <5>3
      <4>2. CASE i \notin 1..n
        <5>1. i - n \in 1..m /\ b[i - n].kind = "removed" /\ b[i - n].path = Chan(c)
          BY <1>1, <1>2, <1>17, <3>5, <4>2
        <5>2. QED
          BY <1>1, <2>3, <5>1 DEF Tells
      <4>3. QED
        BY <4>1, <4>2
    <3>6. QED
      BY <3>3, <3>4, <3>5 DEF InOrder
  <2>4. QED
    BY <2>2, <2>3
<1>19. ASSUME NEW c \in Channels PROVE TakenOff(c)'
  <2> SUFFICES ASSUME c \notin Range(live')
               PROVE  /\ \A i \in DOMAIN sent' : Lists(i)' /\ c \in Range(sent'[i].order) =>
                           \E j \in DOMAIN sent' : j > i /\ Takes(j, c)'
                      /\ ~Open' /\ c \in Range(Order') => \E j \in DOMAIN sent' : Takes(j, c)'
    BY DEF TakenOff
  <2>1. Chan(c) \in Paths /\ Chan(c) \notin objects'
    BY PathsAre DEF Exported
  <2>2. CASE c \in Range(live)
    <3>1. Chan(c) \in objects
      BY <2>2 DEF Faithful, Exported
    <3>2. PICK k \in 1..m : Says(b, k, Chan(c)) /\ b[k].kind = "removed"
      BY <1>1, <2>1, <3>1 DEF Tells
    <3>3. PICK q \in 1..(n + m) : q \notin 1..n /\ q - n = k /\ q > n
      BY <1>3
    <3>4. Takes(q, c)'
      BY <1>17, <3>2, <3>3 DEF Says
    <3>5. ASSUME NEW i \in DOMAIN sent', Lists(i)', c \in Range(sent'[i].order) PROVE i \in 1..n
      <4>1. SUFFICES ASSUME i \notin 1..n PROVE FALSE
        OBVIOUS
      <4>2. i - n \in 1..m /\ sent'[i] = b[i - n] /\ b[i - n].kind = "order"
        BY <1>1, <1>2, <1>15, <3>5, <4>1
      <4>3. QED
        BY <1>1, <3>5, <4>2 DEF Tells
    <3>6. q \in DOMAIN sent' /\ \A i \in 1..n : q > i
      BY <1>1, <3>3
    <3>7. QED
      BY <3>4, <3>5, <3>6
  <2>3. CASE c \notin Range(live)
    <3>1. TakenOff(c)
      BY DEF Faithful
    <3>2. ASSUME NEW i \in DOMAIN sent', Lists(i)', c \in Range(sent'[i].order)
          PROVE  \E j \in DOMAIN sent' : j > i /\ Takes(j, c)'
      <4>1. i \in 1..n
        <5>1. SUFFICES ASSUME i \notin 1..n PROVE FALSE
          OBVIOUS
        <5>2. i - n \in 1..m /\ sent'[i] = b[i - n] /\ b[i - n].kind = "order"
          BY <1>1, <1>2, <1>15, <3>2, <5>1
        <5>3. QED
          BY <1>1, <3>2, <5>2 DEF Tells
      <4>2. Lists(i) /\ sent'[i] = sent[i]
        BY <1>1, <1>14, <3>2, <4>1
      <4>3. PICK j \in 1..n : j > i /\ Takes(j, c)
        BY <1>1, <2>3, <3>1, <3>2, <4>1, <4>2 DEF TakenOff
      <4>4. j \in 1..(n + m) /\ Takes(j, c)'
        BY <1>1, <1>16, <4>3
      <4>5. QED
        BY <1>1, <4>3, <4>4
    <3>3. ASSUME ~Open', c \in Range(Order') PROVE \E j \in DOMAIN sent' : Takes(j, c)'
      <4>1. PICK j \in 1..n : Takes(j, c)
        BY <1>1, <1>8, <1>9, <2>3, <3>1, <3>3 DEF TakenOff
      <4>2. j \in 1..(n + m) /\ Takes(j, c)'
        BY <1>1, <1>16, <4>1
      <4>3. QED
        BY <1>1, <4>2
    <3>4. QED
      BY <3>2, <3>3
  <2>4. QED
    BY <2>2, <2>3
<1>20. QED
  BY <1>10, <1>13, <1>18, <1>19 DEF Faithful

LEMMA WantedIs ==
  ASSUME NEW lay \in Orders, NEW liv \in Orders
  PROVE  /\ Wanted(lay, liv) \in SUBSET Paths
         /\ \A c \in Channels : Chan(c) \in Wanted(lay, liv) <=> c \in Range(liv)
<1>1. Range(lay) \subseteq Channels /\ Range(liv) \subseteq Channels
  BY OrderIs
<1>2. QED
  BY <1>1, PathsAre DEF Wanted

\* What a command says after that: replies, or words on objects that stay, and of those
\* every one whose value it changed.
Replies(first, want, val) ==
  \A i \in DOMAIN first : \/ first[i].kind = "reply"
                           \/ \E p \in objects \cap want : first[i] = Added(p, val[p])
Covers(first, want, val) ==
  \A p \in objects \cap want :
    \/ \E i \in DOMAIN first : first[i] = Added(p, val[p])
    \/ p \in silent' \/ (p \notin silent /\ val[p] = value[p])

\* No call is served, but perhaps others come.
Calling == \A p \in Paths : Asked(p) => Asked(p)'

LEMMA Publishing ==
  ASSUME TypeOK, Faithful, up, up', NEW want \in SUBSET Paths, NEW liv \in Orders,
         NEW val \in [Paths -> Accepted], NEW first \in Seq(Messages),
         Replies(first, want, val), Covers(first, want, val),
         \A c \in Channels : Chan(c) \in want <=> c \in Range(liv),
         sent' = sent \o Published(want, val, liv) \o first,
         objects' = want, live' = liv, value' = val,
         UNCHANGED client, Calling
  PROVE  Faithful' /\ sent' \in Seq(Messages)
<1>3. objects \in SUBSET Paths
  BY DEF TypeOK
<1>4. PICK front \in Seq(Messages) :
        /\ Published(want, val, liv) = front \o <<Listed(liv)>>
        /\ Range(front) = {Removed(p) : p \in objects \ want}
                            \cup {Added(p, val[p]) : p \in want \ objects}
  BY <1>3, PublishedIs
<1>5. PICK list : list = <<Listed(liv)>>
  OBVIOUS
<1>6. PICK pub : pub = front \o list
  OBVIOUS
<1>7. PICK b : b = pub \o first
  OBVIOUS
<1>8. sent' = sent \o b
  <2>1. sent' = sent \o pub \o first
    BY <1>4, <1>5, <1>6
  <2>2. sent \in Seq(Messages) /\ pub \in Seq(Messages)
    <3>1. list \in Seq(Messages)
      BY <1>5, MessagesAre
    <3>2. QED
      BY <1>6, <3>1, Concat DEF TypeOK
  <2>3. QED
    BY <1>7, <2>1, <2>2, ConcatAssociative
<1>10. /\ list \in Seq(Messages) /\ Len(list) = 1 /\ DOMAIN list = {1}
       /\ list[1] = Listed(liv) /\ Range(list) = {Listed(liv)}
  BY <1>5, MessagesAre DEF Range
<1>11. /\ pub \in Seq(Messages) /\ Len(pub) = Len(front) + 1 /\ Len(front) \in Nat
       /\ Range(pub) = Range(front) \cup {Listed(liv)}
       /\ \A i \in 1..Len(front) : pub[i] = front[i]
       /\ pub[Len(front) + 1] = Listed(liv)
  <2>1. /\ pub \in Seq(Messages) /\ Len(pub) = Len(front) + Len(list)
        /\ Range(pub) = Range(front) \cup Range(list)
        /\ \A i \in 1..Len(front) : pub[i] = front[i]
        /\ \A i \in 1..Len(list) : pub[i + Len(front)] = list[i]
    <3>1. front \in Seq(Messages) /\ list \in Seq(Messages)
      BY <1>10
    <3>2. QED
      BY <1>6, <3>1, Concat
  <2>2. Len(front) \in Nat /\ 1 + Len(front) = Len(front) + 1
    OBVIOUS
  <2>3. pub[1 + Len(front)] = list[1]
    BY <1>10, <2>1
  <2>4. QED
    BY <1>10, <2>1, <2>2, <2>3
<1>12. PICK l \in Nat : l = Len(pub)
  BY <1>11
<1>13. /\ b \in Seq(Messages) /\ Range(b) = Range(pub) \cup Range(first)
       /\ l \in DOMAIN b /\ b[l] = Listed(liv)
       /\ \A i \in DOMAIN b : i < l => b[i] \in Range(front)
       /\ \A i \in DOMAIN b : i > l => b[i] \in Range(first)
       /\ \A x \in Range(first) : \E i \in DOMAIN b : b[i] = x
  <2>1. /\ b \in Seq(Messages) /\ Len(b) = Len(pub) + Len(first)
        /\ Range(b) = Range(pub) \cup Range(first)
        /\ \A i \in 1..Len(pub) : b[i] = pub[i]
        /\ \A i \in 1..Len(first) : b[i + Len(pub)] = first[i]
    <3>1. pub \in Seq(Messages) /\ first \in Seq(Messages)
      BY <1>11
    <3>2. QED
      BY <1>7, <3>1, Concat
  <2>2. Len(first) \in Nat /\ DOMAIN b = 1..(l + Len(first)) /\ l > 0
    BY <1>11, <1>12, <2>1
  <2>3. l \in DOMAIN b /\ b[l] = Listed(liv)
    BY <1>11, <1>12, <2>1, <2>2
  <2>4. ASSUME NEW i \in DOMAIN b, i < l PROVE b[i] \in Range(front)
    <3>1. i \in 1..Len(front) /\ b[i] = front[i]
      BY <1>11, <1>12, <2>1, <2>2, <2>4
    <3>2. QED
      BY <3>1 DEF Range
  <2>5. ASSUME NEW i \in DOMAIN b, i > l PROVE b[i] \in Range(first)
    <3>1. i - l \in 1..Len(first) /\ (i - l) + l = i
      BY <1>12, <2>2, <2>5
    <3>2. b[i] = first[i - l]
      BY <1>12, <2>1, <3>1
    <3>3. QED
      BY <3>1, <3>2 DEF Range
  <2>6. ASSUME NEW x \in Range(first) PROVE \E i \in DOMAIN b : b[i] = x
    <3>1. x \in Range(b)
      BY <2>1
    <3>2. QED
      BY <3>1 DEF Range
  <2>7. QED
    BY <2>1, <2>3, <2>4, <2>5, <2>6
<1>14. ASSUME NEW x \in Range(front)
       PROVE  \/ \E p \in objects \ want : x = [kind |-> "removed", path |-> p]
              \/ \E p \in want \ objects : x = [kind |-> "props", path |-> p, value |-> val[p]]
  BY <1>4 DEF Removed, Added
<1>15. ASSUME NEW i \in DOMAIN b
       PROVE  \/ i < l /\ b[i] \in Range(front)
              \/ i = l /\ b[i] = [kind |-> "order", order |-> liv]
              \/ i > l /\ b[i].kind = "reply"
              \/ i > l /\ \E p \in objects \cap want :
                           b[i] = [kind |-> "props", path |-> p, value |-> val[p]]
  <2>1. \A x \in Range(first) :
          \/ x.kind = "reply"
          \/ \E p \in objects \cap want : x = [kind |-> "props", path |-> p, value |-> val[p]]
    BY DEF Range, Added, Replies
  <2>2. QED
    BY <1>12, <1>13, <2>1 DEF Listed
<1>16. Tells(b)
  <2>1. \A i \in DOMAIN b : b[i].kind \notin {"owner", "gone"}
    BY <1>14, <1>15
  <2>2. ASSUME NEW i \in DOMAIN b, NEW p \in Paths, Says(b, i, p)
        PROVE  IF p \in objects' THEN b[i].kind = "props" /\ (b[i].value = value'[p] \/ p \in silent')
                                 ELSE b[i].kind = "removed"
    <3>1. CASE i < l /\ b[i] \in Range(front)
      BY <1>14, <2>2, <3>1 DEF Says
    <3>2. CASE \E q \in objects \cap want :
                 b[i] = [kind |-> "props", path |-> q, value |-> val[q]]
      BY <2>2, <3>2 DEF Says
    <3>3. QED
      BY <1>15, <2>2, <3>1, <3>2 DEF Says
  <2>3. ASSUME NEW p \in Paths, \A i \in DOMAIN b : ~Says(b, i, p)
        PROVE  /\ p \in objects' <=> p \in objects
               /\ p \in objects' => p \in silent' \/ (p \notin silent /\ value'[p] = value[p])
    <3>1. p \notin objects \ want
      <4>1. SUFFICES ASSUME p \in objects \ want PROVE FALSE
        OBVIOUS
      <4>2. Removed(p) \in Range(b)
        BY <1>4, <1>11, <1>13, <4>1
      <4>3. PICK i \in DOMAIN b : b[i] = Removed(p)
        BY <4>2 DEF Range
      <4>4. Says(b, i, p)
        BY <4>3 DEF Says, Removed
      <4>5. QED
        BY <2>3, <4>4
    <3>2. p \notin want \ objects
      <4>1. SUFFICES ASSUME p \in want \ objects PROVE FALSE
        OBVIOUS
      <4>2. Added(p, val[p]) \in Range(b)
        BY <1>4, <1>11, <1>13, <4>1
      <4>3. PICK i \in DOMAIN b : b[i] = Added(p, val[p])
        BY <4>2 DEF Range
      <4>4. QED
        BY <2>3, <4>3 DEF Says, Added
    <3>3. \A i \in DOMAIN first : first[i] # Added(p, val[p])
      <4>1. SUFFICES ASSUME NEW i \in DOMAIN first, first[i] = Added(p, val[p]) PROVE FALSE
        OBVIOUS
      <4>2. Added(p, val[p]) \in Range(first)
        BY <4>1 DEF Range
      <4>3. PICK k \in DOMAIN b : b[k] = Added(p, val[p])
        BY <1>13, <4>2
      <4>4. QED
        BY <2>3, <4>3 DEF Says, Added
    <3>4. QED
      BY <3>1, <3>2, <3>3 DEF Covers
  <2>4. \A i \in DOMAIN b : b[i].kind = "order" => b[i].order = live'
    BY <1>14, <1>15
  <2>5. l \in DOMAIN b /\ b[l].kind = "order"
    BY <1>13 DEF Listed
  <2>6. ASSUME NEW i \in DOMAIN b, b[i].kind = "removed" PROVE l > i
    BY <1>12, <1>15, <2>6
  <2>7. QED
    BY <1>13, <2>1, <2>2, <2>3, <2>4, <2>5, <2>6 DEF Tells
<1>17. Exported'
  BY DEF Exported
<1>18. Faithful'
  BY <1>8, <1>16, <1>17, Broadcast DEF Untouched, Calling
<1>19. sent' \in Seq(Messages)
  BY <1>8, <1>13, Concat DEF TypeOK
<1>20. QED
  BY <1>18, <1>19

\* layoutChanged, and a reply after it.
LEMMA Announced ==
  ASSUME TypeOK, Faithful, up, up', NEW lay \in Orders, NEW liv \in Orders,
         NEW val \in [Paths -> Accepted], NEW first \in Seq(Messages),
         \A i \in DOMAIN first : first[i].kind = "reply",
         LayoutChanged(lay, liv, val, first), live' = liv, value' = val,
         \A p \in objects \cap Wanted(lay, liv) : val[p] = value[p],
         UNCHANGED client,
         \A p \in Paths : Asked(p) => Asked(p)'
  PROVE  Faithful' /\ objects' \subseteq Paths /\ silent' \subseteq Paths /\ sent' \in Seq(Messages)
<1>1. PICK want : want = Wanted(lay, liv)
  OBVIOUS
<1>2. want \in SUBSET Paths /\ \A c \in Channels : Chan(c) \in want <=> c \in Range(liv)
  BY <1>1, WantedIs
<1>3. /\ objects' = want /\ silent' = silent \cap objects \cap want
      /\ sent' = sent \o Published(want, val, liv) \o first
  BY <1>1 DEF LayoutChanged
<1>4. Replies(first, want, val) /\ Covers(first, want, val) /\ Calling
  BY <1>1, <1>3 DEF Replies, Covers, Calling
<1>5. Faithful' /\ sent' \in Seq(Messages)
  BY <1>2, <1>3, <1>4, Publishing
<1>6. QED
  BY <1>2, <1>3, <1>5
-----------------------------------------------------------------------------
(* The steps of the daemon                                                 *)

DaemonTyped ==
  /\ {up, pw, due} \subseteq BOOLEAN /\ {layout, live} \subseteq Orders
  /\ sink \in [Channels -> SinkStates] /\ value \in [Paths -> Accepted]
  /\ leaving \subseteq Channels /\ objects \subseteq Paths /\ silent \subseteq Paths
  /\ sent \in Seq(Messages)
ClientTyped ==
  /\ {waiting, available} \subseteq BOOLEAN /\ order \in Orders
  /\ calls \in Seq(Requests) /\ answer \in Answers \cup {None, Refused}
  /\ mirror \in [Paths -> Accepted \cup {Refused, None}]
CountsTyped == events \in 0..MaxEvents /\ faults \in 0..MaxFaults /\ edits \in 0..MaxEdits

LEMMA Types == TypeOK <=> DaemonTyped /\ ClientTyped /\ CountsTyped
BY DEF TypeOK, DaemonTyped, ClientTyped, CountsTyped

LEMMA NextTypes == DaemonTyped' /\ ClientTyped' /\ CountsTyped' => TypeOK'
BY DEF TypeOK, DaemonTyped, ClientTyped, CountsTyped

LEMMA NothingSaid ==
  ASSUME IInv, up, UNCHANGED <<up, live, value, objects, sent, client>>,
         silent \subseteq silent',
         \A p \in Paths : Asked(p) => Asked(p)' \/ p \in silent'
  PROVE  Faithful'
<1>1. PICK b : b = <<>>
  OBVIOUS
<1>2. sent \in Seq(Messages)
  BY DEF IInv, TypeOK
<1>3. sent' = sent \o b
  BY <1>1, <1>2
<1>4. b \in Seq(Messages) /\ DOMAIN b = {}
  BY <1>1
<1>5. Tells(b)
  BY <1>4 DEF Tells
<1>6. Exported'
  BY DEF IInv, Faithful, Exported
<1>7. QED
  BY <1>3, <1>4, <1>5, <1>6, Broadcast DEF IInv, Untouched

LEMMA RequestedType ==
  ASSUME NEW lay, NEW snk \in [Channels -> SinkStates]
  PROVE  Requested(lay, snk) \in [Channels -> SinkStates]
BY DEF Requested, SinkStates

LEMMA ReconcileStep ==
  ASSUME IInv, Reconcile
  PROVE  IInv'
<1>1. TypeOK /\ DaemonTyped /\ ClientTyped /\ CountsTyped
  BY Types DEF IInv
<1>2. layout \in Orders /\ live \in Orders
  BY <1>1 DEF DaemonTyped
<1>3. PICK lay : lay = layout
  OBVIOUS
<1>4. PICK liv : liv = Reconciled(lay, live)
  OBVIOUS
<1>5. liv \in Orders
  BY <1>2, <1>3, <1>4, JoinedIs DEF Reconciled
<1>6. PICK val : val = value
  OBVIOUS
<1>7. PICK first : first = <<>>
  OBVIOUS
<1>8. LayoutChanged(lay, liv, val, first) /\ live' = liv /\ value' = val /\ up /\ up'
  BY <1>3, <1>4, <1>6, <1>7 DEF Reconcile
<1>9. Faithful' /\ objects' \subseteq Paths /\ silent' \subseteq Paths /\ sent' \in Seq(Messages)
  <2>1. /\ val \in [Paths -> Accepted] /\ lay \in Orders
        /\ first \in Seq(Messages) /\ DOMAIN first = {}
    BY <1>1, <1>2, <1>3, <1>6, <1>7 DEF DaemonTyped
  <2>2. UNCHANGED client /\ \A p \in Paths : Asked(p) => Asked(p)'
    BY DEF Reconcile, Asked
  <2>3. QED
    BY <1>1, <1>5, <1>6, <1>7, <1>8, <2>1, <2>2, Announced DEF IInv
<1>10. sink' \in [Channels -> SinkStates]
  BY <1>1, RequestedType DEF Reconcile, DaemonTyped
<1>11. DaemonTyped'
  BY <1>1, <1>5, <1>8, <1>9, <1>10 DEF DaemonTyped, Reconcile
<1>12. ClientTyped' /\ CountsTyped'
  BY <1>1 DEF ClientTyped, CountsTyped, Reconcile, client, counts
<1>13. OneSnapshot'
  BY DEF IInv, OneSnapshot, Reconcile, client
<1>14. QED
  BY <1>9, <1>11, <1>12, <1>13, NextTypes DEF IInv

\* The commands, as another frontend gives them or as a call served.
LEMMA AddChannelStep ==
  ASSUME IInv, up, NEW c \in Channels, NEW reply \in Seq(Messages),
         \A i \in DOMAIN reply : reply[i].kind = "reply",
         AddChannel(c, reply), UNCHANGED client, Calling
  PROVE  Faithful' /\ DaemonTyped'
<1>1. TypeOK /\ DaemonTyped
  BY Types DEF IInv
<1>2. CASE c \in Range(layout)
  <2>1. UNCHANGED <<daemon, sent, silent>>
    BY <1>2 DEF AddChannel
  <2>2. Faithful'
    BY <2>1, NothingSaid DEF Calling, daemon
  <2>3. QED
    BY <1>1, <2>1, <2>2 DEF DaemonTyped, daemon
<1>3. CASE c \notin Range(layout) /\ pw
  <2>1. PICK lay : lay = Append(layout, c)
    OBVIOUS
  <2>2. lay \in Orders
    BY <1>1, <1>3, <2>1, Appended DEF DaemonTyped
  <2>3. PICK liv : liv = Reconciled(lay, live)
    OBVIOUS
  <2>4. liv \in Orders
    BY <1>1, <2>2, <2>3, JoinedIs DEF Reconciled, DaemonTyped
  <2>5. PICK val : val = value
    OBVIOUS
  <2>6. /\ LayoutChanged(lay, liv, val, reply) /\ live' = liv /\ value' = val /\ up /\ up'
        /\ layout' = lay /\ sink' = Requested(lay, sink)
        /\ UNCHANGED <<up, pw, due, leaving>>
    BY <1>3, <2>1, <2>3, <2>5 DEF AddChannel
  <2>7. val \in [Paths -> Accepted]
    BY <1>1, <2>5 DEF DaemonTyped
  <2>8. Faithful' /\ objects' \subseteq Paths /\ silent' \subseteq Paths /\ sent' \in Seq(Messages)
    BY <1>1, <2>2, <2>4, <2>5, <2>6, <2>7, Announced DEF IInv, Calling
  <2>9. sink' \in [Channels -> SinkStates]
    BY <1>1, <2>6, RequestedType DEF DaemonTyped
  <2>10. QED
    BY <1>1, <2>2, <2>4, <2>6, <2>7, <2>8, <2>9 DEF DaemonTyped
<1>4. CASE c \notin Range(layout) /\ ~pw
  <2>1. /\ layout' = Append(layout, c) /\ sent' = sent \o reply
        /\ UNCHANGED <<live, sink, objects, silent, up, pw, due, leaving, value>>
    BY <1>4 DEF AddChannel
  <2>2. layout' \in Orders
    BY <1>1, <1>4, <2>1, Appended DEF DaemonTyped
  <2>3. Tells(reply)
    BY <2>1 DEF Tells, Says
  <2>4. Exported'
    BY <2>1 DEF IInv, Faithful, Exported
  <2>5. Faithful'
    BY <1>1, <2>1, <2>3, <2>4, Broadcast DEF IInv, Untouched, Calling
  <2>6. sent' \in Seq(Messages)
    BY <1>1, <2>1, Concat DEF DaemonTyped
  <2>7. QED
    BY <1>1, <2>1, <2>2, <2>5, <2>6 DEF DaemonTyped
<1>5. QED
  BY <1>2, <1>3, <1>4

LEMMA RemoveChannelStep ==
  ASSUME IInv, up, NEW c \in Channels, RemoveChannel(c), UNCHANGED client, Calling
  PROVE  Faithful' /\ DaemonTyped'
<1>1. TypeOK /\ DaemonTyped
  BY Types DEF IInv
<1>2. CASE c \notin Range(layout)
  <2>1. UNCHANGED <<daemon, sent, silent>>
    BY <1>2 DEF RemoveChannel
  <2>2. Faithful'
    BY <2>1, NothingSaid DEF Calling, daemon
  <2>3. QED
    BY <1>1, <2>1, <2>2 DEF DaemonTyped, daemon
<1>3. CASE c \in Range(layout)
  <2>1. PICK lay : lay = RemoveFirst(layout, c)
    OBVIOUS
  <2>2. PICK liv : liv = RemoveFirst(live, c)
    OBVIOUS
  <2>3. lay \in Orders /\ liv \in Orders /\ Range(liv) = Range(live) \ {c}
    BY <1>1, <2>1, <2>2, Without DEF DaemonTyped
  <2>4. PICK val : val = [value EXCEPT ![Chan(c)] = 0, ![Cell(c)] = 0]
    OBVIOUS
  <2>5. PICK first : first = <<>>
    OBVIOUS
  <2>6. /\ LayoutChanged(lay, liv, val, first) /\ live' = liv /\ value' = val /\ up /\ up'
        /\ layout' = lay /\ UNCHANGED <<pw, due, leaving>>
        /\ sink' = [sink EXCEPT ![c] = IF Seen(c) THEN "doomed" ELSE @]
    BY <1>3, <2>1, <2>2, <2>4, <2>5 DEF RemoveChannel
  <2>7. val \in [Paths -> Accepted] /\ first \in Seq(Messages) /\ DOMAIN first = {}
    <3>1. 0 \in Accepted /\ value \in [Paths -> Accepted]
      BY <1>1, ClientAssumption DEF DaemonTyped
    <3>2. val \in [Paths -> Accepted]
      BY <2>4, <3>1
    <3>3. QED
      BY <2>5, <3>2
  <2>8. \A p \in objects \cap Wanted(lay, liv) : val[p] = value[p]
    <3>1. Chan(c) \notin Wanted(lay, liv) /\ Cell(c) \notin Wanted(lay, liv)
      BY <2>3 DEF Wanted, Chan, Cell
    <3>2. QED
      BY <1>1, <2>4, <3>1 DEF DaemonTyped
  <2>9. Faithful' /\ objects' \subseteq Paths /\ silent' \subseteq Paths /\ sent' \in Seq(Messages)
    BY <1>1, <2>3, <2>6, <2>7, <2>8, Announced DEF IInv, Calling
  <2>10. sink' \in [Channels -> SinkStates]
    BY <1>1, <2>6 DEF DaemonTyped, SinkStates
  <2>11. QED
    BY <1>1, <2>3, <2>6, <2>7, <2>9, <2>10 DEF DaemonTyped
<1>4. QED
  BY <1>2, <1>3

LEMMA MovedIs ==
  ASSUME NEW s \in Orders, NEW c \in Range(s), NEW index \in Nat \ {0}
  PROVE  InsertAt(RemoveFirst(s, c), IF index < Len(s) THEN index ELSE Len(s), c) \in Orders
<1>1. RemoveFirst(s, c) \in Orders /\ c \notin Range(RemoveFirst(s, c))
      /\ Len(RemoveFirst(s, c)) = Len(s) - 1
  BY Without
<1>2. Len(s) \in Nat /\ Len(s) > 0 /\ c \in Channels
  BY OrderIs DEF Range
<1>3. (IF index < Len(s) THEN index ELSE Len(s)) \in 1..(Len(RemoveFirst(s, c)) + 1)
  BY <1>1, <1>2
<1>4. QED
  BY <1>1, <1>2, <1>3, Inserted

LEMMA MoveChannelStep ==
  ASSUME IInv, up, NEW c \in Channels, NEW index \in 1..Len(layout), MoveChannel(c, index),
         UNCHANGED client, Calling
  PROVE  Faithful' /\ DaemonTyped'
<1>1. TypeOK /\ DaemonTyped
  BY Types DEF IInv
<1>2. CASE c \notin Range(layout)
  <2>1. UNCHANGED <<daemon, sent, silent>>
    BY <1>2 DEF MoveChannel
  <2>2. Faithful'
    BY <2>1, NothingSaid DEF Calling, daemon
  <2>3. QED
    BY <1>1, <2>1, <2>2 DEF DaemonTyped, daemon
<1>3. CASE c \in Range(layout)
  <2> DEFINE Moved(s) == IF c \in Range(s)
                      THEN InsertAt(RemoveFirst(s, c),
                                    IF index < Len(s) THEN index ELSE Len(s), c)
                      ELSE s
  <2>1. PICK lay : lay = Moved(layout)
    OBVIOUS
  <2>2. PICK liv : liv = Moved(live)
    OBVIOUS
  <2>3. index \in Nat \ {0}
    BY <1>1, OrderIs DEF DaemonTyped
  <2>4. lay \in Orders /\ liv \in Orders
    BY <1>1, <2>1, <2>2, <2>3, MovedIs DEF DaemonTyped
  <2>5. PICK val : val = value
    OBVIOUS
  <2>6. PICK first : first = <<>>
    OBVIOUS
  <2>7. /\ LayoutChanged(lay, liv, val, first) /\ live' = liv /\ value' = val /\ up /\ up'
        /\ layout' = lay /\ UNCHANGED <<pw, due, sink, leaving>>
    BY <1>3, <2>1, <2>2, <2>5, <2>6 DEF MoveChannel
  <2>8. val \in [Paths -> Accepted] /\ first \in Seq(Messages) /\ DOMAIN first = {}
    BY <1>1, <2>5, <2>6 DEF DaemonTyped
  <2>9. Faithful' /\ objects' \subseteq Paths /\ silent' \subseteq Paths /\ sent' \in Seq(Messages)
    BY <1>1, <2>4, <2>5, <2>7, <2>8, Announced DEF IInv, Calling
  <2>10. QED
    BY <1>1, <2>4, <2>7, <2>8, <2>9 DEF DaemonTyped
<1>4. QED
  BY <1>2, <1>3

\* A property set: what is taken is announced, what is refused is only logged.
LEMMA SetValueStep ==
  ASSUME IInv, up, NEW p \in Paths, NEW v, SetValue(p, v), UNCHANGED client,
         \A q \in Paths : Asked(q) => Asked(q)' \/ q = p
  PROVE  Faithful' /\ DaemonTyped'
<1>1. TypeOK /\ DaemonTyped
  BY Types DEF IInv
<1>2. CASE p \in objects /\ v \in Accepted /\ ChannelOf(p) \in Range(layout)
  <2>1. /\ value' = [value EXCEPT ![p] = v] /\ sent' = Append(sent, Added(p, v))
        /\ silent' = silent \ {p}
        /\ UNCHANGED <<up, pw, due, layout, live, sink, leaving, objects>>
    BY <1>2 DEF SetValue
  <2>2. PICK b : b = <<Added(p, v)>>
    OBVIOUS
  <2>3. /\ b \in Seq(Messages) /\ DOMAIN b = {1}
        /\ b[1] = [kind |-> "props", path |-> p, value |-> v]
    BY <1>2, <2>2, MessagesAre DEF Added
  <2>4. sent' = sent \o b
    BY <1>1, <2>1, <2>2 DEF DaemonTyped
  <2>5. value'[p] = v /\ \A q \in Paths : q # p => value'[q] = value[q]
    BY <1>1, <2>1 DEF DaemonTyped
  <2>6. Says(b, 1, p) /\ \A q \in Paths : Says(b, 1, q) => q = p
    BY <2>3 DEF Says
  <2>7. Tells(b)
    <3>1. \A q \in Paths : Says(b, 1, q) =>
            q \in objects' /\ b[1].kind = "props" /\ b[1].value = value'[q]
      BY <1>2, <2>1, <2>3, <2>5, <2>6
    <3>2. \A q \in Paths : q # p => (q \in silent' <=> q \in silent)
      BY <2>1
    <3>3. QED
      BY <2>1, <2>3, <2>5, <2>6, <3>1, <3>2 DEF Tells
  <2>8. Exported'
    BY <2>1 DEF IInv, Faithful, Exported
  <2>9. Untouched(b)
    BY <2>3, <2>6 DEF Untouched
  <2>10. Faithful'
    BY <1>1, <2>1, <2>4, <2>7, <2>8, <2>9, Broadcast DEF IInv
  <2>11. sent' \in Seq(Messages)
    BY <1>1, <2>3, <2>4, Concat DEF DaemonTyped
  <2>12. value' \in [Paths -> Accepted]
    BY <1>1, <1>2, <2>1 DEF DaemonTyped
  <2>13. QED
    BY <1>1, <2>1, <2>10, <2>11, <2>12 DEF DaemonTyped
<1>3. CASE ~(p \in objects /\ v \in Accepted /\ ChannelOf(p) \in Range(layout))
  <2>1. silent' = silent \cup {p} /\ UNCHANGED <<daemon, sent>>
    BY <1>3 DEF SetValue
  <2>2. Faithful'
    BY <2>1, NothingSaid DEF daemon
  <2>3. QED
    BY <1>1, <2>1, <2>2 DEF DaemonTyped, daemon
<1>4. QED
  BY <1>2, <1>3

\* A snapshot is what the daemon has, whatever else is on its way.
LEMMA SnapshotStep ==
  ASSUME IInv, up, waiting, answer = None, answer' = ManagedObjects,
         UNCHANGED <<daemon, sent, waiting, available, mirror, order>>,
         silent' = {p \in silent : \E i \in DOMAIN sent :
                      sent[i].kind = "props" /\ sent[i].path = p}
  PROVE  Faithful' /\ DaemonTyped' /\ answer' \in Answers
<1>1. TypeOK /\ DaemonTyped
  BY Types DEF IInv
<1>2. /\ answer' \in Answers /\ answer'.order = live
      /\ \A p \in Paths : answer'.values[p] = IF p \in objects THEN value[p] ELSE None
  BY <1>1 DEF ManagedObjects, Answers, DaemonTyped
<1>3. UNCHANGED <<up, objects, live, value, sent, waiting>>
  BY DEF daemon
<1>4. \A i \in DOMAIN sent : /\ IsOwner(i)' <=> IsOwner(i)
                             /\ Current(i)' <=> Current(i)
                             /\ Lists(i)' <=> Lists(i)
  BY <1>3 DEF IsOwner, Current, Lists
<1>5. \A i \in DOMAIN sent : /\ \A p \in Paths : About(i, p)' <=> About(i, p)
                             /\ \A c \in Channels : Takes(i, c)' <=> Takes(i, c)
  BY <1>3, <1>4 DEF About, Takes
<1>6. (OwnerDue' <=> OwnerDue) /\ (~Open' => ~OwnerDue)
  BY <1>3, <1>4 DEF OwnerDue, Open
<1>7. Exported'
  BY <1>3 DEF IInv, Faithful, Exported
<1>8. Connected'
  <2>1. answer' # Refused
    BY <1>2, ClientAssumption
  <2>2. QED
    BY <1>3, <1>4, <1>6, <2>1 DEF IInv, Faithful, Connected
<1>9. Order' = live /\ Mirror' = answer'.values
  BY <1>2, <1>3 DEF Order, Mirror
<1>10. InOrder'
  <2>1. InOrder
    BY DEF IInv, Faithful
  <2>2. QED
    BY <1>3, <1>4, <1>5, <1>9, <2>1 DEF InOrder
<1>11. ASSUME NEW p \in Paths PROVE Spoken(p)' /\ Kept(p)'
  <2>1. Spoken(p)
    BY DEF IInv, Faithful
  <2>2. ASSUME NEW i \in DOMAIN sent, LastWord(i, p)'
        PROVE  IF p \in objects' THEN sent'[i].kind = "props" /\ (sent'[i].value = value'[p] \/ p \in silent')
                                 ELSE sent'[i].kind = "removed"
    <3>1. LastWord(i, p)
      BY <1>3, <1>4, <1>5, <2>2 DEF LastWord
    <3>2. sent[i].path = p
      BY <3>1 DEF LastWord, About
    <3>3. QED
      BY <1>3, <2>1, <3>1, <3>2 DEF Spoken
  <2>3. Spoken(p)'
    BY <1>3, <2>2 DEF Spoken
  <2>4. p \in objects => value[p] # None
    BY <1>1, ClientAssumption DEF DaemonTyped
  <2>5. Kept(p)'
    BY <1>2, <1>3, <1>9, <2>4 DEF Kept
  <2>6. QED
    BY <2>3, <2>5
<1>12. ASSUME NEW c \in Channels PROVE TakenOff(c)'
  <2>1. TakenOff(c)
    BY DEF IInv, Faithful
  <2>2. QED
    BY <1>3, <1>4, <1>5, <1>9, <2>1 DEF TakenOff
<1>13. DaemonTyped'
  BY <1>1 DEF DaemonTyped, daemon
<1>14. QED
  BY <1>2, <1>7, <1>8, <1>10, <1>11, <1>12, <1>13 DEF Faithful

LEMMA HandleCallStep ==
  ASSUME IInv, HandleCall
  PROVE  IInv'
<1>1. TypeOK /\ DaemonTyped /\ ClientTyped /\ CountsTyped
  BY Types DEF IInv
<1>2. up /\ calls # <<>> /\ calls' = Tail(calls)
      /\ UNCHANGED <<waiting, available, mirror, order, counts>>
  BY DEF HandleCall
<1>3. PICK call : call = Head(calls)
  OBVIOUS
<1>4. PICK n \in Nat : n = Len(calls)
  BY <1>1 DEF ClientTyped
<1>5. /\ n > 0 /\ DOMAIN calls = 1..n /\ call = calls[1] /\ call \in Requests
      /\ DOMAIN calls' = 1..(n - 1) /\ calls' \in Seq(Requests)
      /\ \A i \in 1..(n - 1) : calls'[i] = calls[i + 1]
  BY <1>1, <1>2, <1>3, <1>4 DEF ClientTyped
<1>6. ASSUME NEW p \in Paths, Asked(p) PROVE Asked(p)' \/ (call.op = "set" /\ call.arg = p)
  <2>1. PICK i \in 1..n : calls[i].op = "set" /\ calls[i].arg = p
    BY <1>5, <1>6 DEF Asked
  <2>2. CASE i = 1
    BY <1>5, <2>1, <2>2
  <2>3. CASE i # 1
    <3>1. i - 1 \in 1..(n - 1) /\ calls'[i - 1] = calls[i]
      BY <1>5, <2>3
    <3>2. PICK j \in DOMAIN calls' : calls'[j] = calls[i]
      BY <1>5, <3>1
    <3>3. QED
      BY <2>1, <3>2 DEF Asked
  <2>4. QED
    BY <2>2, <2>3
<1>7. ASSUME NEW i \in DOMAIN calls', calls'[i].op = "managed"
      PROVE  /\ waiting /\ answer = None /\ call.op # "managed"
             /\ \A j \in DOMAIN calls' : calls'[j].op = "managed" => j = i
  <2>1. i + 1 \in 1..n /\ i + 1 # 1 /\ calls[i + 1].op = "managed"
    BY <1>5, <1>7
  <2>2. /\ waiting /\ answer = None
        /\ \A j \in 1..n : calls[j].op = "managed" => j = i + 1
    BY <1>5, <2>1 DEF IInv, OneSnapshot
  <2>3. call.op # "managed"
    BY <1>5, <2>1, <2>2
  <2>4. ASSUME NEW j \in 1..(n - 1), calls'[j].op = "managed" PROVE j = i
    <3>1. j + 1 \in 1..n /\ calls[j + 1].op = "managed"
      BY <1>5, <2>4
    <3>2. j + 1 = i + 1
      BY <2>2, <3>1
    <3>3. QED
      BY <1>5, <3>2
  <2>5. QED
    BY <1>5, <2>2, <2>3, <2>4
<1>8. CountsTyped'
  BY <1>1, <1>2 DEF CountsTyped, counts
<1>9. ASSUME UNCHANGED answer PROVE OneSnapshot' /\ ClientTyped' /\ UNCHANGED client
  <2>1. OneSnapshot'
    BY <1>2, <1>7, <1>9 DEF IInv, OneSnapshot
  <2>2. QED
    BY <1>1, <1>2, <1>5, <1>9, <2>1 DEF ClientTyped, client
<1>10. call.op # "set" => Calling
  BY <1>6 DEF Calling
<1>11. CASE call.op = "add"
  <2>1. PICK reply : reply = <<>>
    OBVIOUS
  <2>2. AddChannel(call.arg, reply) /\ UNCHANGED answer
    BY <1>3, <1>11, <2>1 DEF HandleCall
  <2>3. call.arg \in Channels /\ reply \in Seq(Messages) /\ DOMAIN reply = {}
    BY <1>5, <1>11, <2>1 DEF Requests
  <2>4. Faithful' /\ DaemonTyped'
    BY <1>2, <1>9, <1>10, <1>11, <2>2, <2>3, AddChannelStep
  <2>5. QED
    BY <1>8, <1>9, <2>2, <2>4, NextTypes DEF IInv
<1>12. CASE call.op = "addWithSource"
  <2>1. call.arg \in Channels
    BY <1>5, <1>12 DEF Requests
  <2>2. PICK reply : reply = <<[kind |-> "reply", channel |-> call.arg]>>
    OBVIOUS
  <2>3. AddChannel(call.arg, reply) /\ UNCHANGED answer
    BY <1>3, <1>12, <2>2 DEF HandleCall
  <2>4. /\ reply \in Seq(Messages) /\ \A i \in DOMAIN reply : reply[i].kind = "reply"
    <3>1. [kind |-> "reply", channel |-> call.arg] \in Messages
      BY <2>1 DEF Messages
    <3>2. QED
      BY <2>2, <3>1
  <2>5. Faithful' /\ DaemonTyped'
    BY <1>2, <1>9, <1>10, <1>12, <2>1, <2>3, <2>4, AddChannelStep
  <2>6. QED
    BY <1>8, <1>9, <2>3, <2>5, NextTypes DEF IInv
<1>13. CASE call.op = "remove"
  <2>1. RemoveChannel(call.arg) /\ UNCHANGED answer
    BY <1>3, <1>13 DEF HandleCall
  <2>2. call.arg \in Channels
    BY <1>5, <1>13 DEF Requests
  <2>3. Faithful' /\ DaemonTyped'
    BY <1>2, <1>9, <1>10, <1>13, <2>1, <2>2, RemoveChannelStep
  <2>4. QED
    BY <1>8, <1>9, <2>1, <2>3, NextTypes DEF IInv
<1>14. CASE call.op = "set"
  <2>1. SetValue(call.arg, call.value) /\ UNCHANGED answer
    BY <1>3, <1>14 DEF HandleCall
  <2>2. call.arg \in Paths
    BY <1>5, <1>14 DEF Requests
  <2>3. \A q \in Paths : Asked(q) => Asked(q)' \/ q = call.arg
    BY <1>6
  <2>4. Faithful' /\ DaemonTyped'
    BY <1>2, <1>9, <2>1, <2>2, <2>3, SetValueStep
  <2>5. QED
    BY <1>8, <1>9, <2>1, <2>4, NextTypes DEF IInv
<1>15. CASE call.op = "managed"
  <2>1. /\ answer' = ManagedObjects /\ UNCHANGED <<daemon, sent>>
        /\ silent' = {p \in silent : \E i \in DOMAIN sent :
                       sent[i].kind = "props" /\ sent[i].path = p}
    BY <1>3, <1>15 DEF HandleCall
  <2>2. waiting /\ answer = None
    BY <1>5, <1>15 DEF IInv, OneSnapshot
  <2>3. Faithful' /\ DaemonTyped' /\ answer' \in Answers
    BY <1>2, <2>1, <2>2, SnapshotStep
  <2>4. OneSnapshot'
    BY <1>2, <1>7, <1>15, <2>2 DEF OneSnapshot
  <2>5. ClientTyped'
    BY <1>1, <1>2, <1>5, <2>3 DEF ClientTyped
  <2>6. QED
    BY <1>8, <2>3, <2>4, <2>5, NextTypes DEF IInv
<1>16. QED
  BY <1>5, <1>11, <1>12, <1>13, <1>14, <1>15 DEF Requests

\* What a step of the daemon, or of PipeWire, needs to show.
LEMMA DaemonSteps ==
  ASSUME IInv, UNCHANGED <<calls, client>>, CountsTyped', Faithful', DaemonTyped'
  PROVE  IInv'
<1>1. ClientTyped
  BY Types DEF IInv
<1>2. ClientTyped' /\ OneSnapshot'
  BY <1>1 DEF IInv, ClientTyped, OneSnapshot, client
<1>3. QED
  BY <1>2, NextTypes DEF IInv

LEMMA EventCounted ==
  ASSUME IInv, Event, edits' \in 0..MaxEdits, faults' \in 0..MaxFaults
  PROVE  CountsTyped'
<1>1. events \in 0..MaxEvents /\ MaxEvents \in Nat
  BY ClientAssumption DEF IInv, TypeOK
<1>2. QED
  BY <1>1 DEF Event, CountsTyped

LEMMA OtherFrontendStep ==
  ASSUME IInv, OtherFrontend
  PROVE  IInv'
<1>1. /\ up /\ Event /\ UNCHANGED <<calls, client, faults, edits>>
  BY DEF OtherFrontend
<1>2. CountsTyped'
  BY <1>1, EventCounted DEF IInv, TypeOK
<1>3. \A p \in Paths : Asked(p) => Asked(p)'
  BY <1>1 DEF Asked
<1>4. Faithful' /\ DaemonTyped'
  <2>1. CASE \E c \in Channels : AddChannel(c, <<>>)
    <3>1. PICK c \in Channels : AddChannel(c, <<>>)
      BY <2>1
    <3>2. PICK reply : reply = <<>>
      OBVIOUS
    <3>3. reply \in Seq(Messages) /\ DOMAIN reply = {} /\ AddChannel(c, reply)
      BY <3>1, <3>2
    <3>4. QED
      BY <1>1, <1>3, <3>3, AddChannelStep DEF Calling
  <2>2. CASE \E c \in Channels : RemoveChannel(c)
    BY <1>1, <1>3, <2>2, RemoveChannelStep DEF Calling
  <2>3. CASE \E c \in Channels, index \in 1..Len(layout) : MoveChannel(c, index)
    BY <1>1, <1>3, <2>3, MoveChannelStep DEF Calling
  <2>4. CASE \E p \in objects, v \in Accepted : value[p] # v /\ SetValue(p, v)
    <3>1. objects \subseteq Paths
      BY DEF IInv, TypeOK
    <3>2. PICK p \in Paths, v \in Accepted : SetValue(p, v)
      BY <2>4, <3>1
    <3>3. QED
      BY <1>1, <1>3, <3>2, SetValueStep
  <2>5. QED
    BY <2>1, <2>2, <2>3, <2>4 DEF OtherFrontend
<1>5. QED
  BY <1>1, <1>2, <1>4, DaemonSteps

LEMMA WholeLayoutStep ==
  ASSUME IInv, WholeLayout
  PROVE  IInv'
<1>1. TypeOK /\ DaemonTyped /\ CountsTyped
  BY Types DEF IInv
<1>2. /\ up /\ edits < MaxEdits /\ Event /\ edits' = edits + 1
      /\ UNCHANGED <<up, pw, due, leaving, calls, client, faults>>
  BY DEF WholeLayout
<1>3. PICK lay \in Orders, v \in Accepted \ {0}, announced \in BOOLEAN :
        ReplaceLayout(lay, [p \in Paths |-> IF ChannelOf(p) \in Range(lay) THEN v ELSE 0],
                      announced)
  BY DEF WholeLayout
<1>4. PICK val : val = [p \in Paths |-> IF ChannelOf(p) \in Range(lay) THEN v ELSE 0]
  OBVIOUS
<1>5. val \in [Paths -> Accepted]
  BY <1>4, ClientAssumption
<1>6. PICK liv : liv = IF pw THEN Reconciled(lay, live)
                       ELSE IF announced THEN live ELSE Joined(live, lay)
  OBVIOUS
<1>7. liv \in Orders
  <2>1. live \in Orders
    BY <1>1 DEF DaemonTyped
  <2>2. Joined(lay, live) \in Orders /\ Joined(live, lay) \in Orders
    BY <2>1, JoinedIs
  <2>3. QED
    BY <1>6, <2>1, <2>2 DEF Reconciled
<1>8. PICK want : want = Wanted(lay, liv)
  OBVIOUS
<1>9. want \in SUBSET Paths /\ \A c \in Channels : Chan(c) \in want <=> c \in Range(liv)
  BY <1>7, <1>8, WantedIs
<1>10. PICK told : told = {p \in objects \cap want : p[1] = "channel" /\ announced
                                                     /\ ChannelOf(p) \in Range(lay)}
  OBVIOUS
<1>11. PICK first : first = AddedOnes(told, val)
  OBVIOUS
<1>12. /\ layout' = lay /\ live' = liv /\ value' = val
       /\ sink' = IF pw THEN Requested(lay, sink) ELSE sink
       /\ objects' = want
       /\ sent' = sent \o Published(want, val, liv) \o first
       /\ silent' = {p \in objects \cap want :
                        p \notin told /\ (p \in silent \/ val[p] # value[p])}
  BY <1>3, <1>4, <1>6, <1>8, <1>10, <1>11 DEF ReplaceLayout, AddedOnes
<1>13. /\ first \in Seq(Messages)
       /\ Range(first) = {Added(p, val[p]) : p \in told}
  BY <1>5, <1>9, <1>10, <1>11, Parts
<1>14. \A i \in DOMAIN first : \E p \in objects \cap want : first[i] = Added(p, val[p])
  <2>1. \A i \in DOMAIN first : first[i] \in Range(first)
    BY DEF Range
  <2>2. QED
    BY <1>10, <1>13, <2>1
<1>15. ASSUME NEW p \in objects \cap want
       PROVE  \/ \E i \in DOMAIN first : first[i] = Added(p, val[p])
              \/ p \in silent' \/ (p \notin silent /\ val[p] = value[p])
  <2>1. CASE p \in told
    <3>1. Added(p, val[p]) \in Range(first)
      BY <1>13, <2>1
    <3>2. QED
      BY <3>1 DEF Range
  <2>2. CASE p \notin told
    BY <1>12, <2>2
  <2>3. QED
    BY <2>1, <2>2
<1>16. Faithful' /\ sent' \in Seq(Messages)
  <2>1. up' /\ Calling
    BY <1>2 DEF Asked, Calling
  <2>2. Replies(first, want, val) /\ Covers(first, want, val)
    BY <1>14, <1>15 DEF Replies, Covers
  <2>3. QED
    BY <1>1, <1>2, <1>5, <1>7, <1>9, <1>12, <1>13, <2>1, <2>2, Publishing DEF IInv
<1>17. sink' \in [Channels -> SinkStates]
  BY <1>1, <1>12, RequestedType DEF DaemonTyped
<1>18. DaemonTyped'
  BY <1>1, <1>2, <1>5, <1>7, <1>9, <1>12, <1>16, <1>17 DEF DaemonTyped
<1>19. CountsTyped'
  <2>1. edits' \in 0..MaxEdits
    BY <1>1, <1>2, ClientAssumption DEF CountsTyped
  <2>2. QED
    BY <1>1, <1>2, <2>1, EventCounted DEF CountsTyped
<1>20. QED
  BY <1>2, <1>16, <1>18, <1>19, DaemonSteps
-----------------------------------------------------------------------------
(* PipeWire, and the daemon's life                                         *)

LEMMA OnNodeStep ==
  ASSUME IInv, up, NEW c \in Channels, NEW snk \in [Channels -> SinkStates], OnNode(c, snk),
         UNCHANGED <<up, pw, due, layout, leaving, value, calls, client, counts>>
  PROVE  IInv'
<1>1. TypeOK /\ DaemonTyped /\ CountsTyped
  BY Types DEF IInv
<1>2. \A p \in Paths : Asked(p) => Asked(p)'
  BY DEF Asked
<1>3. CountsTyped' /\ sink' = snk
  BY <1>1 DEF CountsTyped, counts, OnNode
<1>4. CASE c \in Range(live)
  <2>1. Chan(c) \in objects /\ Chan(c) \in Paths
    BY <1>4, PathsAre DEF IInv, Faithful, Exported
  <2>2. /\ sent' = Append(sent, Added(Chan(c), value[Chan(c)]))
        /\ silent' = silent \ {Chan(c)} /\ UNCHANGED <<live, objects>>
    BY <1>4, <2>1 DEF OnNode
  <2>3. PICK p \in Paths : p = Chan(c)
    BY <2>1
  <2>4. PICK b : b = <<Added(p, value[p])>>
    OBVIOUS
  <2>5. /\ b \in Seq(Messages) /\ DOMAIN b = {1}
        /\ b[1] = [kind |-> "props", path |-> p, value |-> value[p]]
    BY <1>1, <2>4, MessagesAre DEF Added, DaemonTyped
  <2>6. sent' = sent \o b
    BY <1>1, <2>2, <2>3, <2>4 DEF DaemonTyped
  <2>7. Says(b, 1, p) /\ \A q \in Paths : Says(b, 1, q) => q = p
    BY <2>5 DEF Says
  <2>8. Tells(b)
    <3>1. p \in objects' /\ b[1].kind = "props" /\ b[1].value = value'[p]
      BY <2>1, <2>2, <2>3, <2>5
    <3>2. \A q \in Paths : q # p => (q \in silent' <=> q \in silent)
      BY <2>2, <2>3
    <3>3. QED
      BY <2>2, <2>5, <2>7, <3>1, <3>2 DEF Tells
  <2>9. Exported'
    BY <2>2 DEF IInv, Faithful, Exported
  <2>10. Faithful'
    BY <1>1, <1>2, <2>6, <2>8, <2>9, Broadcast DEF IInv, Untouched
  <2>11. sent' \in Seq(Messages)
    BY <1>1, <2>5, <2>6, Concat DEF DaemonTyped
  <2>12. DaemonTyped'
    BY <1>1, <1>3, <2>2, <2>11 DEF DaemonTyped
  <2>13. QED
    BY <1>3, <2>10, <2>12, DaemonSteps
<1>5. CASE c \notin Range(live)
  <2>1. PICK lay : lay = layout
    OBVIOUS
  <2>2. PICK liv : liv = Append(live, c)
    OBVIOUS
  <2>3. PICK val : val = value
    OBVIOUS
  <2>4. PICK first : first = <<>>
    OBVIOUS
  <2>5. LayoutChanged(lay, liv, val, first) /\ live' = liv /\ value' = val /\ up'
    BY <1>5, <2>1, <2>2, <2>3, <2>4 DEF OnNode
  <2>6. /\ lay \in Orders /\ liv \in Orders /\ val \in [Paths -> Accepted]
        /\ first \in Seq(Messages) /\ DOMAIN first = {}
    BY <1>1, <1>5, <2>1, <2>2, <2>3, <2>4, Appended DEF DaemonTyped
  <2>7. Faithful' /\ objects' \subseteq Paths /\ silent' \subseteq Paths /\ sent' \in Seq(Messages)
    BY <1>1, <1>2, <2>3, <2>5, <2>6, Announced DEF IInv
  <2>8. DaemonTyped'
    BY <1>1, <1>3, <2>5, <2>6, <2>7 DEF DaemonTyped
  <2>9. QED
    BY <1>3, <2>7, <2>8, DaemonSteps
<1>6. QED
  BY <1>4, <1>5

LEMMA SinkArrivesStep ==
  ASSUME IInv, NEW c \in Channels, SinkArrives(c)
  PROVE  IInv'
<1>1. PICK snk : snk = [sink EXCEPT ![c] = "there"]
  OBVIOUS
<1>2. snk \in [Channels -> SinkStates]
  BY <1>1 DEF IInv, TypeOK, SinkStates
<1>3. QED
  BY <1>1, <1>2, OnNodeStep DEF SinkArrives

LEMMA SinkEchoesStep ==
  ASSUME IInv, NEW c \in Channels, SinkEchoes(c)
  PROVE  IInv'
<1>1. PICK snk : snk = sink
  OBVIOUS
<1>2. snk \in [Channels -> SinkStates]
  BY <1>1 DEF IInv, TypeOK
<1>3. QED
  BY <1>1, <1>2, OnNodeStep DEF SinkEchoes

LEMMA SinkGoesStep ==
  ASSUME IInv, NEW c \in Channels, SinkGoes(c)
  PROVE  IInv'
<1>1. DaemonTyped /\ CountsTyped
  BY Types DEF IInv
<1>2. UNCHANGED <<up, pw, due, layout, live, value, objects, bus, client, silent, counts>>
      /\ up /\ sink' = [sink EXCEPT ![c] = "null"] /\ leaving' = leaving \cup {c}
  BY DEF SinkGoes
<1>3. \A p \in Paths : Asked(p) => Asked(p)'
  BY <1>2 DEF Asked, bus
<1>4. Faithful'
  BY <1>2, <1>3, NothingSaid DEF bus
<1>5. DaemonTyped' /\ CountsTyped'
  BY <1>1, <1>2 DEF DaemonTyped, CountsTyped, bus, counts, SinkStates
<1>6. QED
  BY <1>2, <1>4, <1>5, DaemonSteps DEF bus

LEMMA OnNodeRemovedStep ==
  ASSUME IInv, NEW c \in Channels, OnNodeRemoved(c)
  PROVE  IInv'
<1>1. TypeOK /\ DaemonTyped /\ CountsTyped
  BY Types DEF IInv
<1>2. up /\ leaving' = leaving \ {c}
      /\ UNCHANGED <<up, pw, due, layout, sink, value, calls, client, counts>>
  BY DEF OnNodeRemoved
<1>3. \A p \in Paths : Asked(p) => Asked(p)'
  BY <1>2 DEF Asked
<1>4. CountsTyped'
  BY <1>1, <1>2 DEF CountsTyped, counts
<1>5. CASE c \notin Range(live)
  <2>1. UNCHANGED <<live, objects, sent, silent>>
    BY <1>5 DEF OnNodeRemoved
  <2>2. Faithful'
    BY <1>2, <1>3, <2>1, NothingSaid
  <2>3. DaemonTyped'
    BY <1>1, <1>2, <2>1 DEF DaemonTyped
  <2>4. QED
    BY <1>2, <1>4, <2>2, <2>3, DaemonSteps
<1>6. CASE c \in Range(live)
  <2>1. PICK lay : lay = layout
    OBVIOUS
  <2>2. PICK liv : liv = RemoveFirst(live, c)
    OBVIOUS
  <2>3. PICK val : val = value
    OBVIOUS
  <2>4. PICK first : first = <<>>
    OBVIOUS
  <2>5. LayoutChanged(lay, liv, val, first) /\ live' = liv /\ value' = val /\ up'
    BY <1>2, <1>6, <2>1, <2>2, <2>3, <2>4 DEF OnNodeRemoved
  <2>6. /\ lay \in Orders /\ liv \in Orders /\ val \in [Paths -> Accepted]
        /\ first \in Seq(Messages) /\ DOMAIN first = {}
    BY <1>1, <2>1, <2>2, <2>3, <2>4, Without DEF DaemonTyped
  <2>7. Faithful' /\ objects' \subseteq Paths /\ silent' \subseteq Paths /\ sent' \in Seq(Messages)
    BY <1>1, <1>2, <1>3, <2>3, <2>5, <2>6, Announced DEF IInv
  <2>8. DaemonTyped'
    BY <1>1, <1>2, <2>5, <2>6, <2>7 DEF DaemonTyped
  <2>9. QED
    BY <1>2, <1>4, <2>7, <2>8, DaemonSteps
<1>7. QED
  BY <1>5, <1>6

LEMMA PwConnectsStep ==
  ASSUME IInv, PwConnects
  PROVE  IInv'
<1>1. TypeOK /\ DaemonTyped /\ CountsTyped
  BY Types DEF IInv
<1>2. up /\ pw' = TRUE /\ due' = TRUE
      /\ UNCHANGED <<up, layout, sink, leaving, value, calls, client, counts>>
  BY DEF PwConnects
<1>3. \A p \in Paths : Asked(p) => Asked(p)'
  BY <1>2 DEF Asked
<1>4. CountsTyped'
  BY <1>1, <1>2 DEF CountsTyped, counts
<1>5. PICK found \in Orders :
        /\ Range(found) = {c \in Channels : sink[c] = "there"} \ Range(live)
        /\ live' = live \o found
        /\ IF found = <<>> THEN UNCHANGED <<objects, sent, silent>>
                           ELSE LayoutChanged(layout, live', value, <<>>)
  BY DEF PwConnects
<1>6. CASE found = <<>>
  <2>1. UNCHANGED <<live, objects, sent, silent>>
    BY <1>1, <1>5, <1>6, OrderIs DEF DaemonTyped
  <2>2. Faithful'
    BY <1>2, <1>3, <2>1, NothingSaid
  <2>3. DaemonTyped'
    BY <1>1, <1>2, <2>1 DEF DaemonTyped
  <2>4. QED
    BY <1>2, <1>4, <2>2, <2>3, DaemonSteps
<1>7. CASE found # <<>>
  <2>1. PICK lay : lay = layout
    OBVIOUS
  <2>2. PICK liv : liv = live \o found
    OBVIOUS
  <2>3. PICK val : val = value
    OBVIOUS
  <2>4. PICK first : first = <<>>
    OBVIOUS
  <2>5. LayoutChanged(lay, liv, val, first) /\ live' = liv /\ value' = val /\ up'
    BY <1>2, <1>5, <1>7, <2>1, <2>2, <2>3, <2>4
  <2>6. liv \in Orders
    BY <1>1, <1>5, <2>2, Concatenated DEF DaemonTyped
  <2>7. /\ lay \in Orders /\ val \in [Paths -> Accepted]
        /\ first \in Seq(Messages) /\ DOMAIN first = {}
    BY <1>1, <2>1, <2>3, <2>4 DEF DaemonTyped
  <2>8. Faithful' /\ objects' \subseteq Paths /\ silent' \subseteq Paths /\ sent' \in Seq(Messages)
    BY <1>1, <1>2, <1>3, <2>3, <2>5, <2>6, <2>7, Announced DEF IInv
  <2>9. DaemonTyped'
    BY <1>1, <1>2, <2>5, <2>6, <2>7, <2>8 DEF DaemonTyped
  <2>10. QED
    BY <1>2, <1>4, <2>8, <2>9, DaemonSteps
<1>8. QED
  BY <1>6, <1>7

LEMMA NoChannels == <<>> \in Orders /\ Range(<<>>) = {}
<1>1. PICK s : s = <<>>
  OBVIOUS
<1>2. s \in Seq(Channels) /\ DOMAIN s = {}
  BY <1>1
<1>3. IsInjective(s) /\ Range(s) = {}
  BY <1>2 DEF IsInjective, Range
<1>4. QED
  BY <1>1, <1>2, <1>3, IsOrder

LEMMA PwLostStep ==
  ASSUME IInv, PwLost
  PROVE  IInv'
<1>1. TypeOK /\ DaemonTyped /\ CountsTyped
  BY Types DEF IInv
<1>2. /\ up /\ faults < MaxFaults /\ Event /\ faults' = faults + 1
      /\ pw' = FALSE /\ due' = FALSE /\ leaving' = {}
      /\ sink' = [c \in Channels |-> "null"]
      /\ UNCHANGED <<up, layout, value, calls, client, edits>>
  BY DEF PwLost
<1>3. \A p \in Paths : Asked(p) => Asked(p)'
  BY <1>2 DEF Asked
<1>4. CountsTyped'
  <2>1. faults' \in 0..MaxFaults
    BY <1>1, <1>2, ClientAssumption DEF CountsTyped
  <2>2. QED
    BY <1>1, <1>2, <2>1, EventCounted DEF CountsTyped
<1>5. PICK lay : lay = layout
  OBVIOUS
<1>6. PICK liv : liv = <<>>
  OBVIOUS
<1>7. PICK val : val = value
  OBVIOUS
<1>8. PICK first : first = <<>>
  OBVIOUS
<1>9. LayoutChanged(lay, liv, val, first) /\ live' = liv /\ value' = val /\ up'
  BY <1>2, <1>5, <1>6, <1>7, <1>8 DEF PwLost
<1>10. /\ lay \in Orders /\ liv \in Orders /\ val \in [Paths -> Accepted]
       /\ first \in Seq(Messages) /\ DOMAIN first = {}
  BY <1>1, <1>5, <1>6, <1>7, <1>8, NoChannels DEF DaemonTyped
<1>11. Faithful' /\ objects' \subseteq Paths /\ silent' \subseteq Paths /\ sent' \in Seq(Messages)
  BY <1>1, <1>2, <1>3, <1>7, <1>9, <1>10, Announced DEF IInv
<1>12. DaemonTyped'
  BY <1>1, <1>2, <1>9, <1>10, <1>11 DEF DaemonTyped, SinkStates
<1>13. QED
  BY <1>2, <1>4, <1>11, <1>12, DaemonSteps

\* While nobody owns the name the invariant promises nothing; what it promises when the
\* daemon is back rests on the owner signal alone.
LEMMA CrashStep ==
  ASSUME IInv, Crash
  PROVE  IInv'
<1>1. TypeOK /\ DaemonTyped /\ ClientTyped /\ CountsTyped
  BY Types DEF IInv
<1>2. /\ faults < MaxFaults /\ Event /\ faults' = faults + 1
      /\ up' = FALSE /\ pw' = FALSE /\ due' = FALSE
      /\ live' = <<>> /\ objects' = {} /\ leaving' = {}
      /\ calls' = <<>>
      /\ sent' = Append(sent, [kind |-> "gone"])
      /\ answer' = IF waiting /\ answer = None THEN Refused ELSE answer
      /\ silent' = {}
      /\ UNCHANGED <<layout, value, waiting, available, mirror, order, edits>>
  BY DEF Crash
<1>3. sink' \in [Channels -> SinkStates]
  BY <1>1 DEF Crash, DaemonTyped, SinkStates
<1>4. sent' \in Seq(Messages)
  <2>1. [kind |-> "gone"] \in Messages
    BY DEF Messages
  <2>2. QED
    BY <1>1, <1>2, <2>1 DEF DaemonTyped
<1>5. DaemonTyped'
  BY <1>1, <1>2, <1>3, <1>4, NoChannels DEF DaemonTyped
<1>6. ClientTyped'
  BY <1>1, <1>2 DEF ClientTyped
<1>7. CountsTyped'
  <2>1. faults' \in 0..MaxFaults
    BY <1>1, <1>2, ClientAssumption DEF CountsTyped
  <2>2. QED
    BY <1>1, <1>2, <2>1, EventCounted DEF CountsTyped
<1>8. OneSnapshot'
  BY <1>2 DEF IInv, OneSnapshot
<1>9. Faithful'
  BY <1>2 DEF Faithful
<1>10. QED
  BY <1>5, <1>6, <1>7, <1>8, <1>9, NextTypes DEF IInv

LEMMA StartStep ==
  ASSUME IInv, Start
  PROVE  IInv'
<1>1. TypeOK /\ DaemonTyped /\ ClientTyped /\ CountsTyped
  BY Types DEF IInv
<1>2. /\ up' = TRUE /\ live' = layout /\ objects' = Wanted(layout, layout)
      /\ sent' = Append(sent, [kind |-> "owner"])
      /\ UNCHANGED <<pw, due, layout, sink, leaving, value, calls, client, silent, counts>>
  BY DEF Start
<1>3. PICK lay \in Orders : lay = layout
  BY <1>1 DEF DaemonTyped
<1>4. objects' \in SUBSET Paths /\ \A c \in Channels : Chan(c) \in objects' <=> c \in Range(lay)
  BY <1>2, <1>3, WantedIs
<1>5. PICK n \in Nat : n = Len(sent)
  BY <1>1 DEF DaemonTyped
<1>6. /\ sent' \in Seq(Messages) /\ DOMAIN sent' = 1..(n + 1) /\ DOMAIN sent = 1..n
      /\ sent'[n + 1] = [kind |-> "owner"]
  <2>1. [kind |-> "owner"] \in Messages
    BY DEF Messages
  <2>2. QED
    BY <1>1, <1>2, <1>5, <2>1 DEF DaemonTyped
<1>7. DaemonTyped'
  BY <1>1, <1>2, <1>4, <1>6 DEF DaemonTyped
<1>8. ClientTyped' /\ CountsTyped' /\ OneSnapshot'
  BY <1>1, <1>2 DEF ClientTyped, CountsTyped, client, counts, IInv, OneSnapshot
<1>9. n + 1 \in DOMAIN sent' /\ IsOwner(n + 1)'
  BY <1>6 DEF IsOwner
<1>10. OwnerDue' /\ Open'
  BY <1>9 DEF OwnerDue, Open
<1>11. \A i \in DOMAIN sent' : ~Current(i)'
  BY <1>5, <1>6, <1>9 DEF Current
<1>12. \A i \in DOMAIN sent' : ~Lists(i)' /\ \A c \in Channels : ~Takes(i, c)'
  BY <1>11 DEF Lists, Takes
<1>13. \A i \in DOMAIN sent' : \A p \in Paths : ~LastWord(i, p)'
  BY <1>11 DEF LastWord
<1>14. Exported'
  BY <1>2, <1>3, <1>4 DEF Exported
<1>15. Connected'
  <2>1. ASSUME NEW i \in DOMAIN sent', sent'[i].kind = "gone"
        PROVE  \E j \in DOMAIN sent' : j > i /\ IsOwner(j)'
    <3>1. i # n + 1
      BY <1>6, <2>1
    <3>2. n + 1 > i
      BY <1>6, <3>1
    <3>3. QED
      BY <1>9, <3>2
  <2>2. QED
    BY <1>10, <2>1 DEF Connected
<1>16. InOrder'
  BY <1>10, <1>12 DEF InOrder
<1>17. \A p \in Paths : Spoken(p)' /\ Kept(p)'
  BY <1>10, <1>13 DEF Spoken, Kept
<1>18. \A c \in Channels : TakenOff(c)'
  BY <1>10, <1>12 DEF TakenOff
<1>19. Faithful'
  BY <1>14, <1>15, <1>16, <1>17, <1>18 DEF Faithful
<1>20. QED
  BY <1>7, <1>8, <1>19, NextTypes DEF IInv
-----------------------------------------------------------------------------
(* The client                                                              *)

\* One more call, and perhaps an entry written before it.
LEMMA Calls ==
  ASSUME IInv, NEW call \in Requests, calls' = Append(calls, call)
  PROVE  /\ calls' \in Seq(Requests)
         /\ Calling
         /\ \A p \in Paths : call.op = "set" /\ call.arg = p => Asked(p)'
         /\ \A i \in DOMAIN calls' : calls'[i].op = "managed" =>
              \/ i \in DOMAIN calls /\ calls[i].op = "managed"
              \/ i = Len(calls) + 1 /\ call.op = "managed"
<1>1. calls \in Seq(Requests)
  BY DEF IInv, TypeOK
<1>2. PICK n \in Nat : n = Len(calls)
  BY <1>1
<1>3. /\ calls' \in Seq(Requests) /\ DOMAIN calls = 1..n /\ DOMAIN calls' = 1..(n + 1)
      /\ calls'[n + 1] = call /\ \A i \in 1..n : calls'[i] = calls[i]
  BY <1>1, <1>2
<1>4. ASSUME NEW p \in Paths, Asked(p) PROVE Asked(p)'
  <2>1. PICK i \in 1..n : calls[i].op = "set" /\ calls[i].arg = p
    BY <1>3, <1>4 DEF Asked
  <2>2. i \in 1..(n + 1)
    OBVIOUS
  <2>3. QED
    BY <1>3, <2>1, <2>2 DEF Asked
<1>5. ASSUME NEW p \in Paths, call.op = "set", call.arg = p PROVE Asked(p)'
  <2>1. n + 1 \in 1..(n + 1)
    OBVIOUS
  <2>2. QED
    BY <1>3, <1>5, <2>1 DEF Asked
<1>6. ASSUME NEW i \in DOMAIN calls', calls'[i].op = "managed"
      PROVE  \/ i \in DOMAIN calls /\ calls[i].op = "managed"
             \/ i = Len(calls) + 1 /\ call.op = "managed"
  <2>1. i \in 1..n \/ i = n + 1
    BY <1>3
  <2>2. CASE i \in 1..n
    <3>1. calls'[i] = calls[i]
      BY <1>3, <2>2
    <3>2. QED
      BY <1>3, <1>6, <2>2, <3>1
  <2>3. CASE i = n + 1
    <3>1. calls'[i] = call
      BY <1>3, <2>3
    <3>2. QED
      BY <1>2, <1>6, <2>3, <3>1
  <2>4. QED
    BY <2>1, <2>2, <2>3
<1>7. Calling
  BY <1>4 DEF Calling
<1>8. QED
  BY <1>3, <1>5, <1>6, <1>7

LEMMA UserActsStep ==
  ASSUME IInv, UserActs
  PROVE  IInv'
<1>1. TypeOK /\ DaemonTyped /\ ClientTyped /\ CountsTyped
  BY Types DEF IInv
<1>2. /\ ~waiting /\ Event
      /\ UNCHANGED <<daemon, sent, waiting, answer, available, order, silent, faults, edits>>
  BY DEF UserActs
<1>3. PICK call \in Requests :
        /\ call.op # "managed" /\ calls' = Append(calls, call)
        /\ \/ UNCHANGED mirror
           \/ \E p \in Paths, v \in Accepted \cup {Refused} :
                /\ mirror[p] # None /\ call.op = "set" /\ call.arg = p
                /\ mirror' = [mirror EXCEPT ![p] = v]
  <2>1. CASE \E p \in Paths, v \in Accepted \cup {Refused} :
               mirror[p] \notin {None, v} /\ Write(p, v)
    <3>1. PICK p \in Paths, v \in Accepted \cup {Refused} :
            mirror[p] \notin {None, v} /\ Write(p, v)
      BY <2>1
    <3>2. [op |-> "set", arg |-> p, value |-> v] \in Requests
      BY DEF Requests
    <3>3. PICK call : call = [op |-> "set", arg |-> p, value |-> v]
      OBVIOUS
    <3>4. call.op = "set" /\ call.arg = p /\ call \in Requests
      BY <3>2, <3>3
    <3>5. calls' = Append(calls, call) /\ mirror' = [mirror EXCEPT ![p] = v]
      BY <3>1, <3>3 DEF Write, Call
    <3>6. QED
      BY <3>1, <3>4, <3>5
  <2>2. CASE \E op \in {"add", "addWithSource"}, c \in Channels \ Range(order) :
               Call([op |-> op, arg |-> c]) /\ UNCHANGED mirror
    <3>1. PICK op \in {"add", "addWithSource"}, c \in Channels :
            Call([op |-> op, arg |-> c]) /\ UNCHANGED mirror
      BY <2>2
    <3>2. [op |-> op, arg |-> c] \in Requests
      BY <3>1 DEF Requests
    <3>3. QED
      BY <3>1, <3>2 DEF Call
  <2>3. CASE \E c \in Range(order) : Call([op |-> "remove", arg |-> c]) /\ UNCHANGED mirror
    <3>1. Range(order) \subseteq Channels
      BY <1>1, OrderIs DEF ClientTyped
    <3>2. PICK c \in Channels : Call([op |-> "remove", arg |-> c]) /\ UNCHANGED mirror
      BY <2>3, <3>1
    <3>3. [op |-> "remove", arg |-> c] \in Requests
      BY <3>2 DEF Requests
    <3>4. QED
      BY <3>2, <3>3 DEF Call
  <2>4. QED
    BY <2>1, <2>2, <2>3 DEF UserActs
<1>4. /\ calls' \in Seq(Requests) /\ Calling
      /\ \A p \in Paths : call.op = "set" /\ call.arg = p => Asked(p)'
      /\ \A i \in DOMAIN calls' : calls'[i].op = "managed" => i \in DOMAIN calls /\ calls[i].op = "managed"
  BY <1>3, Calls
<1>5. mirror' \in [Paths -> Accepted \cup {Refused, None}]
  BY <1>1, <1>3 DEF ClientTyped
<1>6. DaemonTyped' /\ ClientTyped'
  BY <1>1, <1>2, <1>4, <1>5 DEF DaemonTyped, ClientTyped, daemon
<1>7. CountsTyped'
  BY <1>1, <1>2, EventCounted DEF CountsTyped
<1>8. OneSnapshot'
  BY <1>2, <1>4 DEF IInv, OneSnapshot
<1>9. ASSUME up PROVE Faithful'
  <2>1. Faithful /\ up
    BY <1>9 DEF IInv
  <2>2. UNCHANGED <<up, objects, live, value, sent, waiting, answer, available, order, silent>>
    BY <1>2 DEF daemon
  <2>3. /\ Exported' <=> Exported
        /\ Connected' <=> Connected
        /\ InOrder' <=> InOrder
        /\ \A p \in Paths : Spoken(p)' <=> Spoken(p)
        /\ \A c \in Channels : TakenOff(c)' <=> TakenOff(c)
        /\ Open' <=> Open
        /\ \A p \in Paths : Unsaid(p)' <=> Unsaid(p)
    <3>1. /\ Exported' <=> Exported
          /\ Connected' <=> Connected
          /\ Open' <=> Open
      BY <2>2 DEF Exported, Connected, Open, OwnerDue, IsOwner
    <3>2. InOrder' <=> InOrder
      BY <2>2, <3>1 DEF InOrder, Lists, Takes, Current, IsOwner, Order
    <3>3. /\ \A p \in Paths : Spoken(p)' <=> Spoken(p)
          /\ \A p \in Paths : Unsaid(p)' <=> Unsaid(p)
      BY <2>2 DEF Spoken, Unsaid, LastWord, About, Current, IsOwner
    <3>4. \A c \in Channels : TakenOff(c)' <=> TakenOff(c)
      BY <2>2, <3>1 DEF TakenOff, Lists, Takes, Current, IsOwner, Order
    <3>5. QED
      BY <3>1, <3>2, <3>3, <3>4
  <2>4. ASSUME NEW p \in Paths PROVE Kept(p)'
    <3>1. Kept(p) /\ Mirror = mirror /\ Mirror' = mirror'
      BY <1>2, <2>1 DEF Faithful, Mirror
    <3>2. CASE mirror'[p] = mirror[p]
      BY <1>4, <2>2, <2>3, <3>1, <3>2 DEF Kept, Calling
    <3>3. CASE mirror'[p] # mirror[p]
      <4>1. mirror[p] # None /\ mirror'[p] # None /\ Asked(p)'
        <5>1. PICK q \in Paths, v \in Accepted \cup {Refused} :
                /\ mirror[q] # None /\ call.op = "set" /\ call.arg = q
                /\ mirror' = [mirror EXCEPT ![q] = v]
          BY <1>3, <3>3
        <5>2. p = q /\ mirror'[p] = v
          BY <1>1, <3>3, <5>1 DEF ClientTyped
        <5>3. QED
          BY <1>4, <5>1, <5>2, ClientAssumption
      <4>2. QED
        BY <2>2, <2>3, <3>1, <4>1 DEF Kept
    <3>4. QED
      BY <3>2, <3>3
  <2>5. QED
    BY <2>1, <2>3, <2>4 DEF Faithful
<1>10. Faithful'
  BY <1>2, <1>9 DEF Faithful, daemon
<1>11. QED
  BY <1>6, <1>7, <1>8, <1>10, NextTypes DEF IInv

\* The snapshot replaces the mirror; a refusal means that the daemon died, and that the
\* owner signal of the next one is behind it.
LEMMA RefreshStep ==
  ASSUME IInv, Refresh
  PROVE  IInv'
<1>1. TypeOK /\ DaemonTyped /\ ClientTyped /\ CountsTyped
  BY Types DEF IInv
<1>2. /\ waiting /\ answer # None /\ waiting' = FALSE /\ answer' = None
      /\ UNCHANGED <<daemon, bus, silent, counts>>
  BY DEF Refresh
<1>3. UNCHANGED <<up, objects, live, value, sent, calls, silent>>
  BY <1>2 DEF daemon, bus
<1>4. CASE answer = Refused
  <2>1. available' = FALSE /\ mirror' = [p \in Paths |-> None] /\ order' = <<>>
    BY <1>4 DEF Refresh
  <2>2. DaemonTyped' /\ ClientTyped' /\ CountsTyped'
    BY <1>1, <1>2, <1>3, <2>1, NoChannels DEF DaemonTyped, ClientTyped, CountsTyped, daemon, counts
  <2>3. OneSnapshot'
    BY <1>2, <1>3 DEF IInv, OneSnapshot
  <2>4. ASSUME up PROVE Faithful'
    <3>1. Faithful /\ up
      BY <2>4 DEF IInv
    <3>2. OwnerDue
      BY <1>4, <3>1 DEF Faithful, Connected
    <3>3. OwnerDue' /\ Open' /\ Exported'
      BY <1>3, <3>1, <3>2 DEF OwnerDue, IsOwner, Open, Faithful, Exported
    <3>4. Connected'
      BY <1>3, <3>1, <3>3 DEF Faithful, Connected, IsOwner
    <3>5. \A p \in Paths : Spoken(p)' /\ Kept(p)'
      <4>1. \A p \in Paths : Spoken(p)' <=> Spoken(p)
        BY <1>3 DEF Spoken, LastWord, About, Current, IsOwner
      <4>2. QED
        BY <3>1, <3>3, <4>1 DEF Faithful, Kept
    <3>6. \A i \in DOMAIN sent : (Lists(i)' <=> Lists(i)) /\ \A c \in Channels : Takes(i, c)' <=> Takes(i, c)
      BY <1>3 DEF Lists, Takes, Current, IsOwner
    <3>7. InOrder'
      BY <1>3, <3>1, <3>3, <3>6 DEF Faithful, InOrder
    <3>8. \A c \in Channels : TakenOff(c)'
      BY <1>3, <3>1, <3>3, <3>6 DEF Faithful, TakenOff
    <3>9. QED
      BY <3>3, <3>4, <3>5, <3>7, <3>8 DEF Faithful
  <2>5. Faithful'
    BY <1>3, <2>4 DEF Faithful
  <2>6. QED
    BY <2>2, <2>3, <2>5, NextTypes DEF IInv
<1>5. CASE answer # Refused
  <2>1. /\ available' = TRUE /\ mirror' = answer.values /\ order' = answer.order
        /\ answer \in Answers
    BY <1>1, <1>2, <1>5 DEF Refresh, ClientTyped
  <2>2. mirror' \in [Paths -> Accepted \cup {Refused, None}] /\ order' \in Orders
    BY <2>1 DEF Answers
  <2>3. DaemonTyped' /\ ClientTyped' /\ CountsTyped'
    BY <1>1, <1>2, <1>3, <2>1, <2>2 DEF DaemonTyped, ClientTyped, CountsTyped, daemon, counts
  <2>4. OneSnapshot'
    BY <1>2, <1>3 DEF IInv, OneSnapshot
  <2>5. ASSUME up PROVE Faithful'
    <3>1. Faithful /\ up
      BY <2>5 DEF IInv
    <3>2. Mirror' = Mirror /\ Order' = Order
      BY <1>2, <2>1 DEF Mirror, Order
    <3>3. (OwnerDue' <=> OwnerDue) /\ (Open' <=> Open) /\ Exported'
      BY <1>2, <1>3, <3>1 DEF OwnerDue, IsOwner, Open, Faithful, Exported
    <3>4. Connected'
      <4>1. answer' # Refused
        BY <1>2, ClientAssumption
      <4>2. QED
        BY <1>3, <2>1, <3>1, <3>3, <4>1 DEF Faithful, Connected, IsOwner
    <3>5. \A p \in Paths : Spoken(p)' /\ Kept(p)'
      <4>1. \A p \in Paths : (Spoken(p)' <=> Spoken(p)) /\ (Unsaid(p)' <=> Unsaid(p))
                             /\ (Asked(p)' <=> Asked(p))
        BY <1>3 DEF Spoken, LastWord, Unsaid, About, Current, IsOwner, Asked
      <4>2. QED
        BY <1>3, <3>1, <3>2, <3>3, <4>1 DEF Faithful, Kept
    <3>6. \A i \in DOMAIN sent : (Lists(i)' <=> Lists(i)) /\ \A c \in Channels : Takes(i, c)' <=> Takes(i, c)
      BY <1>3 DEF Lists, Takes, Current, IsOwner
    <3>7. InOrder'
      BY <1>3, <3>1, <3>2, <3>3, <3>6 DEF Faithful, InOrder
    <3>8. \A c \in Channels : TakenOff(c)'
      BY <1>3, <3>1, <3>2, <3>3, <3>6 DEF Faithful, TakenOff
    <3>9. QED
      BY <3>3, <3>4, <3>5, <3>7, <3>8 DEF Faithful
  <2>6. Faithful'
    BY <1>3, <2>5 DEF Faithful
  <2>7. QED
    BY <2>3, <2>4, <2>6, NextTypes DEF IInv
<1>6. QED
  BY <1>4, <1>5

\* A nonempty set of places in a sequence has a last one.
LEMMA LastPlace ==
  ASSUME NEW n \in Nat, NEW S \in SUBSET (1..n), S # {}
  PROVE  \E m \in S : \A j \in S : j <= m
<1> DEFINE T == {n - i : i \in S}
<1>1. T \subseteq Nat /\ T # {}
  <2>1. \A i \in S : n - i \in Nat
    OBVIOUS
  <2>2. PICK i \in S : TRUE
    OBVIOUS
  <2>3. n - i \in T
    OBVIOUS
  <2>4. QED
    BY <2>1, <2>3
<1> HIDE DEF T
<1>2. \E x \in T : \A y \in T : ~(<<y, x>> \in OpToRel(<, Nat))
  BY <1>1, NatLessThanWellFounded, WFMin
<1>3. PICK x \in T : \A y \in T : ~(y < x)
  BY <1>1, <1>2 DEF OpToRel
<1>4. PICK m \in S : x = n - m
  BY <1>3 DEF T
<1>5. ASSUME NEW j \in S PROVE j <= m
  <2>1. n - j \in T
    BY DEF T
  <2>2. ~(n - j < n - m)
    BY <1>3, <1>4, <2>1
  <2>3. j \in Int /\ m \in Int
    OBVIOUS
  <2>4. QED
    BY <2>2, <2>3
<1>6. QED
  BY <1>5

\* Where there is a word on a channel that is gone, the last one takes it off the list.
LEMMA Gone ==
  ASSUME TypeOK, Faithful, up, ~OwnerDue, NEW c \in Channels, c \notin Range(live),
         NEW k \in DOMAIN sent, About(k, Chan(c))
  PROVE  \E i \in DOMAIN sent : i >= k /\ Takes(i, c)
<1>1. PICK p \in Paths : p = Chan(c)
  BY PathsAre
<1>2. p \notin objects
  BY <1>1 DEF Faithful, Exported
<1>3. PICK n \in Nat : n = Len(sent) /\ DOMAIN sent = 1..n
  BY DEF TypeOK
<1>4. PICK S \in SUBSET (1..n) : S = {i \in 1..n : About(i, p)}
  OBVIOUS
<1>5. k \in S
  BY <1>1, <1>3, <1>4
<1>6. PICK m \in S : \A j \in S : j <= m
  BY <1>5, LastPlace
<1>7. Current(m)
  BY <1>3, <1>4, <1>6 DEF Current, OwnerDue
<1>8. LastWord(m, p)
  BY <1>3, <1>4, <1>6, <1>7 DEF LastWord
<1>9. sent[m].kind = "removed"
  BY <1>2, <1>3, <1>4, <1>6, <1>8 DEF Faithful, Spoken
<1>10. Takes(m, c)
  BY <1>1, <1>7, <1>8, <1>9 DEF Takes, LastWord, About
<1>11. m >= k
  BY <1>3, <1>4, <1>5, <1>6
<1>12. QED
  BY <1>3, <1>10, <1>11

\* What is left on the bus says what it said.
Shifted(n) ==
  /\ n \in Nat /\ DOMAIN sent = 1..(n + 1) /\ DOMAIN sent' = 1..n
  /\ \A i \in 1..n : i + 1 \in 1..(n + 1) /\ sent'[i] = sent[i + 1]
  /\ \A j \in 1..(n + 1) : j # 1 => j - 1 \in 1..n /\ (j - 1) + 1 = j
  /\ \A i \in 1..n : /\ IsOwner(i)' <=> IsOwner(i + 1)
                     /\ Current(i)' <=> Current(i + 1)
                     /\ Lists(i)' <=> Lists(i + 1)
                     /\ \A p \in Paths : (About(i, p)' <=> About(i + 1, p))
                                         /\ (LastWord(i, p)' <=> LastWord(i + 1, p))
                     /\ \A c \in Channels : Takes(i, c)' <=> Takes(i + 1, c)

LEMMA Shift ==
  ASSUME TypeOK, sent # <<>>, sent' = Tail(sent)
  PROVE  \E n \in Nat : Shifted(n)
<1>1. sent \in Seq(Messages)
  BY DEF TypeOK
<1>2. PICK n \in Nat : n = Len(sent) - 1
  BY <1>1
<1>3. /\ DOMAIN sent = 1..(n + 1) /\ DOMAIN sent' = 1..n
      /\ \A i \in 1..n : i + 1 \in 1..(n + 1) /\ sent'[i] = sent[i + 1]
  BY <1>1, <1>2
<1>4. \A j \in 1..(n + 1) : j # 1 => j - 1 \in 1..n /\ (j - 1) + 1 = j
  OBVIOUS
<1>5. ASSUME NEW i \in 1..n PROVE IsOwner(i)' <=> IsOwner(i + 1)
  BY <1>3 DEF IsOwner
<1>6. ASSUME NEW i \in 1..n PROVE Current(i)' <=> Current(i + 1)
  <2>1. ASSUME \A j \in 1..n : IsOwner(j)' => j < i, NEW j \in 1..(n + 1), IsOwner(j)
        PROVE  j < i + 1
    <3>1. CASE j = 1
      BY <3>1
    <3>2. CASE j # 1
      <4>1. j - 1 \in 1..n /\ IsOwner(j - 1)'
        BY <1>4, <1>5, <2>1, <3>2
      <4>2. j - 1 < i
        BY <2>1, <4>1
      <4>3. QED
        BY <4>2
    <3>3. QED
      BY <3>1, <3>2
  <2>2. ASSUME \A j \in 1..(n + 1) : IsOwner(j) => j < i + 1, NEW j \in 1..n, IsOwner(j)'
        PROVE  j < i
    <3>1. j + 1 \in 1..(n + 1) /\ IsOwner(j + 1)
      BY <1>3, <1>5, <2>2
    <3>2. j + 1 < i + 1
      BY <2>2, <3>1
    <3>3. QED
      BY <3>2
  <2>3. QED
    BY <1>3, <2>1, <2>2 DEF Current
<1>7. ASSUME NEW i \in 1..n, NEW p \in Paths PROVE About(i, p)' <=> About(i + 1, p)
  BY <1>3 DEF About
<1>8. ASSUME NEW i \in 1..n, NEW p \in Paths PROVE LastWord(i, p)' <=> LastWord(i + 1, p)
  <2>1. ASSUME \A j \in 1..n : About(j, p)' => j <= i, NEW j \in 1..(n + 1), About(j, p)
        PROVE  j <= i + 1
    <3>1. CASE j = 1
      BY <3>1
    <3>2. CASE j # 1
      <4>1. j - 1 \in 1..n /\ About(j - 1, p)'
        BY <1>4, <1>7, <2>1, <3>2
      <4>2. j - 1 <= i
        BY <2>1, <4>1
      <4>3. QED
        BY <4>2
    <3>3. QED
      BY <3>1, <3>2
  <2>2. ASSUME \A j \in 1..(n + 1) : About(j, p) => j <= i + 1, NEW j \in 1..n, About(j, p)'
        PROVE  j <= i
    <3>1. j + 1 \in 1..(n + 1) /\ About(j + 1, p)
      BY <1>3, <1>7, <2>2
    <3>2. j + 1 <= i + 1
      BY <2>2, <3>1
    <3>3. QED
      BY <3>2
  <2>3. QED
    BY <1>3, <1>6, <1>7, <2>1, <2>2 DEF LastWord
<1>9. ASSUME NEW i \in 1..n
      PROVE  /\ Lists(i)' <=> Lists(i + 1)
             /\ \A c \in Channels : Takes(i, c)' <=> Takes(i + 1, c)
  BY <1>3, <1>6 DEF Lists, Takes
<1>10. QED
  BY <1>3, <1>4, <1>5, <1>6, <1>7, <1>8, <1>9 DEF Shifted

\* The part of the invariant that speaks of the signals alone.
LEMMA Remaining ==
  ASSUME TypeOK, Faithful, up, UNCHANGED <<daemon, silent>>, NEW n, Shifted(n)
  PROVE  /\ \A p \in Paths : Spoken(p)'
         /\ \A c \in Channels : c \notin Range(live') =>
              \A i \in DOMAIN sent' : Lists(i)' /\ c \in Range(sent'[i].order) =>
                \E j \in DOMAIN sent' : j > i /\ Takes(j, c)'
         /\ \A i \in DOMAIN sent' : Lists(i)' /\ (\A j \in DOMAIN sent' : Lists(j)' => j <= i) =>
              sent'[i].order = live'
         /\ \A i \in DOMAIN sent', c \in Channels : Takes(i, c)' =>
              \E j \in DOMAIN sent' : j > i /\ Lists(j)'
         /\ \A i \in DOMAIN sent' : sent'[i].kind = "gone" =>
              \E j \in DOMAIN sent' : j > i /\ IsOwner(j)'
<1>1. UNCHANGED <<objects, value, live, silent>>
  BY DEF daemon
<1>2. \A i \in 1..n, j \in 1..(n + 1) : j > i + 1 => j - 1 \in 1..n /\ (j - 1) + 1 = j /\ j - 1 > i
  BY DEF Shifted
<1>3. \A p \in Paths : Spoken(p)'
  <2>1. ASSUME NEW p \in Paths, NEW i \in 1..n, LastWord(i, p)'
        PROVE  IF p \in objects' THEN sent'[i].kind = "props" /\ (sent'[i].value = value'[p] \/ p \in silent')
                                 ELSE sent'[i].kind = "removed"
    <3>1. i + 1 \in DOMAIN sent /\ LastWord(i + 1, p) /\ sent'[i] = sent[i + 1] /\ Spoken(p)
      BY <2>1 DEF Shifted, Faithful
    <3>2. QED
      BY <1>1, <3>1 DEF Spoken
  <2>2. QED
    BY <2>1 DEF Spoken, Shifted
<1>4. ASSUME NEW c \in Channels, c \notin Range(live'), NEW i \in 1..n, Lists(i)',
             c \in Range(sent'[i].order)
      PROVE  \E j \in 1..n : j > i /\ Takes(j, c)'
  <2>1. i + 1 \in DOMAIN sent /\ Lists(i + 1) /\ sent'[i] = sent[i + 1] /\ TakenOff(c)
    BY <1>4 DEF Shifted, Faithful
  <2>2. PICK j \in 1..(n + 1) : j > i + 1 /\ Takes(j, c)
    BY <1>1, <1>4, <2>1 DEF TakenOff, Shifted
  <2>3. j - 1 \in 1..n /\ (j - 1) + 1 = j /\ j - 1 > i
    BY <1>2, <2>2
  <2>4. Takes(j - 1, c)'
    BY <2>2, <2>3 DEF Shifted
  <2>5. QED
    BY <2>3, <2>4
<1>5. ASSUME NEW i \in 1..n, Lists(i)', \A j \in 1..n : Lists(j)' => j <= i
      PROVE  sent'[i].order = live'
  <2>1. i + 1 \in DOMAIN sent /\ Lists(i + 1) /\ sent'[i] = sent[i + 1] /\ InOrder
    BY <1>5 DEF Shifted, Faithful
  <2>2. ASSUME NEW j \in DOMAIN sent, Lists(j) PROVE j <= i + 1
    <3>1. j \in 1..(n + 1) /\ n \in Nat
      BY DEF Shifted
    <3>2. CASE j = 1
      BY <3>2
    <3>3. CASE j # 1
      <4>1. j - 1 \in 1..n /\ Lists(j - 1)'
        BY <2>2, <3>1, <3>3 DEF Shifted
      <4>2. j - 1 <= i
        BY <1>5, <4>1
      <4>3. QED
        BY <3>1, <4>2
    <3>4. QED
      BY <3>2, <3>3
  <2>3. QED
    BY <1>1, <2>1, <2>2 DEF InOrder
<1>6. ASSUME NEW i \in 1..n, NEW c \in Channels, Takes(i, c)'
      PROVE  \E j \in 1..n : j > i /\ Lists(j)'
  <2>1. i + 1 \in DOMAIN sent /\ Takes(i + 1, c) /\ InOrder
    BY <1>6 DEF Shifted, Faithful
  <2>2. PICK j \in 1..(n + 1) : j > i + 1 /\ Lists(j)
    BY <2>1 DEF InOrder, Shifted
  <2>3. j - 1 \in 1..n /\ (j - 1) + 1 = j /\ j - 1 > i
    BY <1>2, <2>2
  <2>4. Lists(j - 1)'
    BY <2>2, <2>3 DEF Shifted
  <2>5. QED
    BY <2>3, <2>4
<1>7. ASSUME NEW i \in 1..n, sent'[i].kind = "gone"
      PROVE  \E j \in 1..n : j > i /\ IsOwner(j)'
  <2>1. i + 1 \in DOMAIN sent /\ sent[i + 1].kind = "gone" /\ Connected
    BY <1>7 DEF Shifted, Faithful
  <2>2. PICK j \in 1..(n + 1) : j > i + 1 /\ IsOwner(j)
    BY <2>1 DEF Connected, Shifted
  <2>3. j - 1 \in 1..n /\ (j - 1) + 1 = j /\ j - 1 > i
    BY <1>2, <2>2
  <2>4. IsOwner(j - 1)'
    BY <2>2, <2>3 DEF Shifted
  <2>5. QED
    BY <2>3, <2>4
<1>8. DOMAIN sent' = 1..n
  BY DEF Shifted
<1>9. QED
  BY <1>3, <1>4, <1>5, <1>6, <1>7, <1>8

\* A new owner: everything is asked for again.
LEMMA OwnerStep ==
  ASSUME IInv, Receive, Head(sent).kind = "owner"
  PROVE  IInv'
<1>1. TypeOK /\ DaemonTyped /\ ClientTyped /\ CountsTyped
  BY Types DEF IInv
<1>2. /\ ~waiting /\ sent # <<>> /\ sent' = Tail(sent) /\ waiting' = TRUE
      /\ calls' = Append(calls, [op |-> "managed"])
      /\ UNCHANGED <<available, mirror, order, daemon, answer, silent, counts>>
  BY DEF Receive, AskForAll, Call
<1>3. answer = None /\ answer' = None
  BY <1>2 DEF IInv, OneSnapshot
<1>4. PICK call \in Requests : call = [op |-> "managed"]
  BY DEF Requests
<1>5. /\ calls' \in Seq(Requests)
      /\ \A i \in DOMAIN calls' : calls'[i].op = "managed" => i = Len(calls) + 1
  <2>1. /\ calls' \in Seq(Requests)
        /\ \A i \in DOMAIN calls' : calls'[i].op = "managed" =>
             \/ i \in DOMAIN calls /\ calls[i].op = "managed"
             \/ i = Len(calls) + 1 /\ call.op = "managed"
    BY <1>2, <1>4, Calls
  <2>2. \A i \in DOMAIN calls : calls[i].op # "managed"
    BY <1>2 DEF IInv, OneSnapshot
  <2>3. QED
    BY <2>1, <2>2
<1>6. OneSnapshot'
  BY <1>2, <1>3, <1>5 DEF OneSnapshot
<1>7. sent' \in Seq(Messages)
  BY <1>1, <1>2 DEF DaemonTyped
<1>8. DaemonTyped' /\ ClientTyped' /\ CountsTyped'
  BY <1>1, <1>2, <1>5, <1>7 DEF DaemonTyped, ClientTyped, CountsTyped, daemon, counts
<1>9. ASSUME up PROVE Faithful'
  <2>1. PICK n \in Nat : Shifted(n)
    BY <1>1, <1>2, Shift
  <2>2. Faithful
    BY DEF IInv
  <2>3. Exported' /\ Open'
    BY <1>2, <1>3, <1>9, <2>2 DEF Faithful, Exported, Open, daemon
  <2>4. Connected'
    <3>1. answer' # Refused
      BY <1>3, ClientAssumption
    <3>2. QED
      BY <1>1, <1>2, <1>9, <2>1, <2>2, <3>1, Remaining DEF Connected
  <2>5. InOrder'
    BY <1>1, <1>2, <1>9, <2>1, <2>2, <2>3, Remaining DEF InOrder
  <2>6. \A p \in Paths : Spoken(p)' /\ Kept(p)'
    BY <1>1, <1>2, <1>9, <2>1, <2>2, <2>3, Remaining DEF Kept
  <2>7. \A c \in Channels : TakenOff(c)'
    BY <1>1, <1>2, <1>9, <2>1, <2>2, <2>3, Remaining DEF TakenOff
  <2>8. QED
    BY <2>3, <2>4, <2>5, <2>6, <2>7 DEF Faithful
<1>10. Faithful'
  BY <1>2, <1>9 DEF Faithful, daemon
<1>11. QED
  BY <1>6, <1>8, <1>10, NextTypes DEF IInv

\* What a signal other than that one does to the mirror and to the list.
Absorbs ==
  LET m == Head(sent) IN
  \/ m.kind = "props" /\ Absorb(m.path, m.value) /\ UNCHANGED <<calls, available>>
  \/ m.kind = "removed" /\ Drop(m.path) /\ UNCHANGED <<calls, available>>
  \/ /\ m.kind = "order"
     /\ order' = IF m.order = <<>> THEN order ELSE m.order
     /\ UNCHANGED <<calls, available, mirror>>
  \/ /\ m.kind = "reply"
     /\ \E v \in Accepted : Write(Chan(m.channel), v)
     /\ UNCHANGED <<available, order>>
  \/ m.kind = "gone" /\ available' = FALSE /\ UNCHANGED <<calls, mirror, order>>

LEMMA AbsorbsTypes ==
  ASSUME IInv, sent # <<>>, Absorbs
  PROVE  /\ mirror' \in [Paths -> Accepted \cup {Refused, None}] /\ order' \in Orders
         /\ calls' \in Seq(Requests) /\ available' \in BOOLEAN /\ Calling
         /\ \A i \in DOMAIN calls' : calls'[i].op = "managed" =>
              i \in DOMAIN calls /\ calls[i].op = "managed"
<1>1. TypeOK /\ ClientTyped
  BY Types DEF IInv
<1>2. PICK m \in Messages : m = Head(sent)
  BY <1>1 DEF TypeOK
<1>3. UNCHANGED calls => /\ calls' \in Seq(Requests) /\ Calling
                         /\ \A i \in DOMAIN calls' : calls'[i].op = "managed" =>
                              i \in DOMAIN calls /\ calls[i].op = "managed"
  BY <1>1 DEF ClientTyped, Calling, Asked
<1>4. CASE m.kind = "props"
  <2>1. m.path \in Paths /\ m.value \in Accepted
    BY <1>4 DEF Messages
  <2>2. /\ mirror' = [mirror EXCEPT ![m.path] = m.value] /\ UNCHANGED <<calls, available>>
        /\ order' = IF m.path[1] = "channel" /\ ChannelOf(m.path) \notin Range(order)
                      THEN Append(order, ChannelOf(m.path)) ELSE order
    BY <1>2, <1>4 DEF Absorbs, Absorb
  <2>3. ChannelOf(m.path) \in Channels
    BY <2>1, PathsAre
  <2>4. order' \in Orders
    BY <1>1, <2>2, <2>3, Appended DEF ClientTyped
  <2>5. QED
    BY <1>1, <1>3, <2>1, <2>2, <2>4 DEF ClientTyped
<1>5. CASE m.kind = "removed"
  <2>1. m.path \in Paths
    BY <1>5 DEF Messages
  <2>2. /\ mirror' = [mirror EXCEPT ![m.path] = None] /\ UNCHANGED <<calls, available>>
        /\ order' = IF m.path[1] = "channel" THEN RemoveFirst(order, ChannelOf(m.path)) ELSE order
    BY <1>2, <1>5 DEF Absorbs, Drop
  <2>3. order' \in Orders
    BY <1>1, <2>2, Without DEF ClientTyped
  <2>4. QED
    BY <1>1, <1>3, <2>1, <2>2, <2>3 DEF ClientTyped
<1>6. CASE m.kind = "order"
  <2>1. m.order \in Orders
    BY <1>6 DEF Messages
  <2>2. order' = (IF m.order = <<>> THEN order ELSE m.order) /\ UNCHANGED <<calls, available, mirror>>
    BY <1>2, <1>6 DEF Absorbs
  <2>3. QED
    BY <1>1, <1>3, <2>1, <2>2 DEF ClientTyped
<1>7. CASE m.kind = "reply"
  <2>1. m.channel \in Channels
    BY <1>7 DEF Messages
  <2>2. PICK v \in Accepted : Write(Chan(m.channel), v) /\ UNCHANGED <<available, order>>
    BY <1>2, <1>7 DEF Absorbs
  <2>3. PICK p \in Paths : p = Chan(m.channel)
    BY <2>1, PathsAre
  <2>4. PICK call \in Requests : call = [op |-> "set", arg |-> p, value |-> v]
    BY DEF Requests
  <2>5. calls' = Append(calls, call) /\ mirror' = [mirror EXCEPT ![p] = v] /\ call.op # "managed"
    BY <2>2, <2>3, <2>4 DEF Write, Call
  <2>6. /\ calls' \in Seq(Requests) /\ Calling
        /\ \A i \in DOMAIN calls' : calls'[i].op = "managed" =>
             \/ i \in DOMAIN calls /\ calls[i].op = "managed"
             \/ i = Len(calls) + 1 /\ call.op = "managed"
    BY <2>5, Calls
  <2>7. QED
    BY <1>1, <2>2, <2>5, <2>6 DEF ClientTyped
<1>8. CASE m.kind = "gone"
  <2>1. available' = FALSE /\ UNCHANGED <<calls, mirror, order>>
    BY <1>2, <1>8 DEF Absorbs
  <2>2. QED
    BY <1>1, <1>3, <2>1 DEF ClientTyped
<1>9. QED
  BY <1>2, <1>4, <1>5, <1>6, <1>7, <1>8 DEF Absorbs

\* The client after it, where no new owner is on its way.
LEMMA AbsorbsMirror ==
  ASSUME TypeOK, Faithful, up, ~waiting, ~OwnerDue, sent # <<>>, Absorbs,
         UNCHANGED <<daemon, waiting, answer, silent>>, NEW n \in Nat, Shifted(n), Calling,
         NEW p \in Paths
  PROVE  Kept(p)'
<1>1. PICK m \in Messages : m = Head(sent) /\ m = sent[1]
  BY DEF TypeOK
<1>2. UNCHANGED <<objects, value, silent>> /\ 1 \in DOMAIN sent /\ Current(1)
  BY DEF daemon, Current, OwnerDue, Shifted
<1>3. Mirror = mirror /\ Mirror' = mirror' /\ Open = FALSE
  BY DEF Mirror, Open
<1>4. Kept(p) /\ Spoken(p)
  BY DEF Faithful
<1>5. SUFFICES ASSUME Unsaid(p)'
               PROVE  IF p \in objects
                        THEN mirror'[p] # None /\ (mirror'[p] = value[p] \/ p \in silent \/ Asked(p)')
                        ELSE p[1] = "cell" => mirror'[p] = None
  BY <1>2, <1>3 DEF Kept
<1>6. \A j \in DOMAIN sent : j # 1 => ~About(j, p)
  <2>1. ASSUME NEW j \in 1..(n + 1), j # 1, About(j, p) PROVE FALSE
    <3>1. j - 1 \in 1..n /\ (j - 1) + 1 = j
      BY <2>1 DEF Shifted
    <3>2. Current(j)
      BY <2>1 DEF Current, OwnerDue, Shifted
    <3>3. Current(j - 1)' /\ About(j - 1, p)'
      BY <2>1, <3>1, <3>2 DEF Shifted
    <3>4. QED
      BY <1>5, <3>1, <3>3 DEF Unsaid, Shifted
  <2>2. QED
    BY <2>1 DEF Shifted
<1>7. mirror \in [Paths -> Accepted \cup {Refused, None}]
  BY DEF TypeOK
<1>8. CASE About(1, p)
  <2>1. LastWord(1, p)
    BY <1>2, <1>6, <1>8 DEF LastWord
  <2>2. IF p \in objects THEN m.kind = "props" /\ (m.value = value[p] \/ p \in silent)
                         ELSE m.kind = "removed"
    BY <1>1, <1>2, <1>4, <2>1 DEF Spoken
  <2>3. m.path = p
    BY <1>1, <1>8 DEF About
  <2>4. CASE p \in objects
    <3>1. mirror' = [mirror EXCEPT ![p] = m.value]
      BY <1>1, <2>2, <2>3, <2>4 DEF Absorbs, Absorb
    <3>2. m.value \in Accepted
      BY <2>2, <2>4 DEF Messages
    <3>3. mirror'[p] = m.value /\ m.value # None
      BY <1>7, <3>1, <3>2, ClientAssumption
    <3>4. QED
      BY <2>2, <2>4, <3>3
  <2>5. CASE p \notin objects
    <3>1. mirror' = [mirror EXCEPT ![p] = None]
      BY <1>1, <2>2, <2>3, <2>5 DEF Absorbs, Drop
    <3>2. mirror'[p] = None
      BY <1>7, <3>1
    <3>3. QED
      BY <2>5, <3>2
  <2>6. QED
    BY <2>4, <2>5
<1>9. CASE ~About(1, p)
  <2>1. Unsaid(p)
    BY <1>6, <1>9 DEF Unsaid
  <2>2. IF p \in objects
          THEN mirror[p] # None /\ (mirror[p] = value[p] \/ p \in silent \/ Asked(p))
          ELSE p[1] = "cell" => mirror[p] = None
    BY <1>3, <1>4, <2>1 DEF Kept
  <2>3. Asked(p) => Asked(p)'
    BY DEF Calling
  <2>4. CASE m.kind \in {"props", "removed"}
    <3>1. m.path # p
      BY <1>1, <1>9, <2>4 DEF About
    <3>2. mirror'[p] = mirror[p]
      BY <1>1, <1>7, <2>4, <3>1 DEF Absorbs, Absorb, Drop
    <3>3. QED
      BY <2>2, <2>3, <3>2
  <2>5. CASE m.kind = "reply"
    <3>1. PICK v \in Accepted : Write(Chan(m.channel), v)
      BY <1>1, <2>5 DEF Absorbs
    <3>2. PICK q \in Paths : q = Chan(m.channel) /\ q[1] = "channel"
      <4>1. m.channel \in Channels
        BY <2>5 DEF Messages
      <4>2. QED
        BY <4>1, PathsAre DEF Chan
    <3>3. PICK call \in Requests : call = [op |-> "set", arg |-> q, value |-> v]
      BY DEF Requests
    <3>4. calls' = Append(calls, call) /\ mirror' = [mirror EXCEPT ![q] = v]
      BY <3>1, <3>2, <3>3 DEF Write, Call
    <3>5. CASE p = q
      <4>1. Asked(p)'
        <5>1. calls \in Seq(Requests)
          BY DEF TypeOK
        <5>2. PICK k \in DOMAIN calls' : calls'[k] = call
          BY <3>4, <5>1
        <5>3. QED
          BY <3>3, <3>5, <5>2 DEF Asked
      <4>2. mirror'[p] = v /\ v # None
        BY <1>7, <3>4, <3>5, ClientAssumption
      <4>3. QED
        BY <3>2, <3>5, <4>1, <4>2
    <3>6. CASE p # q
      <4>1. mirror'[p] = mirror[p]
        BY <1>7, <3>4, <3>6
      <4>2. QED
        BY <2>2, <2>3, <4>1
    <3>7. QED
      BY <3>5, <3>6
  <2>6. CASE m.kind \in {"order", "gone"}
    <3>1. mirror' = mirror
      BY <1>1, <2>6 DEF Absorbs
    <3>2. QED
      BY <2>2, <2>3, <3>1
  <2>7. QED
    BY <1>1, <2>4, <2>5, <2>6 DEF Absorbs
<1>10. QED
  BY <1>8, <1>9

LEMMA AbsorbsOrder ==
  ASSUME TypeOK, Faithful, up, ~waiting, ~OwnerDue, sent # <<>>, Absorbs,
         UNCHANGED <<daemon, waiting, answer, silent>>, NEW n \in Nat, Shifted(n)
  PROVE  /\ (\A i \in DOMAIN sent' : ~Lists(i)') => order' = live
         /\ \A c \in Channels : c \notin Range(live) /\ c \in Range(order') =>
              \E j \in DOMAIN sent' : Takes(j, c)'
<1>1. PICK m \in Messages : m = Head(sent) /\ m = sent[1]
  BY DEF TypeOK
<1>2. 1 \in DOMAIN sent /\ \A i \in DOMAIN sent : Current(i)
  BY DEF Current, OwnerDue, Shifted
<1>3. Order = order /\ Open = FALSE
  BY DEF Order, Open
<1>4. /\ InOrder /\ live \in Orders /\ order \in Orders
      /\ \A c \in Channels : TakenOff(c)
  BY DEF Faithful, TypeOK
<1>5. \A j \in DOMAIN sent : j # 1 => j - 1 \in DOMAIN sent' /\ (j - 1) + 1 = j
  BY DEF Shifted
\* a removal that is still there after this one
<1>6. ASSUME NEW c \in Channels, NEW j \in DOMAIN sent, j # 1, Takes(j, c)
      PROVE  \E k \in DOMAIN sent' : Takes(k, c)'
  <2>1. j - 1 \in DOMAIN sent' /\ (j - 1) + 1 = j
    BY <1>5, <1>6
  <2>2. Takes(j - 1, c)'
    BY <1>6, <2>1 DEF Shifted
  <2>3. QED
    BY <2>1, <2>2
<1>7. ASSUME NEW j \in DOMAIN sent, j # 1, Lists(j)
      PROVE  \E k \in DOMAIN sent' : Lists(k)'
  <2>1. j - 1 \in DOMAIN sent' /\ (j - 1) + 1 = j
    BY <1>5, <1>7
  <2>2. Lists(j - 1)'
    BY <1>7, <2>1 DEF Shifted
  <2>3. QED
    BY <2>1, <2>2
<1>8. ASSUME NEW c \in Channels, NEW j \in DOMAIN sent, Takes(j, c)
      PROVE  \E k \in DOMAIN sent' : Lists(k)'
  <2>1. PICK k \in DOMAIN sent : k > j /\ Lists(k)
    BY <1>4, <1>8 DEF InOrder
  <2>2. k # 1
    BY <2>1 DEF Shifted
  <2>3. QED
    BY <1>7, <2>1, <2>2
<1>9. CASE m.kind = "order"
  <2>1. order' = (IF m.order = <<>> THEN order ELSE m.order) /\ m.order \in Orders
    BY <1>1, <1>9 DEF Absorbs, Messages
  <2>2. Lists(1)
    BY <1>1, <1>2, <1>9 DEF Lists
  <2>3. ASSUME NEW c \in Channels, c \notin Range(live), c \in Range(order')
        PROVE  \E k \in DOMAIN sent' : Takes(k, c)'
    <3>1. CASE c \in Range(m.order)
      <4>1. PICK j \in DOMAIN sent : j > 1 /\ Takes(j, c)
        BY <1>1, <1>2, <1>4, <2>2, <2>3, <3>1 DEF TakenOff
      <4>2. QED
        BY <1>6, <4>1
    <3>2. CASE c \notin Range(m.order)
      <4>1. c \in Range(order)
        BY <2>1, <2>3, <3>2
      <4>2. PICK j \in DOMAIN sent : Takes(j, c)
        BY <1>3, <1>4, <2>3, <4>1 DEF TakenOff
      <4>3. j # 1
        BY <1>1, <1>9, <4>2 DEF Takes
      <4>4. QED
        BY <1>6, <4>2, <4>3
    <3>3. QED
      BY <3>1, <3>2
  <2>4. ASSUME \A i \in DOMAIN sent' : ~Lists(i)' PROVE order' = live
    <3>1. \A j \in DOMAIN sent : Lists(j) => j <= 1
      BY <1>2, <1>7, <2>4
    <3>2. m.order = live
      BY <1>1, <1>2, <1>4, <2>2, <3>1 DEF InOrder
    <3>3. CASE m.order # <<>>
      BY <2>1, <3>2, <3>3
    <3>4. CASE m.order = <<>>
      <4>1. \A c \in Channels : c \notin Range(order)
        <5>1. SUFFICES ASSUME NEW c \in Channels, c \in Range(order) PROVE FALSE
          OBVIOUS
        <5>2. c \notin Range(live)
          BY <3>2, <3>4, NoChannels
        <5>3. PICK j \in DOMAIN sent : Takes(j, c)
          BY <1>3, <1>4, <5>1, <5>2 DEF TakenOff
        <5>4. QED
          BY <1>8, <2>4, <5>3
      <4>2. order = <<>>
        <5>1. order \in Seq(Channels) /\ Range(order) \subseteq Channels
          BY <1>4, OrderIs
        <5>2. DOMAIN order = {}
          BY <4>1, <5>1 DEF Range
        <5>3. QED
          BY <5>1, <5>2
      <4>3. QED
        BY <2>1, <3>2, <3>4, <4>2
    <3>5. QED
      BY <3>3, <3>4
  <2>5. QED
    BY <2>3, <2>4
<1>10. CASE m.kind # "order"
  <2>1. ~Lists(1)
    BY <1>1, <1>10 DEF Lists
  <2>2. ASSUME \A i \in DOMAIN sent' : ~Lists(i)'
        PROVE  order = live /\ \A c \in Channels, j \in DOMAIN sent : ~Takes(j, c)
    <3>1. \A i \in DOMAIN sent : ~Lists(i)
      BY <1>7, <2>1, <2>2
    <3>2. QED
      BY <1>3, <1>4, <1>8, <2>2, <3>1 DEF InOrder
  <2>3. CASE m.kind = "props"
    <3>1. m.path \in Paths
      BY <2>3 DEF Messages
    <3>2. PICK c \in Channels : c = ChannelOf(m.path)
      BY <3>1, PathsAre
    <3>3. order' = IF m.path[1] = "channel" /\ c \notin Range(order) THEN Append(order, c) ELSE order
      BY <1>1, <2>3, <3>2 DEF Absorbs, Absorb
    <3>4. ASSUME m.path[1] = "channel", c \notin Range(live)
          PROVE  \E j \in DOMAIN sent : j # 1 /\ Takes(j, c)
      <4>1. m.path = Chan(c)
        BY <3>1, <3>2, <3>4, PathsAre DEF Cell
      <4>2. About(1, Chan(c))
        BY <1>1, <2>3, <4>1 DEF About
      <4>3. PICK j \in DOMAIN sent : Takes(j, c)
        BY <1>2, <3>4, <4>2, Gone
      <4>4. j # 1
        BY <1>1, <2>3, <4>3 DEF Takes
      <4>5. QED
        BY <4>3, <4>4
    <3>5. ASSUME \A i \in DOMAIN sent' : ~Lists(i)' PROVE order' = live
      <4>1. order = live /\ \A j \in DOMAIN sent : ~Takes(j, c)
        BY <2>2, <3>5
      <4>2. QED
        BY <3>3, <3>4, <4>1
    <3>6. ASSUME NEW d \in Channels, d \notin Range(live), d \in Range(order')
          PROVE  \E k \in DOMAIN sent' : Takes(k, d)'
      <4>1. CASE d \in Range(order)
        <5>1. PICK j \in DOMAIN sent : Takes(j, d)
          BY <1>3, <1>4, <3>6, <4>1 DEF TakenOff
        <5>2. j # 1
          BY <1>1, <2>3, <5>1 DEF Takes
        <5>3. QED
          BY <1>6, <5>1, <5>2
      <4>2. CASE d \notin Range(order)
        <5>1. m.path[1] = "channel" /\ c \notin Range(order) /\ d = c
          BY <1>4, <3>3, <3>6, <4>2, Appended
        <5>2. PICK j \in DOMAIN sent : j # 1 /\ Takes(j, d)
          BY <3>4, <3>6, <5>1
        <5>3. QED
          BY <1>6, <5>2
      <4>3. QED
        BY <4>1, <4>2
    <3>7. QED
      BY <3>5, <3>6
  <2>4. CASE m.kind = "removed"
    <3>1. m.path \in Paths
      BY <2>4 DEF Messages
    <3>2. PICK c \in Channels : c = ChannelOf(m.path)
      BY <3>1, PathsAre
    <3>3. order' = IF m.path[1] = "channel" THEN RemoveFirst(order, c) ELSE order
      BY <1>1, <2>4, <3>2 DEF Absorbs, Drop
    <3>4. m.path[1] = "channel" => Takes(1, c)
      <4>1. m.path[1] = "channel" => m.path = Chan(c)
        BY <3>1, <3>2, PathsAre DEF Cell
      <4>2. QED
        BY <1>1, <1>2, <2>4, <4>1 DEF Takes
    <3>5. ASSUME \A i \in DOMAIN sent' : ~Lists(i)' PROVE order' = live
      BY <1>2, <2>2, <3>3, <3>4, <3>5
    <3>6. ASSUME NEW d \in Channels, d \notin Range(live), d \in Range(order')
          PROVE  \E k \in DOMAIN sent' : Takes(k, d)'
      <4>1. d \in Range(order) /\ (m.path[1] = "channel" => d # c)
        BY <1>4, <3>3, <3>6, Without
      <4>2. PICK j \in DOMAIN sent : Takes(j, d)
        BY <1>3, <1>4, <3>6, <4>1 DEF TakenOff
      <4>3. j # 1
        <5>1. SUFFICES ASSUME j = 1 PROVE FALSE
          OBVIOUS
        <5>2. m.path = Chan(d)
          BY <1>1, <4>2, <5>1 DEF Takes
        <5>3. m.path[1] = "channel" /\ c = d
          BY <3>2, <5>2 DEF Chan, ChannelOf
        <5>4. QED
          BY <4>1, <5>3
      <4>4. QED
        BY <1>6, <4>2, <4>3
    <3>7. QED
      BY <3>5, <3>6
  <2>5. CASE m.kind \in {"reply", "gone"}
    <3>1. order' = order
      BY <1>1, <2>5 DEF Absorbs
    <3>2. ASSUME NEW d \in Channels, d \notin Range(live), d \in Range(order)
          PROVE  \E k \in DOMAIN sent' : Takes(k, d)'
      <4>1. PICK j \in DOMAIN sent : Takes(j, d)
        BY <1>3, <1>4, <3>2 DEF TakenOff
      <4>2. j # 1
        BY <1>1, <2>5, <4>1 DEF Takes
      <4>3. QED
        BY <1>6, <4>1, <4>2
    <3>3. QED
      BY <2>2, <3>1, <3>2
  <2>6. QED
    BY <1>1, <1>10, <2>3, <2>4, <2>5 DEF Absorbs
<1>11. QED
  BY <1>9, <1>10

LEMMA ReceiveStep ==
  ASSUME IInv, Receive
  PROVE  IInv'
<1>1. TypeOK /\ DaemonTyped /\ ClientTyped /\ CountsTyped
  BY Types DEF IInv
<1>2. CASE Head(sent).kind = "owner"
  BY <1>2, OwnerStep
<1>3. CASE Head(sent).kind # "owner"
  <2>1. /\ ~waiting /\ sent # <<>> /\ sent' = Tail(sent) /\ Absorbs
        /\ UNCHANGED <<waiting, daemon, answer, silent, counts>>
    BY <1>3 DEF Receive, Absorbs
  <2>2. answer = None
    BY <2>1 DEF IInv, OneSnapshot
  <2>3. /\ mirror' \in [Paths -> Accepted \cup {Refused, None}] /\ order' \in Orders
        /\ calls' \in Seq(Requests) /\ available' \in BOOLEAN /\ Calling
        /\ \A i \in DOMAIN calls' : calls'[i].op = "managed" =>
              i \in DOMAIN calls /\ calls[i].op = "managed"
    BY <2>1, AbsorbsTypes
  <2>4. sent' \in Seq(Messages)
    BY <1>1, <2>1 DEF DaemonTyped
  <2>5. DaemonTyped' /\ ClientTyped' /\ CountsTyped'
    BY <1>1, <2>1, <2>3, <2>4 DEF DaemonTyped, ClientTyped, CountsTyped, daemon, counts
  <2>6. OneSnapshot'
    BY <2>1, <2>2, <2>3 DEF IInv, OneSnapshot
  <2>7. ASSUME up PROVE Faithful'
    <3>1. PICK n \in Nat : Shifted(n)
      BY <1>1, <2>1, Shift
    <3>2. Faithful
      BY DEF IInv
    <3>3. UNCHANGED <<live, objects, up>>
      BY <2>1 DEF daemon
    <3>4. Exported'
      BY <2>7, <3>2, <3>3 DEF Faithful, Exported
    <3>5. Order' = order' /\ (Open' <=> OwnerDue')
      BY <2>1 DEF Order, Open
    <3>6. sent[1] = Head(sent) /\ sent[1].kind # "owner"
      BY <1>1, <1>3, <2>1 DEF DaemonTyped
    <3>7. OwnerDue' <=> OwnerDue
      <4>1. ASSUME OwnerDue PROVE OwnerDue'
        <5>1. PICK j \in DOMAIN sent : IsOwner(j)
          BY <4>1 DEF OwnerDue
        <5>2. j # 1
          BY <3>6, <5>1 DEF IsOwner
        <5>3. j - 1 \in DOMAIN sent' /\ (j - 1) + 1 = j
          BY <3>1, <5>2 DEF Shifted
        <5>4. IsOwner(j - 1)'
          BY <3>1, <5>1, <5>3 DEF Shifted
        <5>5. QED
          BY <5>3, <5>4 DEF OwnerDue
      <4>2. ASSUME OwnerDue' PROVE OwnerDue
        <5>1. PICK j \in DOMAIN sent' : IsOwner(j)'
          BY <4>2 DEF OwnerDue
        <5>2. j + 1 \in DOMAIN sent /\ IsOwner(j + 1)
          BY <3>1, <5>1 DEF Shifted
        <5>3. QED
          BY <5>2 DEF OwnerDue
      <4>3. QED
        BY <4>1, <4>2
    <3>8. ASSUME ~OwnerDue'
          PROVE  /\ (\A i \in DOMAIN sent' : ~Lists(i)') => order' = live
                 /\ \A c \in Channels : c \notin Range(live) /\ c \in Range(order') =>
                      \E j \in DOMAIN sent' : Takes(j, c)'
      BY <1>1, <2>1, <2>7, <3>1, <3>2, <3>7, <3>8, AbsorbsOrder
    <3>9. Connected'
      <4>1. ASSUME ~OwnerDue' PROVE available'
        <5>1. available
          BY <2>1, <2>7, <3>2, <3>7, <4>1 DEF Faithful, Connected
        <5>2. Head(sent).kind # "gone"
          <6>1. SUFFICES ASSUME sent[1].kind = "gone" PROVE FALSE
            BY <3>6
          <6>2. 1 \in DOMAIN sent
            BY <3>1 DEF Shifted
          <6>3. OwnerDue
            BY <2>7, <3>2, <6>1, <6>2 DEF Faithful, Connected, OwnerDue
          <6>4. QED
            BY <3>7, <4>1, <6>3
        <5>3. available' = available
          BY <2>1, <5>2 DEF Absorbs
        <5>4. QED
          BY <5>1, <5>3
      <4>2. answer' # Refused
        BY <2>1, <2>2, ClientAssumption
      <4>3. QED
        BY <1>1, <2>1, <2>7, <3>1, <3>2, <4>1, <4>2, Remaining DEF Connected
    <3>10. InOrder'
      BY <1>1, <2>1, <2>7, <3>1, <3>2, <3>3, <3>5, <3>8, Remaining DEF InOrder
    <3>11. ASSUME NEW p \in Paths PROVE Spoken(p)' /\ Kept(p)'
      <4>1. Spoken(p)'
        BY <1>1, <2>1, <2>7, <3>1, <3>2, Remaining
      <4>2. CASE OwnerDue'
        BY <3>5, <4>1, <4>2 DEF Kept
      <4>3. CASE ~OwnerDue'
        BY <1>1, <2>1, <2>3, <2>7, <3>1, <3>2, <3>7, <4>1, <4>3, AbsorbsMirror
      <4>4. QED
        BY <4>2, <4>3
    <3>12. ASSUME NEW c \in Channels PROVE TakenOff(c)'
      <4>1. c \notin Range(live') =>
              \A i \in DOMAIN sent' : Lists(i)' /\ c \in Range(sent'[i].order) =>
                \E j \in DOMAIN sent' : j > i /\ Takes(j, c)'
        BY <1>1, <2>1, <2>7, <3>1, <3>2, Remaining
      <4>2. QED
        BY <3>3, <3>5, <3>8, <4>1 DEF TakenOff
    <3>13. QED
      BY <3>4, <3>9, <3>10, <3>11, <3>12 DEF Faithful
  <2>8. Faithful'
    BY <2>1, <2>7 DEF Faithful, daemon
  <2>9. QED
    BY <2>5, <2>6, <2>8, NextTypes DEF IInv
<1>4. QED
  BY <1>2, <1>3
-----------------------------------------------------------------------------
LEMMA InitIInv == Init => IInv
<1> SUFFICES ASSUME Init PROVE IInv
  OBVIOUS
<1>1. Wanted(Desk, Desk) \in SUBSET Paths
      /\ \A c \in Channels : Chan(c) \in Wanted(Desk, Desk) <=> c \in Range(Desk)
  BY ClientAssumption, WantedIs
<1>2. [op |-> "managed"] \in Requests
  BY DEF Requests
<1>3. /\ calls \in Seq(Requests) /\ DOMAIN calls = {1} /\ sent \in Seq(Messages) /\ DOMAIN sent = {}
  BY <1>2 DEF Init
<1>4. DaemonTyped
  BY <1>1, <1>3, ClientAssumption DEF Init, DaemonTyped, SinkStates
<1>5. ClientTyped
  BY <1>3, NoChannels DEF Init, ClientTyped
<1>6. CountsTyped
  BY ClientAssumption DEF Init, CountsTyped
<1>7. OneSnapshot
  BY <1>3 DEF Init, OneSnapshot
<1>8. Exported
  BY <1>1 DEF Init, Exported
<1>9. Open /\ Connected
  BY <1>3, ClientAssumption DEF Init, Open, Connected
<1>10. InOrder
  BY <1>3, <1>9 DEF InOrder
<1>11. \A p \in Paths : Spoken(p) /\ Kept(p)
  BY <1>3, <1>9 DEF Spoken, Kept
<1>12. \A c \in Channels : TakenOff(c)
  BY <1>3, <1>9 DEF TakenOff
<1>13. QED
  BY <1>4, <1>5, <1>6, <1>7, <1>8, <1>9, <1>10, <1>11, <1>12, Types DEF IInv, Faithful

LEMMA StutterIInv ==
  ASSUME IInv, UNCHANGED vars
  PROVE  IInv'
<1>1. TypeOK /\ DaemonTyped /\ ClientTyped /\ CountsTyped
  BY Types DEF IInv
<1>2. UNCHANGED <<daemon, calls, sent, client, silent, counts>>
  BY DEF vars, bus
<1>3. DaemonTyped' /\ CountsTyped'
  BY <1>1, <1>2 DEF DaemonTyped, CountsTyped, daemon, counts
<1>4. \A p \in Paths : Asked(p) => Asked(p)'
  BY <1>2 DEF Asked
<1>5. Faithful'
  <2>1. CASE up
    BY <1>2, <1>4, <2>1, NothingSaid DEF daemon
  <2>2. CASE ~up
    BY <1>2, <2>2 DEF Faithful, daemon
  <2>3. QED
    BY <2>1, <2>2
<1>6. QED
  BY <1>2, <1>3, <1>5, DaemonSteps

LEMMA NextIInv == IInv /\ [Next]_vars => IInv'
<1> SUFFICES ASSUME IInv, [Next]_vars PROVE IInv'
  OBVIOUS
<1>1. CASE DaemonNext
  BY <1>1, HandleCallStep, ReconcileStep, PwConnectsStep, StartStep DEF DaemonNext
<1>2. CASE PwNext
  BY <1>2, SinkArrivesStep, SinkGoesStep, OnNodeRemovedStep DEF PwNext
<1>3. CASE ClientNext
  BY <1>3, ReceiveStep, RefreshStep DEF ClientNext
<1>4. CASE UserActs
  BY <1>4, UserActsStep
<1>5. CASE OtherFrontend
  BY <1>5, OtherFrontendStep
<1>6. CASE WholeLayout
  BY <1>6, WholeLayoutStep
<1>7. CASE PwLost
  BY <1>7, PwLostStep
<1>8. CASE Crash
  BY <1>8, CrashStep
<1>9. CASE \E c \in Channels : SinkEchoes(c)
  BY <1>9, SinkEchoesStep
<1>10. CASE UNCHANGED vars
  BY <1>10, StutterIInv
<1>11. QED
  BY <1>1, <1>2, <1>3, <1>4, <1>5, <1>6, <1>7, <1>8, <1>9, <1>10 DEF Next

\* The inductive invariant holds of every behaviour.
LEMMA Invariance == Spec => []IInv
<1>1. QED
  BY InitIInv, NextIInv, PTL DEF Spec

\* Neither list of the daemon, nor the client's, ever names a channel twice, whatever
\* mixer.cpp 288 and 2320 and mixerclient.cpp 136 append, and every signal and call on the
\* bus is of an object there may be.
THEOREM TypeCorrect == Spec => []TypeOK
<1>1. IInv => TypeOK
  BY DEF IInv
<1>2. QED
  BY <1>1, Invariance, PTL

\* "A mirror of org.kmixdeck1 kept live via ObjectManager + PropertiesChanged"
\* (mixerclient.h 4): when the bus is idle, the client shows every object the daemon exports
\* and no other, in the daemon's order, with its values - for any set of channels, and however
\* many commands, whole layouts, crashes and losses of PipeWire came before.
THEOREM MirrorStaysTrue == Spec => []MirrorIsTrue
<1>1. ASSUME IInv, Quiet PROVE Mirrors
  <2>1. /\ up /\ Faithful /\ TypeOK /\ OneSnapshot /\ ~waiting /\ sent = <<>> /\ calls = <<>>
    BY <1>1 DEF IInv, Quiet
  <2>2. DOMAIN sent = {} /\ DOMAIN calls = {}
    BY <2>1
  <2>3. ~OwnerDue /\ ~Open /\ Mirror = mirror /\ Order = order
    BY <2>1, <2>2 DEF OwnerDue, Open, Mirror, Order
  <2>4. available
    BY <2>1, <2>3 DEF Faithful, Connected
  <2>5. order = live
    BY <2>1, <2>2, <2>3 DEF Faithful, InOrder
  <2>6. ASSUME NEW p \in Paths
        PROVE  IF p \in objects THEN mirror[p] # None /\ (mirror[p] = value[p] \/ p \in silent)
                                ELSE p[1] = "cell" => mirror[p] = None
    <3>1. Kept(p) /\ Unsaid(p) /\ ~Asked(p)
      BY <2>1, <2>2 DEF Faithful, Unsaid, Asked
    <3>2. QED
      BY <2>3, <3>1 DEF Kept
  <2>7. ASSUME NEW p \in Paths PROVE Shown(p) <=> p \in objects
    <3>1. CASE p[1] = "channel"
      <4>1. p = Chan(ChannelOf(p)) /\ ChannelOf(p) \in Channels
        BY <3>1, PathsAre DEF Cell
      <4>2. p \in objects <=> ChannelOf(p) \in Range(live)
        BY <2>1, <4>1 DEF Faithful, Exported
      <4>3. QED
        BY <2>5, <3>1, <4>2 DEF Shown
    <3>2. CASE p[1] # "channel"
      <4>1. p[1] = "cell"
        BY <3>2, PathsAre
      <4>2. QED
        BY <2>6, <3>2, <4>1 DEF Shown
    <3>3. QED
      BY <3>1, <3>2
  <2>8. objects \subseteq Paths
    BY <2>1 DEF TypeOK
  <2>9. QED
    BY <2>4, <2>5, <2>6, <2>7, <2>8 DEF Mirrors
<1>2. IInv => MirrorIsTrue
  BY <1>1 DEF MirrorIsTrue
<1>3. QED
  BY <1>2, Invariance, PTL
=============================================================================
