-------------------------- MODULE SignalFeed_proofs --------------------------
(***************************************************************************)
(* Proofs about SignalFeed for any pairs, publishers, limits and messages: *)
(* the consumer's candles have no hole, a hole it has seen stays asked     *)
(* for, and a channel gets the candles in the order of their analyses.     *)
(***************************************************************************)
EXTENDS SignalFeed, FiniteSetTheorems, SequenceTheorems, WellFoundedInduction, TLAPS
-----------------------------------------------------------------------------
(* A set of naturals has a least element, and a bounded one has a greatest. *)

Less == {ss \in Nat \X Nat : ss[1] < ss[2]}

LEMMA LessWellFounded == IsWellFoundedOn(Less, Nat)
  BY NatLessThanWellFounded, Zenon DEF OpToRel, Less

LEMMA LeastExists ==
  ASSUME NEW S \in SUBSET Nat, S # {}
  PROVE  \E x \in S : \A y \in S : x <= y
<1>1. PICK x \in S : \A y \in S : ~(<<y, x>> \in Less)
  BY LessWellFounded, WFMin
<1>2. ASSUME NEW y \in S
      PROVE  x <= y
  <2>1. ~(<<y, x>> \in Less) /\ x \in Nat /\ y \in Nat
    BY <1>1, <1>2
  <2>2. ASSUME NEW a \in Nat, NEW b \in Nat, ~(<<a, b>> \in Less)
        PROVE  b <= a
    BY <2>2 DEF Less
  <2> QED BY <2>1, <2>2
<1> QED BY <1>2

LEMMA GreatestExists ==
  ASSUME NEW n \in Nat, NEW S \in SUBSET (0..n), S # {}
  PROVE  \E x \in S : \A y \in S : y <= x
<1> DEFINE T == {n - x : x \in S}
<1>1. T \in SUBSET Nat /\ T # {}
  <2>1. \A x \in S : n - x \in Nat
    OBVIOUS
  <2> QED BY <2>1
<1>2. PICK m \in T : \A y \in T : m <= y
  BY <1>1, LeastExists
<1>3. PICK x \in S : m = n - x
  BY <1>2
<1>4. ASSUME NEW y \in S
      PROVE  y <= x
  <2>1. m <= n - y
    BY <1>2, <1>4
  <2> QED BY <1>3, <1>4, <2>1
<1> QED BY <1>3, <1>4
-----------------------------------------------------------------------------
(* Sets of candles *)

\* A set of candles without a hole.
Solid(S) == \A c, d \in S : c..d \subseteq S

LEMMA WithinIs ==
  ASSUME NEW n \in Nat, NEW S \in SUBSET (0..n), NEW x \in S
  PROVE  x \in Nat /\ x <= n
<1>1. x \in 0..n
  OBVIOUS
<1> QED BY <1>1

LEMMA MaxIs ==
  ASSUME NEW n \in Nat, NEW S \in SUBSET (0..n), S # {}
  PROVE  MaxOf(S) \in S /\ \A x \in S : x <= MaxOf(S)
<1>1. \E x \in S : \A y \in S : y <= x
  BY GreatestExists
<1> QED BY <1>1, Zenon DEF MaxOf

LEMMA MinIs ==
  ASSUME NEW S \in SUBSET Nat, S # {}
  PROVE  MinOf(S) \in S /\ \A x \in S : MinOf(S) <= x
<1>1. \E x \in S : \A y \in S : x <= y
  BY LeastExists
<1> QED BY <1>1, Zenon DEF MinOf

\* One candle is the newest of its own.
LEMMA MaxOfOne ==
  ASSUME NEW c \in Nat
  PROVE  MaxOf({c}) = c
<1>1. {c} \in SUBSET (0..c) /\ {c} # {}
  OBVIOUS
<1> QED BY <1>1, MaxIs

\* The newest candles of a pair that has some end with the last one.
LEMMA NewestIs ==
  ASSUME NEW p \in Pairs, NEW last \in Nat, NEW limit \in Nat
  PROVE  /\ Newest(p, last, limit) \in SUBSET (1..last) /\ Solid(Newest(p, last, limit))
         /\ last >= Listed[p] /\ limit > 0 =>
              Newest(p, last, limit) # {} /\ MaxOf(Newest(p, last, limit)) = last
<1> DEFINE N == Newest(p, last, limit)
<1>1. Listed[p] \in Nat \ {0}
  BY FeedAssumption
<1>2. N \in SUBSET (1..last) /\ Solid(N)
  BY <1>1 DEF Newest, Solid
<1>3. ASSUME last >= Listed[p], limit > 0 PROVE N # {} /\ MaxOf(N) = last
  <2>1. last \in N
    BY <1>1, <1>3 DEF Newest
  <2>2. N \in SUBSET (0..last) /\ N # {}
    BY <1>2, <2>1
  <2> HIDE DEF N
  <2>3. MaxOf(N) \in N /\ last <= MaxOf(N)
    BY <2>1, <2>2, MaxIs
  <2>4. MaxOf(N) \in Nat /\ MaxOf(N) <= last
    BY <2>2, <2>3, WithinIs
  <2> QED BY <2>2, <2>3, <2>4
<1> QED BY <1>2, <1>3

\* Older candles that reach up to new ones join them without a hole.
LEMMA JoinedSolid ==
  ASSUME NEW f \in SUBSET Nat, NEW cs \in SUBSET Nat, Solid(f), Solid(cs),
         NEW lo \in cs, NEW hi \in cs, NEW top \in f, lo - top <= 1,
         \A x \in cs : lo <= x /\ x <= hi, \A x \in f : x <= top
  PROVE  Solid({c \in f : c < lo} \cup cs)
<1> DEFINE k == {c \in f : c < lo} \cup cs
<1>1. lo \in Int /\ hi \in Int /\ top \in Int
  OBVIOUS
<1>2. ASSUME NEW c \in k, NEW d \in k, NEW x \in c..d PROVE x \in k
  <2>1. c \in Int /\ d \in Int /\ x \in Int /\ c <= x /\ x <= d
    BY <1>2
  <2>2. CASE x >= lo
    <3>1. d \in cs
      BY <1>1, <2>1, <2>2
    <3>2. x \in lo..d
      BY <1>1, <2>1, <2>2
    <3> QED BY <3>1, <3>2 DEF Solid
  <2>3. CASE x < lo
    <3>1. c \in f
      BY <1>1, <2>1, <2>3
    <3>2. x \in c..top
      BY <1>1, <2>1, <2>3
    <3>3. x \in f
      BY <3>1, <3>2 DEF Solid
    <3> QED BY <2>3, <3>3
  <2> QED BY <1>1, <2>1, <2>2, <2>3
<1> QED BY <1>2 DEF Solid

\* The newest of a set without a hole have no hole.
LEMMA CutSolid ==
  ASSUME NEW k \in SUBSET Nat, NEW b \in Int, Solid(k)
  PROVE  Solid({c \in k : c > b})
<1> SUFFICES ASSUME NEW c \in k, NEW d \in k, c > b, NEW x \in c..d
             PROVE  x \in k /\ x > b
  BY DEF Solid
<1>1. x \in k
  BY DEF Solid
<1> QED BY <1>1

\* A frame after candles were added, which end with one the consumer may have: it
\* has no hole, and it has their last candle if none is missing.
LEMMA AddedSolid ==
  ASSUME NEW n \in Nat, NEW f \in SUBSET (0..n), NEW cs \in SUBSET (0..n), cs # {},
         Solid(f), Solid(cs)
  PROVE  LET r == AddExternal(f, cs) IN
         /\ r.frame \in SUBSET (0..n) /\ Solid(r.frame)
         /\ r.missing \in Nat
         /\ r.missing # NONE => r.frame = f
         /\ r.missing = NONE => r.frame # {} /\ MaxOf(cs) <= MaxOf(r.frame)
<1> DEFINE r == AddExternal(f, cs)
           lo == MinOf(cs)
           hi == MaxOf(cs)
           top == MaxOf(f)
<1>1. cs \in SUBSET Nat /\ f \in SUBSET Nat /\ Limit \in Nat \ {0} /\ NONE = 0
  BY FeedAssumption DEF NONE
<1>2. hi \in cs /\ lo \in cs /\ (\A x \in cs : lo <= x /\ x <= hi)
  BY <1>1, MaxIs, MinIs
<1>3. f # {} => top \in f /\ \A x \in f : x <= top
  BY MaxIs
<1>4. hi \in Nat /\ lo \in Nat /\ (f # {} => top \in Nat)
  BY <1>1, <1>2, <1>3
<1> HIDE DEF lo, hi, top
<1>5. CASE Cardinality(cs) >= Full
  <2>1. r.frame = cs /\ r.missing = NONE
    BY <1>5 DEF AddExternal
  <2>2. hi <= MaxOf(cs)
    BY <1>4 DEF hi
  <2> HIDE DEF r
  <2> QED BY <1>1, <2>1, <2>2 DEF r, hi
<1>6. CASE ~(Cardinality(cs) >= Full) /\ f = {}
  <2>1. r.frame = f /\ r.missing = Limit
    BY <1>6 DEF AddExternal
  <2> HIDE DEF r
  <2> QED BY <1>1, <2>1 DEF r
<1>7. CASE ~(Cardinality(cs) >= Full) /\ f # {} /\ Gap(f, cs)
  <2>1. r.frame = f /\ r.missing = lo - top
    BY <1>7 DEF AddExternal, lo, top
  <2>2. lo - top > 1
    BY <1>7 DEF Gap, lo, top
  <2>3. lo - top \in Nat /\ lo - top # NONE
    BY <1>1, <1>4, <1>7, <2>2
  <2> HIDE DEF r
  <2> QED BY <2>1, <2>3 DEF r
<1>8. CASE ~(Cardinality(cs) >= Full) /\ f # {} /\ ~Gap(f, cs)
  <2> DEFINE k == Kept(f, cs)
             fr == {c \in k : c > MaxOf(k) - Limit}
  <2>1. r.frame = fr /\ r.missing = NONE
    BY <1>8 DEF AddExternal
  <2>2. k \in SUBSET (0..n) /\ cs \subseteq k
    BY DEF Kept
  <2>3. Solid(k)
    <3>1. lo - top <= 1
      <4>1. ~(lo - top > 1)
        BY <1>8 DEF Gap, lo, top
      <4> QED BY <1>4, <1>8, <4>1
    <3>2. Solid({c \in f : c < lo} \cup cs)
      BY <1>1, <1>2, <1>3, <1>8, <3>1, JoinedSolid
    <3> QED BY <3>2 DEF Kept, lo
  <2> HIDE DEF k
  <2>4. k # {} /\ k \in SUBSET Nat
    BY <1>2, <2>2
  <2> DEFINE last == MaxOf(k)
  <2>5. last \in k /\ (\A x \in k : x <= last)
    BY <2>2, <2>4, MaxIs
  <2>6. last \in Nat
    BY <2>4, <2>5
  <2>7. fr \in SUBSET (0..n)
    BY <2>2
  <2>8. last \in fr
    <3>1. last > last - Limit
      BY <1>1, <2>6
    <3> QED BY <2>5, <3>1
  <2>9. Solid(fr)
    <3>1. last - Limit \in Int
      BY <1>1, <2>6
    <3> QED BY <3>1, <2>3, <2>4, CutSolid
  <2> HIDE DEF fr
  <2>10. MaxOf(fr) \in fr /\ last <= MaxOf(fr)
    BY <2>7, <2>8, MaxIs
  <2> HIDE DEF last
  <2>11. hi <= last
    BY <1>2, <2>2, <2>5
  <2>12. hi <= MaxOf(fr)
    <3>1. MaxOf(fr) \in Nat
      BY <2>7, <2>10, WithinIs
    <3> QED BY <1>4, <2>6, <2>10, <2>11, <3>1
  <2> HIDE DEF r
  <2>13. fr # {}
    BY <2>8
  <2> QED BY <1>1, <2>1, <2>7, <2>9, <2>12, <2>13 DEF r, hi
<1> QED BY <1>5, <1>6, <1>7, <1>8

(* Sequences *)

LEMMA InTail ==
  ASSUME NEW S, NEW s \in Seq(S), s # <<>>
  PROVE  /\ Tail(s) \in Seq(S) /\ Head(s) \in S /\ 1 \in DOMAIN s /\ Head(s) = s[1]
         /\ Len(s) \in Nat \ {0} /\ Len(Tail(s)) = Len(s) - 1 /\ (Len(s) > 1 => Tail(s) # <<>>)
         /\ \A i \in DOMAIN Tail(s) : i + 1 \in DOMAIN s /\ Tail(s)[i] = s[i + 1]
         /\ \A x \in ToSet(s) : x = Head(s) \/ x \in ToSet(Tail(s))
<1>1. Tail(s) \in Seq(S) /\ Head(s) \in S /\ Head(s) = s[1] /\ Len(s) \in Nat /\ Len(s) > 0
  OBVIOUS
<1>2. DOMAIN s = 1..Len(s) /\ Len(Tail(s)) = Len(s) - 1 /\ DOMAIN Tail(s) = 1..(Len(s) - 1)
  OBVIOUS
<1>3. \A i \in 1..(Len(s) - 1) : Tail(s)[i] = s[i + 1]
  OBVIOUS
<1>5. Len(s) > 1 => Tail(s) # <<>>
  BY <1>1, <1>2
<1>4. ASSUME NEW x \in ToSet(s) PROVE x = Head(s) \/ x \in ToSet(Tail(s))
  <2>1. PICK i \in 1..Len(s) : x = s[i]
    BY <1>2 DEF ToSet
  <2>2. CASE i = 1
    BY <1>1, <2>1, <2>2
  <2>3. CASE i # 1
    <3>1. i - 1 \in 1..(Len(s) - 1)
      BY <1>1, <2>3
    <3>2. x = Tail(s)[i - 1]
      BY <1>3, <2>1, <3>1
    <3> QED BY <1>2, <3>1, <3>2 DEF ToSet
  <2> QED BY <2>2, <2>3
<1> QED BY <1>1, <1>2, <1>3, <1>4, <1>5

LEMMA InAppend ==
  ASSUME NEW S, NEW s \in Seq(S), NEW x \in S
  PROVE  /\ Append(s, x) \in Seq(S) /\ Len(Append(s, x)) = Len(s) + 1
         /\ DOMAIN Append(s, x) = DOMAIN s \cup {Len(s) + 1}
         /\ \A i \in DOMAIN s : i # Len(s) + 1 /\ Append(s, x)[i] = s[i]
         /\ Append(s, x)[Len(s) + 1] = x
         /\ x \in ToSet(Append(s, x)) /\ ToSet(s) \subseteq ToSet(Append(s, x))
<1>1. Append(s, x) \in Seq(S) /\ Len(Append(s, x)) = Len(s) + 1 /\ Len(s) \in Nat
  OBVIOUS
<1>2. DOMAIN s = 1..Len(s) /\ DOMAIN Append(s, x) = 1..(Len(s) + 1)
  OBVIOUS
<1>3. \A i \in 1..Len(s) : Append(s, x)[i] = s[i]
  OBVIOUS
<1>4. Append(s, x)[Len(s) + 1] = x
  OBVIOUS
<1>5. 1..(Len(s) + 1) = 1..Len(s) \cup {Len(s) + 1}
  BY <1>1
<1>6. \A i \in 1..Len(s) : i # Len(s) + 1
  BY <1>1
<1>7. x \in ToSet(Append(s, x)) /\ ToSet(s) \subseteq ToSet(Append(s, x))
  BY <1>2, <1>3, <1>4, <1>5 DEF ToSet
<1> QED BY <1>1, <1>2, <1>3, <1>4, <1>5, <1>6, <1>7

(* The inductive invariant of the messages and the frames *)

Subscribe == [type |-> "subscribe"]
Requests == [type : {"analyzed_df"}, pairs : SUBSET Pairs, limit : Nat \ {0}]
Signals == {Df(p, {c}) : p \in Pairs, c \in Nat}
Frames == {Df(p, cs) : p \in Pairs, cs \in SUBSET Nat}
Futures == {Pending} \cup [msg : Signals \cup {Other}, next : Nat]
Senders == [at : {"idle", "send", "store", "set"}, msgs : Seq(Signals \cup {Other}), old : Nat, new : Nat]
Todo == [pair : Pairs, limit : Nat \ {0}]
Channels == [open : BOOLEAN, at : Nat, subscribed : BOOLEAN, todo : Seq(Todo), last : [Pairs -> Nat]]
Consumers == [sent : Nat, listening : BOOLEAN, out : Seq(Requests)]

Typed ==
  /\ market \in Nat /\ market >= Start
  /\ cached \in [Pairs -> Nat]
  /\ stream \in [waiter : Nat, futures : Seq(Futures)]
  /\ pub \in [Publishers -> Senders]
  /\ chan \in Channels
  /\ up \in Seq(Requests \cup {Subscribe}) /\ down \in Seq(Frames)
  /\ cons \in Consumers
  /\ frame \in [Pairs -> SUBSET Nat] /\ wanted \in [Pairs -> Nat]

\* Futures that are referred to have been made, and a publisher that has begun has a message.
Places ==
  /\ stream.waiter \in DOMAIN stream.futures
  /\ chan.open => chan.at \in DOMAIN stream.futures
  /\ \A f \in DOMAIN stream.futures :
       stream.futures[f] # Pending => stream.futures[f].next \in DOMAIN stream.futures
  /\ \A t \in Publishers :
       /\ pub[t].at # "idle" => pub[t].msgs # <<>>
       /\ pub[t].at \in {"store", "set"} => {pub[t].old, pub[t].new} \subseteq DOMAIN stream.futures

\* What was analysed of a pair is a candle of the market, and no message is ahead of it.
Analysed ==
  /\ \A p \in Pairs : cached[p] = NONE \/ cached[p] \in Start..market
  /\ \A f \in DOMAIN stream.futures : LET m == stream.futures[f].msg IN
       m.type = "analyzed_df" => m.candles \subseteq 1..cached[m.pair]
  /\ \A t \in Publishers : \A i \in DOMAIN pub[t].msgs : LET m == pub[t].msgs[i] IN
       m.type = "analyzed_df" => m.candles \subseteq 1..cached[m.pair]
  /\ \A i \in DOMAIN down : down[i].candles \subseteq 1..cached[down[i].pair]

\* The candles of a message or a frame have no hole.
Whole ==
  /\ \A i \in DOMAIN down : Solid(down[i].candles)
  /\ \A p \in Pairs : Solid(frame[p]) /\ frame[p] \subseteq 0..market

\* Nothing is wanted of a channel that is closed, or before the consumer listens.
Wanting ==
  /\ \A p \in Pairs : wanted[p] <= cached[p]
  /\ ~cons.listening => \A p \in Pairs : wanted[p] = NONE
  /\ ~chan.open => ~cons.listening /\ chan = Closed /\ up = <<>> /\ down = <<>>

FeedInv == Typed /\ Places /\ Analysed /\ Whole /\ Wanting

LEMMA Bounds ==
  /\ Start \in Nat /\ Limit \in Nat \ {0} /\ Full \in Nat \ {0} /\ NONE = 0
  /\ \A p \in Pairs : Listed[p] \in Nat /\ Listed[p] >= 1 /\ Listed[p] <= Start
  /\ "worker" \in Publishers
<1>1. Start \in Nat /\ Limit \in Nat \ {0} /\ Full \in Nat \ {0} /\ NONE = 0 /\ "worker" \in Publishers
  BY FeedAssumption DEF NONE
<1>2. ASSUME NEW p \in Pairs PROVE Listed[p] \in 1..Start
  BY FeedAssumption
<1> QED BY <1>1, <1>2

LEMMA SignalIs ==
  ASSUME NEW p \in Pairs, NEW cs
  PROVE  /\ Df(p, cs).type = "analyzed_df" /\ Df(p, cs).pair = p /\ Df(p, cs).candles = cs
         /\ \A c \in Nat : Df(p, {c}) \in Signals
         /\ cs \in SUBSET Nat => Df(p, cs) \in Frames
<1>1. Df(p, cs).type = "analyzed_df" /\ Df(p, cs).pair = p /\ Df(p, cs).candles = cs
  BY DEF Df
<1>2. \A c \in Nat : Df(p, {c}) \in Signals
  BY DEF Signals
<1>3. ASSUME cs \in SUBSET Nat PROVE Df(p, cs) \in Frames
  <2>1. \E q \in Pairs, ds \in SUBSET Nat : Df(p, cs) = Df(q, ds)
    BY <1>3
  <2> QED BY <2>1 DEF Frames
<1> QED BY <1>1, <1>2, <1>3

LEMMA MessageIs ==
  ASSUME NEW m \in Signals \cup {Other}
  PROVE  \/ m = Other /\ m.type # "analyzed_df"
         \/ m.type = "analyzed_df" /\ m.pair \in Pairs /\ \E c \in Nat : m = Df(m.pair, {c}) /\ m.candles = {c}
<1>1. Other.type # "analyzed_df"
  BY DEF Other
<1>2. CASE m = Other
  BY <1>1, <1>2
<1>3. CASE m \in Signals
  <2>1. PICK p \in Pairs, c \in Nat : m = Df(p, {c})
    BY <1>3 DEF Signals
  <2>2. m.type = "analyzed_df" /\ m.pair = p /\ m.candles = {c}
    BY <2>1, SignalIs
  <2> QED BY <2>1, <2>2
<1> QED BY <1>2, <1>3

\* A future is pending or holds a message, and an answer is a frame of a pair.
LEMMA FutureIs ==
  ASSUME FeedInv, NEW f \in DOMAIN stream.futures
  PROVE  LET m == stream.futures[f].msg IN
         /\ stream.futures[f] \in Futures /\ stream.futures[f].next \in Nat
         /\ m = Pending.msg \/ m \in Signals \cup {Other}
         /\ stream.futures[f] # Pending => m \in Signals \cup {Other}
         /\ m.type = "analyzed_df" =>
              m.pair \in Pairs /\ \E c \in Nat : m = Df(m.pair, {c}) /\ m.candles = {c}
<1>1. stream.futures[f] \in Futures
  BY DEF FeedInv, Typed
<1> DEFINE m == stream.futures[f].msg
<1>2. stream.futures[f].next \in Nat /\ (m = Pending.msg \/ m \in Signals \cup {Other})
      /\ (stream.futures[f] # Pending => m \in Signals \cup {Other})
  <2>1. Pending.next \in Nat
    BY Bounds DEF Pending
  <2> QED BY <1>1, <2>1 DEF Futures
<1>3. Pending.msg.type # "analyzed_df"
  BY DEF Pending
<1> HIDE DEF m
<1>4. m.type = "analyzed_df" =>
        m.pair \in Pairs /\ \E c \in Nat : m = Df(m.pair, {c}) /\ m.candles = {c}
  <2>1. CASE m = Pending.msg
    BY <1>3, <2>1
  <2>2. CASE m \in Signals \cup {Other}
    BY <2>2, MessageIs
  <2> QED BY <1>2, <2>1, <2>2
<1> QED BY <1>1, <1>2, <1>4 DEF m

LEMMA FrameIs ==
  ASSUME NEW m \in Frames
  PROVE  m.pair \in Pairs /\ m.candles \in SUBSET Nat /\ m = Df(m.pair, m.candles) /\ m.type = "analyzed_df"
<1>1. PICK p \in Pairs, cs \in SUBSET Nat : m = Df(p, cs)
  BY DEF Frames
<1>2. m.type = "analyzed_df" /\ m.pair = p /\ m.candles = cs
  BY <1>1, SignalIs
<1> QED BY <1>1, <1>2

LEMMA FeedInit == Init => FeedInv
<1> SUFFICES ASSUME Init PROVE FeedInv
  OBVIOUS
<1> USE DEF Init
<1>1. Pending \in Futures
  BY DEF Futures
<1>2. Idle \in Senders
  BY DEF Idle, Senders, NONE
<1>3. Closed \in Channels
  BY DEF Closed, Channels, NONE
<1>4. stream.waiter = 1 /\ stream.futures = <<Pending>> /\ DOMAIN stream.futures = {1}
      /\ stream.futures[1] = Pending
  BY DEF NewStream
<1>5. stream \in [waiter : Nat, futures : Seq(Futures)]
  BY <1>1 DEF NewStream
<1>6. cons \in Consumers
  BY DEF NotSending, Consumers
<1>7. Typed
  <2>1. market \in Nat /\ market >= Start
    BY Bounds
  <2>2. cached \in [Pairs -> Nat] /\ wanted \in [Pairs -> Nat] /\ frame \in [Pairs -> SUBSET Nat]
    BY DEF NONE
  <2> QED BY <1>2, <1>3, <1>5, <1>6, <2>1, <2>2 DEF Typed
<1>8. Places
  BY <1>4 DEF Places, Closed, Idle
<1>9. Analysed
  <2>1. stream.futures[1].msg.type # "analyzed_df"
    BY <1>4 DEF Pending
  <2>2. \A t \in Publishers : pub[t].msgs = <<>>
    BY DEF Idle
  <2> QED BY <1>4, <2>1, <2>2 DEF Analysed
<1>10. Whole
  BY DEF Whole, Solid
<1>11. Wanting
  BY Bounds DEF Wanting, Closed, NotSending
<1> QED BY <1>7, <1>8, <1>9, <1>10, <1>11 DEF FeedInv

LEMMA CandleKeeps == FeedInv /\ Candle => FeedInv'
<1> SUFFICES ASSUME FeedInv, Candle PROVE FeedInv'
  OBVIOUS
<1>1. market \in Nat /\ market' = market + 1 /\ market >= Start /\ Start \in Nat
  BY Bounds DEF FeedInv, Typed, Candle
<1>2. Typed'
  BY <1>1 DEF FeedInv, Typed, Candle
<1>3. Places'
  BY DEF FeedInv, Places, Candle
<1>4. Analysed'
  <2>1. ASSUME NEW p \in Pairs PROVE cached[p] = NONE \/ cached[p] \in Start..(market + 1)
    <3>1. cached[p] = NONE \/ cached[p] \in Start..market
      BY DEF FeedInv, Analysed
    <3> QED BY <1>1, <3>1
  <2> QED BY <1>1, <2>1 DEF FeedInv, Analysed, Candle
<1>5. Whole'
  <2>1. 0..market \subseteq 0..(market + 1)
    BY <1>1
  <2> QED BY <1>1, <2>1 DEF FeedInv, Whole, Candle
<1>6. Wanting'
  BY DEF FeedInv, Wanting, Candle
<1> QED BY <1>2, <1>3, <1>4, <1>5, <1>6 DEF FeedInv

\* What a publisher is to send.
LEMMA SendIs ==
  ASSUME NEW t \in Publishers, pub \in [Publishers -> Senders], NEW msgs \in Seq(Signals \cup {Other}),
         Sends(t, msgs)
  PROVE  /\ pub' \in [Publishers -> Senders]
         /\ pub'[t].at = "send" /\ pub'[t].msgs = msgs
         /\ \A u \in Publishers \ {t} : pub'[u] = pub[u]
<1> DEFINE s == [Idle EXCEPT !.at = "send", !.msgs = msgs]
<1>1. s = [at |-> "send", msgs |-> msgs, old |-> NONE, new |-> NONE]
  <2>1. [Idle EXCEPT !.at = "send"] = [at |-> "send", msgs |-> <<>>, old |-> NONE, new |-> NONE]
    BY DEF Idle
  <2>2. s = [[Idle EXCEPT !.at = "send"] EXCEPT !.msgs = msgs]
    OBVIOUS
  <2>3. [[at |-> "send", msgs |-> <<>>, old |-> NONE, new |-> NONE] EXCEPT !.msgs = msgs]
         = [at |-> "send", msgs |-> msgs, old |-> NONE, new |-> NONE]
    OBVIOUS
  <2> HIDE DEF s
  <2> QED BY <2>1, <2>2, <2>3
<1> HIDE DEF s
<1>2. s \in Senders
  <2>1. NONE \in Nat
    BY Bounds
  <2> QED BY <1>1, <2>1 DEF Senders
<1> USE DEF s
<1>3. pub' = [pub EXCEPT ![t] = s]
  BY DEF Sends
<1>4. s.at = "send" /\ s.msgs = msgs
  BY <1>1
<1> HIDE DEF s
<1> QED BY <1>2, <1>3, <1>4

LEMMA AnalyzeKeeps == \A p \in Pairs : FeedInv /\ Analyze(p) => FeedInv'
<1> SUFFICES ASSUME NEW p \in Pairs, FeedInv, Analyze(p) PROVE FeedInv'
  OBVIOUS
<1> DEFINE msgs == <<Df(p, {market}), Other>>
<1>1. /\ market \in Nat /\ market >= Start /\ Start \in Nat /\ NONE = 0 /\ Start >= 1
      /\ cached \in [Pairs -> Nat] /\ cached' = [cached EXCEPT ![p] = market] /\ cached[p] < market
      /\ pub \in [Publishers -> Senders] /\ "worker" \in Publishers
  <2>1. Start \in Nat /\ NONE = 0 /\ Listed[p] \in Nat /\ Listed[p] >= 1 /\ Listed[p] <= Start /\ "worker" \in Publishers
    BY Bounds
  <2> QED BY <2>1 DEF FeedInv, Typed, Analyze
<1>2. msgs \in Seq(Signals \cup {Other}) /\ msgs # <<>> /\ DOMAIN msgs = {1, 2}
      /\ msgs[1] = Df(p, {market}) /\ msgs[2] = Other
  BY <1>1, SignalIs
<1>3. Sends("worker", msgs)
  BY DEF Analyze
<1> HIDE DEF msgs
<1>4. /\ pub' \in [Publishers -> Senders]
      /\ pub'["worker"].at = "send" /\ pub'["worker"].msgs = msgs
      /\ \A u \in Publishers \ {"worker"} : pub'[u] = pub[u]
  BY <1>1, <1>2, <1>3, SendIs
<1>5. /\ cached' \in [Pairs -> Nat]
      /\ \A q \in Pairs : cached[q] <= cached'[q] /\ (cached'[q] = cached[q] \/ cached'[q] = market)
  BY <1>1
<1>6. Typed'
  BY <1>4, <1>5 DEF FeedInv, Typed, Analyze
<1>7. Places'
  <2>1. ASSUME NEW t \in Publishers
        PROVE  /\ pub'[t].at # "idle" => pub'[t].msgs # <<>>
               /\ pub'[t].at \in {"store", "set"} => {pub'[t].old, pub'[t].new} \subseteq DOMAIN stream.futures
    BY <1>2, <1>4 DEF FeedInv, Places
  <2> QED BY <2>1 DEF FeedInv, Places, Analyze
<1>8. Analysed'
  <2>1. \A q \in Pairs : cached'[q] = NONE \/ cached'[q] \in Start..market
    BY <1>1, <1>5 DEF FeedInv, Analysed
  <2>2. ASSUME NEW q \in Pairs, NEW cs \in SUBSET (1..cached[q]) PROVE cs \subseteq 1..cached'[q]
    <3>1. cached[q] \in Nat /\ cached'[q] \in Nat /\ cached[q] <= cached'[q]
      BY <1>1, <1>5
    <3> QED BY <3>1
  <2>3. ASSUME NEW f \in DOMAIN stream.futures, stream.futures[f].msg.type = "analyzed_df"
        PROVE  stream.futures[f].msg.candles \subseteq 1..cached'[stream.futures[f].msg.pair]
    <3>1. stream.futures[f].msg.candles \subseteq 1..cached[stream.futures[f].msg.pair]
      BY <2>3 DEF FeedInv, Analysed
    <3>3. stream.futures[f].msg.pair \in Pairs
      BY <2>3, FutureIs
    <3> QED BY <2>2, <3>1, <3>3
  <2>4. ASSUME NEW t \in Publishers, NEW i \in DOMAIN pub'[t].msgs, pub'[t].msgs[i].type = "analyzed_df"
        PROVE  pub'[t].msgs[i].candles \subseteq 1..cached'[pub'[t].msgs[i].pair]
    <3>1. CASE t = "worker"
      <4>1. i = 1
        BY <1>2, <1>4, <2>4, <3>1 DEF Other
      <4>2. pub'[t].msgs[i].candles = {market} /\ pub'[t].msgs[i].pair = p
        BY <1>2, <1>4, <3>1, <4>1, SignalIs
      <4>3. cached'[p] = market /\ market \in 1..market
        BY <1>1
      <4> QED BY <4>2, <4>3
    <3>2. CASE t # "worker"
      <4>1. pub'[t] = pub[t] /\ pub[t] \in Senders
        BY <1>1, <1>4, <3>2
      <4>2. pub[t].msgs[i].candles \subseteq 1..cached[pub[t].msgs[i].pair]
        BY <2>4, <4>1 DEF FeedInv, Analysed
      <4>3. pub[t].msgs[i] \in Signals \cup {Other}
        BY <2>4, <4>1 DEF Senders
      <4>4. pub[t].msgs[i].pair \in Pairs
        BY <2>4, <4>1, <4>3, MessageIs
      <4> QED BY <2>2, <4>1, <4>2, <4>4
    <3> QED BY <3>1, <3>2
  <2>5. ASSUME NEW i \in DOMAIN down PROVE down[i].candles \subseteq 1..cached'[down[i].pair]
    <3>1. down[i].candles \subseteq 1..cached[down[i].pair]
      BY DEF FeedInv, Analysed
    <3>2. down[i] \in Frames
      BY DEF FeedInv, Typed
    <3>3. down[i].pair \in Pairs
      BY <3>2, FrameIs
    <3> QED BY <2>2, <3>1, <3>3
  <2> QED BY <2>1, <2>3, <2>4, <2>5 DEF Analysed, Analyze
<1>9. Whole'
  BY DEF FeedInv, Whole, Analyze
<1>10. Wanting'
  <2>1. \A q \in Pairs : wanted[q] <= cached'[q]
    <3>1. \A q \in Pairs : wanted[q] \in Nat /\ cached[q] \in Nat /\ cached'[q] \in Nat /\ wanted[q] <= cached[q]
      BY <1>1, <1>5 DEF FeedInv, Typed, Wanting
    <3> QED BY <1>5, <3>1
  <2> QED BY <2>1 DEF FeedInv, Wanting, Analyze
<1> QED BY <1>6, <1>7, <1>8, <1>9, <1>10 DEF FeedInv

LEMMA SendOtherKeeps == \A t \in Publishers : FeedInv /\ SendOther(t) => FeedInv'
<1> SUFFICES ASSUME NEW t \in Publishers, FeedInv, SendOther(t) PROVE FeedInv'
  OBVIOUS
<1> DEFINE msgs == <<Other>>
<1>1. msgs \in Seq(Signals \cup {Other}) /\ msgs # <<>> /\ DOMAIN msgs = {1} /\ msgs[1] = Other
  OBVIOUS
<1>2. Sends(t, msgs) /\ pub \in [Publishers -> Senders]
  BY DEF SendOther, FeedInv, Typed
<1> HIDE DEF msgs
<1>3. /\ pub' \in [Publishers -> Senders] /\ pub'[t].at = "send" /\ pub'[t].msgs = msgs
      /\ \A u \in Publishers \ {t} : pub'[u] = pub[u]
  BY <1>1, <1>2, SendIs
<1>4. Typed'
  BY <1>3 DEF FeedInv, Typed, SendOther
<1>5. Places'
  <2>1. ASSUME NEW u \in Publishers
        PROVE  /\ pub'[u].at # "idle" => pub'[u].msgs # <<>>
               /\ pub'[u].at \in {"store", "set"} => {pub'[u].old, pub'[u].new} \subseteq DOMAIN stream.futures
    BY <1>1, <1>3 DEF FeedInv, Places
  <2> QED BY <2>1 DEF FeedInv, Places, SendOther
<1>6. Analysed'
  <2>1. ASSUME NEW u \in Publishers, NEW i \in DOMAIN pub'[u].msgs, pub'[u].msgs[i].type = "analyzed_df"
        PROVE  pub'[u].msgs[i].candles \subseteq 1..cached[pub'[u].msgs[i].pair]
    <3>1. Other.type # "analyzed_df"
      BY DEF Other
    <3>2. u # t
      BY <1>1, <1>3, <2>1, <3>1
    <3> QED BY <1>3, <2>1, <3>2 DEF FeedInv, Analysed
  <2> QED BY <2>1 DEF FeedInv, Analysed, SendOther
<1>7. Whole'
  BY DEF FeedInv, Whole, SendOther
<1>8. Wanting'
  BY DEF FeedInv, Wanting, SendOther
<1> QED BY <1>4, <1>5, <1>6, <1>7, <1>8 DEF FeedInv

\* What a publisher becomes as it takes the waiter and makes another future.
LEMMA TakeIs ==
  ASSUME FeedInv, NEW t \in Publishers, Take(t)
  PROVE  LET new == Len(stream.futures) + 1 IN
         /\ new \in Nat /\ new \notin DOMAIN stream.futures
         /\ stream' \in [waiter : Nat, futures : Seq(Futures)] /\ stream'.waiter = stream.waiter
         /\ DOMAIN stream'.futures = DOMAIN stream.futures \cup {new}
         /\ stream'.futures[new] = Pending
         /\ \A f \in DOMAIN stream.futures : f # new /\ stream'.futures[f] = stream.futures[f]
         /\ pub' \in [Publishers -> Senders]
         /\ \A u \in Publishers \ {t} : pub'[u] = pub[u]
         /\ pub'[t].at = "store" /\ pub'[t].old = stream.waiter /\ pub'[t].new = new
         /\ pub'[t].msgs = pub[t].msgs /\ pub[t].at = "send"
<1> DEFINE new == Len(stream.futures) + 1
           s == [[[pub[t] EXCEPT !.at = "store"] EXCEPT !.old = stream.waiter] EXCEPT !.new = new]
<1>1. stream \in [waiter : Nat, futures : Seq(Futures)] /\ pub \in [Publishers -> Senders]
  BY DEF FeedInv, Typed
<1>2. stream.futures \in Seq(Futures) /\ stream.waiter \in Nat /\ pub[t] \in Senders
  BY <1>1
<1>3. Pending \in Futures
  BY DEF Futures
<1>4. Cardinality(DOMAIN stream.futures) = Len(stream.futures) /\ Len(stream.futures) \in Nat
  <2>1. DOMAIN stream.futures = 1..Len(stream.futures) /\ Len(stream.futures) \in Nat
    BY <1>2
  <2> QED BY <2>1, FS_Interval
<1>5. stream' = [stream EXCEPT !.futures = Append(stream.futures, Pending)]
  BY DEF Take
<1>6. /\ Append(stream.futures, Pending) \in Seq(Futures)
      /\ DOMAIN Append(stream.futures, Pending) = DOMAIN stream.futures \cup {new}
      /\ \A f \in DOMAIN stream.futures : f # new /\ Append(stream.futures, Pending)[f] = stream.futures[f]
      /\ Append(stream.futures, Pending)[new] = Pending
  BY <1>2, <1>3, InAppend
<1>7. stream' \in [waiter : Nat, futures : Seq(Futures)] /\ stream'.waiter = stream.waiter
      /\ stream'.futures = Append(stream.futures, Pending)
  BY <1>1, <1>2, <1>5, <1>6
<1>8. pub' = [pub EXCEPT ![t] = s]
  BY <1>4 DEF Take
<1>9. new \in Nat
  BY <1>4
<1> HIDE DEF new
<1>10. s \in Senders
  <2>1. [pub[t] EXCEPT !.at = "store"] \in Senders
    BY <1>2 DEF Senders
  <2>2. [[pub[t] EXCEPT !.at = "store"] EXCEPT !.old = stream.waiter] \in Senders
    BY <1>2, <2>1 DEF Senders
  <2> QED BY <1>9, <2>2 DEF Senders
<1>11. s.at = "store" /\ s.old = stream.waiter /\ s.new = new /\ s.msgs = pub[t].msgs
  BY <1>2 DEF Senders
<1> HIDE DEF s
<1>12. pub[t].at = "send"
  BY DEF Take
<1>13. new \notin DOMAIN stream.futures
  BY <1>6
<1>14. pub' \in [Publishers -> Senders] /\ pub'[t] = s /\ \A u \in Publishers \ {t} : pub'[u] = pub[u]
  BY <1>1, <1>8, <1>10
<1> QED BY <1>6, <1>7, <1>9, <1>11, <1>12, <1>13, <1>14 DEF new

LEMMA TakeKeeps == \A t \in Publishers : FeedInv /\ Take(t) => FeedInv'
<1> SUFFICES ASSUME NEW t \in Publishers, FeedInv, Take(t) PROVE FeedInv'
  OBVIOUS
<1> DEFINE new == Len(stream.futures) + 1
<1>1. /\ stream' \in [waiter : Nat, futures : Seq(Futures)] /\ stream'.waiter = stream.waiter
      /\ DOMAIN stream'.futures = DOMAIN stream.futures \cup {new}
      /\ stream'.futures[new] = Pending
      /\ \A f \in DOMAIN stream.futures : stream'.futures[f] = stream.futures[f]
      /\ pub' \in [Publishers -> Senders]
      /\ \A u \in Publishers \ {t} : pub'[u] = pub[u]
      /\ pub'[t].old = stream.waiter /\ pub'[t].new = new
      /\ pub'[t].msgs = pub[t].msgs /\ pub[t].at = "send"
  BY TakeIs, Zenon
<1> HIDE DEF new
<1>2. Typed'
  BY <1>1 DEF FeedInv, Typed, Take
<1>3. Places'
  <2>1. stream'.waiter \in DOMAIN stream'.futures /\ (chan.open => chan.at \in DOMAIN stream'.futures)
    BY <1>1 DEF FeedInv, Places
  <2>2. ASSUME NEW f \in DOMAIN stream'.futures, stream'.futures[f] # Pending
        PROVE  stream'.futures[f].next \in DOMAIN stream'.futures
    BY <1>1, <2>2 DEF FeedInv, Places
  <2>3. ASSUME NEW u \in Publishers
        PROVE  /\ pub'[u].at # "idle" => pub'[u].msgs # <<>>
               /\ pub'[u].at \in {"store", "set"} => {pub'[u].old, pub'[u].new} \subseteq DOMAIN stream'.futures
    <3>1. CASE u = t
      BY <1>1, <3>1 DEF FeedInv, Places
    <3>2. CASE u # t
      BY <1>1, <3>2 DEF FeedInv, Places
    <3> QED BY <3>1, <3>2
  <2> QED BY <2>1, <2>2, <2>3 DEF Places, Take
<1>4. Analysed'
  <2>1. ASSUME NEW f \in DOMAIN stream'.futures, stream'.futures[f].msg.type = "analyzed_df"
        PROVE  stream'.futures[f].msg.candles \subseteq 1..cached[stream'.futures[f].msg.pair]
    <3>1. Pending.msg.type # "analyzed_df"
      BY DEF Pending
    <3>2. f # new
      BY <1>1, <2>1, <3>1
    <3> QED BY <1>1, <2>1, <3>2 DEF FeedInv, Analysed
  <2>2. ASSUME NEW u \in Publishers, NEW i \in DOMAIN pub'[u].msgs, pub'[u].msgs[i].type = "analyzed_df"
        PROVE  pub'[u].msgs[i].candles \subseteq 1..cached[pub'[u].msgs[i].pair]
    <3>1. pub'[u].msgs = pub[u].msgs
      BY <1>1
    <3> QED BY <2>2, <3>1 DEF FeedInv, Analysed
  <2> QED BY <2>1, <2>2 DEF FeedInv, Analysed, Take
<1>5. Whole'
  BY DEF FeedInv, Whole, Take
<1>6. Wanting'
  BY DEF FeedInv, Wanting, Take
<1> QED BY <1>2, <1>3, <1>4, <1>5, <1>6 DEF FeedInv

LEMMA StoreIs ==
  ASSUME FeedInv, NEW t \in Publishers, Store(t)
  PROVE  /\ pub[t].at = "store" /\ pub[t].new \in DOMAIN stream.futures
         /\ stream' \in [waiter : Nat, futures : Seq(Futures)] /\ stream'.waiter = pub[t].new
         /\ stream'.futures = stream.futures
         /\ pub' \in [Publishers -> Senders]
         /\ \A u \in Publishers \ {t} : pub'[u] = pub[u]
         /\ pub'[t].at = "set" /\ pub'[t].old = pub[t].old /\ pub'[t].new = pub[t].new
         /\ pub'[t].msgs = pub[t].msgs
<1>1. stream \in [waiter : Nat, futures : Seq(Futures)] /\ pub \in [Publishers -> Senders]
  BY DEF FeedInv, Typed
<1>2. pub[t].at = "store" /\ pub[t] \in Senders /\ pub[t].new \in Nat
  BY <1>1 DEF Store, Senders
<1>3. pub[t].new \in DOMAIN stream.futures
  BY <1>2 DEF FeedInv, Places
<1>4. stream' \in [waiter : Nat, futures : Seq(Futures)] /\ stream'.waiter = pub[t].new
      /\ stream'.futures = stream.futures
  BY <1>1, <1>2 DEF Store
<1> DEFINE s == [pub[t] EXCEPT !.at = "set"]
<1>5. s \in Senders /\ s.at = "set" /\ s.old = pub[t].old /\ s.new = pub[t].new /\ s.msgs = pub[t].msgs
  BY <1>2 DEF Senders
<1>6. pub' = [pub EXCEPT ![t] = s]
  BY <1>1 DEF Store
<1> HIDE DEF s
<1>7. pub' \in [Publishers -> Senders] /\ pub'[t] = s /\ \A u \in Publishers \ {t} : pub'[u] = pub[u]
  BY <1>1, <1>5, <1>6
<1> QED BY <1>2, <1>3, <1>4, <1>5, <1>7

LEMMA StoreKeeps == \A t \in Publishers : FeedInv /\ Store(t) => FeedInv'
<1> SUFFICES ASSUME NEW t \in Publishers, FeedInv, Store(t) PROVE FeedInv'
  OBVIOUS
<1>1. /\ pub[t].at = "store" /\ pub[t].new \in DOMAIN stream.futures
      /\ stream' \in [waiter : Nat, futures : Seq(Futures)] /\ stream'.waiter = pub[t].new
      /\ stream'.futures = stream.futures
      /\ pub' \in [Publishers -> Senders]
      /\ \A u \in Publishers \ {t} : pub'[u] = pub[u]
      /\ pub'[t].at = "set" /\ pub'[t].old = pub[t].old /\ pub'[t].new = pub[t].new
      /\ pub'[t].msgs = pub[t].msgs
  BY StoreIs
<1>2. Typed'
  BY <1>1 DEF FeedInv, Typed, Store
<1>3. Places'
  <2>1. ASSUME NEW u \in Publishers
        PROVE  /\ pub'[u].at # "idle" => pub'[u].msgs # <<>>
               /\ pub'[u].at \in {"store", "set"} => {pub'[u].old, pub'[u].new} \subseteq DOMAIN stream.futures
    <3>1. CASE u = t
      BY <1>1, <3>1 DEF FeedInv, Places
    <3>2. CASE u # t
      BY <1>1, <3>2 DEF FeedInv, Places
    <3> QED BY <3>1, <3>2
  <2> QED BY <1>1, <2>1 DEF FeedInv, Places, Store
<1>4. Analysed'
  <2>1. \A u \in Publishers : pub'[u].msgs = pub[u].msgs
    BY <1>1
  <2> QED BY <1>1, <2>1 DEF FeedInv, Analysed, Store
<1>5. Whole'
  BY DEF FeedInv, Whole, Store
<1>6. Wanting'
  BY DEF FeedInv, Wanting, Store
<1> QED BY <1>2, <1>3, <1>4, <1>5, <1>6 DEF FeedInv

\* A future holds the message of a publisher that sets it, or what it held before.
LEMMA SetIs ==
  ASSUME FeedInv, NEW t \in Publishers, SetResult(t)
  PROVE  LET old == pub[t].old
             set == [msg |-> Head(pub[t].msgs), next |-> stream.waiter] IN
         /\ pub[t].at = "set" /\ old \in DOMAIN stream.futures /\ pub[t].msgs # <<>>
         /\ Head(pub[t].msgs) \in Signals \cup {Other} /\ set \in Futures /\ set # Pending
         /\ stream' \in [waiter : Nat, futures : Seq(Futures)] /\ stream'.waiter = stream.waiter
         /\ DOMAIN stream'.futures = DOMAIN stream.futures
         /\ \A f \in DOMAIN stream.futures : f # old => stream'.futures[f] = stream.futures[f]
         /\ stream.futures[old] = Pending => stream'.futures[old] = set
         /\ stream.futures[old] # Pending => stream'.futures[old] = stream.futures[old]
         /\ pub' \in [Publishers -> Senders]
         /\ \A u \in Publishers \ {t} : pub'[u] = pub[u]
         /\ \/ Len(pub[t].msgs) = 1 /\ pub'[t] = Idle
            \/ /\ Len(pub[t].msgs) > 1 /\ pub'[t].at = "send"
               /\ pub'[t].msgs = Tail(pub[t].msgs) /\ Tail(pub[t].msgs) # <<>>
<1> DEFINE old == pub[t].old
           set == [msg |-> Head(pub[t].msgs), next |-> stream.waiter]
           msgs == pub[t].msgs
<1>1. stream \in [waiter : Nat, futures : Seq(Futures)] /\ pub \in [Publishers -> Senders]
  BY DEF FeedInv, Typed
<1>2. stream.futures \in Seq(Futures) /\ stream.waiter \in Nat /\ pub[t] \in Senders
      /\ msgs \in Seq(Signals \cup {Other})
  BY <1>1 DEF Senders
<1>3. pub[t].at = "set" /\ old \in DOMAIN stream.futures /\ msgs # <<>>
  BY DEF SetResult, FeedInv, Places
<1>4. Head(msgs) \in Signals \cup {Other} /\ Tail(msgs) \in Seq(Signals \cup {Other})
      /\ Len(msgs) \in Nat \ {0} /\ (Len(msgs) > 1 => Tail(msgs) # <<>>)
  BY <1>2, <1>3, InTail
<1>5. set \in Futures
  BY <1>2, <1>4 DEF Futures
<1>6. set # Pending
  <2>1. Pending.msg.type # "analyzed_df" /\ Pending.msg # Other
    BY DEF Pending, Other
  <2>2. Head(msgs) # Pending.msg
    BY <1>4, <2>1, MessageIs
  <2> QED BY <2>2
<1>7. /\ stream' \in [waiter : Nat, futures : Seq(Futures)] /\ stream'.waiter = stream.waiter
      /\ DOMAIN stream'.futures = DOMAIN stream.futures
      /\ \A f \in DOMAIN stream.futures : f # old => stream'.futures[f] = stream.futures[f]
      /\ stream.futures[old] = Pending => stream'.futures[old] = set
      /\ stream.futures[old] # Pending => stream'.futures[old] = stream.futures[old]
  <2>1. CASE stream.futures[old] # Pending
    <3>1. stream' = stream
      BY <2>1 DEF SetResult
    <3> QED BY <1>1, <2>1, <3>1
  <2>2. CASE stream.futures[old] = Pending
    <3>1. stream' = [stream EXCEPT !.futures = [stream.futures EXCEPT ![old] = set]]
      BY <1>1, <2>2 DEF SetResult, Link
    <3> HIDE DEF set, old
    <3>2. [stream.futures EXCEPT ![old] = set] \in Seq(Futures)
      BY <1>2, <1>3, <1>5
    <3> DEFINE fs == [stream.futures EXCEPT ![old] = set]
    <3>3. /\ DOMAIN fs = DOMAIN stream.futures /\ fs[old] = set
          /\ \A f \in DOMAIN stream.futures : f # old => fs[f] = stream.futures[f]
      BY <1>2, <1>3
    <3> HIDE DEF fs
    <3>4. stream'.futures = fs /\ stream'.waiter = stream.waiter
      <4>1. stream' = [stream EXCEPT !.futures = fs]
        BY <3>1 DEF fs
      <4> QED BY <1>1, <4>1
    <3>5. stream' \in [waiter : Nat, futures : Seq(Futures)]
      BY <1>1, <3>1, <3>2
    <3> QED BY <2>2, <3>3, <3>4, <3>5
  <2> QED BY <2>1, <2>2
<1>8. pub' = [pub EXCEPT ![t] = IF Len(msgs) = 1 THEN Idle ELSE [Idle EXCEPT !.at = "send", !.msgs = Tail(msgs)]]
  BY DEF SetResult
<1>9. /\ pub' \in [Publishers -> Senders]
      /\ \A u \in Publishers \ {t} : pub'[u] = pub[u]
      /\ \/ Len(msgs) = 1 /\ pub'[t] = Idle
         \/ Len(msgs) > 1 /\ pub'[t].at = "send" /\ pub'[t].msgs = Tail(msgs) /\ Tail(msgs) # <<>>
  <2>1. CASE Len(msgs) = 1
    <3>1. Idle \in Senders
      BY Bounds DEF Idle, Senders
    <3>2. pub' = [pub EXCEPT ![t] = Idle]
      BY <1>8, <2>1
    <3> QED BY <1>1, <2>1, <3>1, <3>2
  <2>2. CASE Len(msgs) # 1
    <3> HIDE DEF msgs
    <3>1. Sends(t, Tail(msgs))
      BY <1>8, <2>2 DEF Sends
    <3>2. Len(msgs) > 1 /\ Tail(msgs) # <<>>
      <4>1. \A n \in Nat \ {0} : n # 1 => n > 1
        OBVIOUS
      <4> QED BY <1>4, <2>2, <4>1, Zenon
    <3>3. /\ pub' \in [Publishers -> Senders] /\ pub'[t].at = "send" /\ pub'[t].msgs = Tail(msgs)
          /\ \A u \in Publishers \ {t} : pub'[u] = pub[u]
      BY <1>1, <1>4, <3>1, SendIs
    <3> QED BY <3>2, <3>3
  <2> QED BY <2>1, <2>2
<1> QED BY <1>3, <1>4, <1>5, <1>6, <1>7, <1>9

LEMMA SetResultKeeps == \A t \in Publishers : FeedInv /\ SetResult(t) => FeedInv'
<1> SUFFICES ASSUME NEW t \in Publishers, FeedInv, SetResult(t) PROVE FeedInv'
  OBVIOUS
<1> DEFINE old == pub[t].old
           set == [msg |-> Head(pub[t].msgs), next |-> stream.waiter]
           msgs == pub[t].msgs
<1>1. /\ pub[t].at = "set" /\ old \in DOMAIN stream.futures /\ msgs # <<>>
      /\ Head(msgs) \in Signals \cup {Other} /\ set \in Futures
      /\ stream' \in [waiter : Nat, futures : Seq(Futures)] /\ stream'.waiter = stream.waiter
      /\ DOMAIN stream'.futures = DOMAIN stream.futures
      /\ \A f \in DOMAIN stream.futures : stream'.futures[f] = stream.futures[f] \/ stream'.futures[f] = set
      /\ pub' \in [Publishers -> Senders]
      /\ \A u \in Publishers \ {t} : pub'[u] = pub[u]
      /\ \/ pub'[t] = Idle
         \/ pub'[t].at = "send" /\ pub'[t].msgs = Tail(msgs) /\ Tail(msgs) # <<>>
  BY SetIs, Zenon
<1>2. set.msg = Head(msgs) /\ set.next = stream.waiter
  OBVIOUS
<1>3. msgs \in Seq(Signals \cup {Other})
  BY DEF FeedInv, Typed, Senders
<1> HIDE DEF old, set, msgs
<1>4. Typed'
  BY <1>1 DEF FeedInv, Typed, SetResult
<1>5. Places'
  <2>1. stream'.waiter \in DOMAIN stream'.futures /\ (chan.open => chan.at \in DOMAIN stream'.futures)
    BY <1>1 DEF FeedInv, Places
  <2>2. ASSUME NEW f \in DOMAIN stream'.futures, stream'.futures[f] # Pending
        PROVE  stream'.futures[f].next \in DOMAIN stream'.futures
    BY <1>1, <1>2, <2>2 DEF FeedInv, Places
  <2>3. ASSUME NEW u \in Publishers
        PROVE  /\ pub'[u].at # "idle" => pub'[u].msgs # <<>>
               /\ pub'[u].at \in {"store", "set"} => {pub'[u].old, pub'[u].new} \subseteq DOMAIN stream'.futures
    <3>1. CASE u = t
      BY <1>1, <3>1 DEF Idle
    <3>2. CASE u # t
      BY <1>1, <3>2 DEF FeedInv, Places
    <3> QED BY <3>1, <3>2
  <2> QED BY <2>1, <2>2, <2>3 DEF Places, SetResult
<1>6. Analysed'
  <2>1. /\ 1 \in DOMAIN msgs /\ Head(msgs) = msgs[1]
        /\ \A i \in DOMAIN Tail(msgs) : i + 1 \in DOMAIN msgs /\ Tail(msgs)[i] = msgs[i + 1]
    BY <1>1, <1>3, InTail
  <2>2. ASSUME NEW i \in DOMAIN msgs, msgs[i].type = "analyzed_df"
        PROVE  msgs[i].candles \subseteq 1..cached[msgs[i].pair]
    BY <2>2 DEF FeedInv, Analysed, msgs
  <2>3. ASSUME NEW f \in DOMAIN stream'.futures, stream'.futures[f].msg.type = "analyzed_df"
        PROVE  stream'.futures[f].msg.candles \subseteq 1..cached[stream'.futures[f].msg.pair]
    <3>1. CASE stream'.futures[f] = set
      BY <1>2, <2>1, <2>2, <2>3, <3>1
    <3>2. CASE stream'.futures[f] = stream.futures[f]
      BY <1>1, <2>3, <3>2 DEF FeedInv, Analysed
    <3> QED BY <1>1, <3>1, <3>2
  <2>4. ASSUME NEW u \in Publishers, NEW i \in DOMAIN pub'[u].msgs, pub'[u].msgs[i].type = "analyzed_df"
        PROVE  pub'[u].msgs[i].candles \subseteq 1..cached[pub'[u].msgs[i].pair]
    <3>1. CASE u # t
      <4>1. pub'[u] = pub[u]
        BY <1>1, <3>1
      <4> QED BY <2>4, <4>1 DEF FeedInv, Analysed
    <3>2. CASE u = t /\ pub'[t] = Idle
      BY <2>4, <3>2 DEF Idle
    <3>3. CASE u = t /\ pub'[t].msgs = Tail(msgs)
      <4>1. i + 1 \in DOMAIN msgs /\ pub'[u].msgs[i] = msgs[i + 1]
        BY <2>1, <2>4, <3>3
      <4> QED BY <2>2, <2>4, <4>1
    <3> QED BY <1>1, <3>1, <3>2, <3>3
  <2> QED BY <2>3, <2>4 DEF FeedInv, Analysed, SetResult
<1>7. Whole'
  BY DEF FeedInv, Whole, SetResult
<1>8. Wanting'
  BY DEF FeedInv, Wanting, SetResult
<1> QED BY <1>4, <1>5, <1>6, <1>7, <1>8 DEF FeedInv

\* What a channel becomes as it goes on to the next future.
LEMMA BroadcastIs ==
  ASSUME FeedInv, Broadcast
  PROVE  LET f == stream.futures[chan.at] IN
         /\ chan.open /\ chan.at \in DOMAIN stream.futures /\ f # Pending
         /\ chan' \in Channels /\ chan'.open /\ chan'.at = f.next /\ f.next \in DOMAIN stream.futures
         /\ chan'.todo = chan.todo
         /\ \/ f.msg.type # "analyzed_df" /\ chan'.last = chan.last
            \/ f.msg.type = "analyzed_df" /\ chan'.last = [chan.last EXCEPT ![f.msg.pair] = MaxOf(f.msg.candles)]
<1> DEFINE f == stream.futures[chan.at]
           last == IF f.msg.type = "analyzed_df" THEN [chan.last EXCEPT ![f.msg.pair] = MaxOf(f.msg.candles)]
                   ELSE chan.last
<1>1. chan.open /\ chan.at \in DOMAIN stream.futures /\ f # Pending
  BY DEF Broadcast, FeedInv, Places
<1>2. f.next \in DOMAIN stream.futures
  BY <1>1 DEF FeedInv, Places
<1>3. f.next \in Nat
  BY <1>1, FutureIs
<1>4. chan \in Channels
  BY DEF FeedInv, Typed
<1>5. last \in [Pairs -> Nat]
  <2>1. chan.last \in [Pairs -> Nat]
    BY <1>4 DEF Channels
  <2>2. ASSUME f.msg.type = "analyzed_df" PROVE MaxOf(f.msg.candles) \in Nat
    <3>1. PICK c \in Nat : f.msg.candles = {c}
      BY <1>1, <2>2, FutureIs
    <3> HIDE DEF f
    <3> QED BY <3>1, MaxOfOne
  <2> HIDE DEF f
  <2> QED BY <2>1, <2>2
<1>6. chan' = [[chan EXCEPT !.at = f.next] EXCEPT !.last = last]
  <2>1. chan' = [chan EXCEPT !.at = f.next, !.last = last]
    BY <1>4 DEF Broadcast, Channels
  <2> HIDE DEF f, last
  <2> QED BY <2>1
<1>7. \/ f.msg.type # "analyzed_df" /\ last = chan.last
      \/ f.msg.type = "analyzed_df" /\ last = [chan.last EXCEPT ![f.msg.pair] = MaxOf(f.msg.candles)]
  OBVIOUS
<1> HIDE DEF last, f
<1>8. [chan EXCEPT !.at = f.next] \in Channels
  BY <1>3, <1>4 DEF Channels
<1>9. chan' \in Channels /\ chan'.at = f.next /\ chan'.last = last /\ chan'.open = chan.open /\ chan'.todo = chan.todo
  BY <1>4, <1>5, <1>6, <1>8 DEF Channels
<1>10. \/ f.msg.type # "analyzed_df" /\ chan'.last = chan.last
       \/ f.msg.type = "analyzed_df" /\ chan'.last = [chan.last EXCEPT ![f.msg.pair] = MaxOf(f.msg.candles)]
  BY <1>7, <1>9
<1> QED BY <1>1, <1>2, <1>9, <1>10 DEF f

LEMMA BroadcastSends ==
  ASSUME FeedInv, Broadcast
  PROVE  \/ down' = down
         \/ \E m \in Frames : /\ down' = Append(down, m)
                              /\ Solid(m.candles) /\ m.candles \subseteq 1..cached[m.pair]
<1> DEFINE f == stream.futures[chan.at]
<1>1. /\ chan.open /\ chan.at \in DOMAIN stream.futures
      /\ chan' \in Channels /\ chan'.open /\ chan'.at \in DOMAIN stream.futures
  BY BroadcastIs, Zenon
<1>2. f \in Futures /\ f # Pending
  BY <1>1 DEF FeedInv, Typed, Broadcast
<1>3. down' = down
      \/ /\ f.msg \in Frames /\ down' = Append(down, f.msg) /\ f.msg.type = "analyzed_df"
         /\ Solid(f.msg.candles) /\ f.msg.candles \subseteq 1..cached[f.msg.pair]
  <2>1. down' = IF chan.subscribed /\ f.msg # Other THEN Append(down, f.msg) ELSE down
    BY DEF Broadcast
  <2>2. ASSUME f.msg # Other, f.msg # Pending.msg
        PROVE  f.msg \in Frames /\ f.msg.type = "analyzed_df"
               /\ Solid(f.msg.candles) /\ f.msg.candles \subseteq 1..cached[f.msg.pair]
    <3>1. f.msg \in Signals \cup {Other}
      BY <1>1, <2>2, FutureIs
    <3> DEFINE m == f.msg
    <3>2. m.type = "analyzed_df" /\ m.pair \in Pairs /\ \E c \in Nat : m = Df(m.pair, {c}) /\ m.candles = {c}
      <4> HIDE DEF m
      <4> QED BY <2>2, <3>1, MessageIs DEF m
    <3>3. PICK c \in Nat : m = Df(m.pair, {c}) /\ m.candles = {c}
      BY <3>2
    <3>5. m \in Frames
      <4> HIDE DEF m
      <4> QED BY <3>2, <3>3, SignalIs
    <3>4. Solid({c})
      BY DEF Solid
    <3>6. m.candles \subseteq 1..cached[m.pair]
      BY <1>1, <3>2 DEF FeedInv, Analysed
    <3> QED BY <3>2, <3>3, <3>4, <3>5, <3>6
  <2>3. f.msg # Pending.msg
    <3>1. f.msg \in Signals \cup {Other}
      BY <1>1, <1>2, FutureIs
    <3>2. Pending.msg.type # "analyzed_df" /\ Pending.msg # Other
      BY DEF Pending, Other
    <3> QED BY <3>1, <3>2, MessageIs
  <2> QED BY <2>1, <2>2, <2>3
<1> HIDE DEF f
<1> QED BY <1>3

LEMMA BroadcastKeeps == FeedInv /\ Broadcast => FeedInv'
<1> SUFFICES ASSUME FeedInv, Broadcast PROVE FeedInv'
  OBVIOUS
<1>1. /\ chan.open /\ chan.at \in DOMAIN stream.futures
      /\ chan' \in Channels /\ chan'.open /\ chan'.at \in DOMAIN stream.futures
  BY BroadcastIs, Zenon
<1>3. \/ down' = down
      \/ \E m \in Frames : /\ down' = Append(down, m)
                           /\ Solid(m.candles) /\ m.candles \subseteq 1..cached[m.pair]
  BY BroadcastSends
<1>4. down \in Seq(Frames)
  BY DEF FeedInv, Typed
<1>5. /\ down' \in Seq(Frames)
      /\ \A i \in DOMAIN down' : \/ i \in DOMAIN down /\ down'[i] = down[i]
                                 \/ /\ Solid(down'[i].candles)
                                    /\ down'[i].candles \subseteq 1..cached[down'[i].pair]
  <2>1. CASE down' = down
    BY <1>4, <2>1
  <2>2. ASSUME NEW m \in Frames, down' = Append(down, m),
               Solid(m.candles), m.candles \subseteq 1..cached[m.pair]
        PROVE  /\ down' \in Seq(Frames)
               /\ \A i \in DOMAIN down' : \/ i \in DOMAIN down /\ down'[i] = down[i]
                                          \/ /\ Solid(down'[i].candles)
                                             /\ down'[i].candles \subseteq 1..cached[down'[i].pair]
    <3>1. /\ down' \in Seq(Frames) /\ DOMAIN down' = DOMAIN down \cup {Len(down) + 1}
          /\ \A i \in DOMAIN down : down'[i] = down[i]
          /\ down'[Len(down) + 1] = m
      BY <1>4, <2>2, InAppend
    <3> QED BY <2>2, <3>1
  <2> QED BY <1>3, <2>1, <2>2
<1>6. Typed'
  BY <1>1, <1>5 DEF FeedInv, Typed, Broadcast
<1>7. Places'
  BY <1>1 DEF FeedInv, Places, Broadcast
<1>8. Analysed'
  BY <1>5 DEF FeedInv, Analysed, Broadcast
<1>9. Whole'
  BY <1>5 DEF FeedInv, Whole, Broadcast
<1>10. Wanting'
  BY <1>1 DEF FeedInv, Wanting, Broadcast
<1> QED BY <1>6, <1>7, <1>8, <1>9, <1>10 DEF FeedInv

\* A finite set in some order: every member of it is there.
LEMMA InOrderOf ==
  ASSUME NEW S, IsFiniteSet(S)
  PROVE  LET s == SetToSeq(S) IN
         /\ Cardinality(S) \in Nat /\ s \in [1..Cardinality(S) -> S]
         /\ \A x \in S : \E i \in 1..Cardinality(S) : s[i] = x
<1> DEFINE s == SetToSeq(S)
           N == 1..Cardinality(S)
<1>1. Cardinality(S) \in Nat /\ ExistsBijection(N, S)
  BY FS_CardinalityType
<1>2. PICK g : g \in Bijection(N, S)
  BY <1>1 DEF ExistsBijection
<1>3. g \in [N -> S] /\ IsInjective(g)
  BY <1>2 DEF Bijection, Injection
<1>4. s \in [N -> S] /\ IsInjective(s)
  <2>1. \E h \in [N -> S] : IsInjective(h)
    BY <1>3
  <2> QED BY <2>1, Zenon DEF SetToSeq
<1> HIDE DEF s
<1>5. s \in Injection(N, S)
  BY <1>4 DEF Injection
<1>6. Cardinality(N) = Cardinality(S)
  BY <1>1, FS_Interval
<1>7. s \in Surjection(N, S)
  <2> HIDE DEF N
  <2> QED BY <1>5, <1>6, FS_Injection
<1>8. \A x \in S : \E i \in N : s[i] = x
  BY <1>7 DEF Surjection
<1> QED BY <1>1, <1>4, <1>8 DEF s

\* The frames that a request asks for.
LEMMA ReadIs ==
  ASSUME FeedInv, Read
  PROVE  LET r == Head(up) IN
         /\ r \in Requests \cup {Subscribe} /\ up # <<>> /\ up \in Seq(Requests \cup {Subscribe}) /\ up' = Tail(up)
         /\ chan' \in Channels /\ chan.open /\ chan'.open = chan.open /\ chan'.at = chan.at /\ chan'.last = chan.last
         /\ chan.todo = <<>>
         /\ r.type = "analyzed_df" => \A p \in r.pairs : \E w \in ToSet(chan'.todo) : w.pair = p
<1> DEFINE r == Head(up)
           s == SetToSeq(r.pairs)
           todo == [i \in 1..Cardinality(r.pairs) |-> [pair |-> s[i], limit |-> r.limit]]
<1>1. up \in Seq(Requests \cup {Subscribe}) /\ up # <<>> /\ up' = Tail(up) /\ chan \in Channels /\ chan.open
      /\ chan.todo = <<>>
  BY DEF FeedInv, Typed, Read
<1>2. r \in Requests \cup {Subscribe}
  BY <1>1, InTail
<1>3. chan' = IF r.type = "subscribe" THEN [chan EXCEPT !.subscribed = TRUE] ELSE [chan EXCEPT !.todo = todo]
  BY DEF Read
<1> HIDE DEF r
<1>4. CASE r = Subscribe
  <2>1. r.type = "subscribe"
    BY <1>4 DEF Subscribe
  <2>2. chan' = [chan EXCEPT !.subscribed = TRUE]
    BY <1>3, <2>1
  <2>3. chan' \in Channels /\ chan'.open = chan.open /\ chan'.at = chan.at /\ chan'.last = chan.last
    BY <1>1, <2>2 DEF Channels
  <2> QED BY <1>1, <1>2, <2>1, <2>3 DEF r
<1>5. CASE r \in Requests
  <2>1. r.type = "analyzed_df" /\ r.pairs \in SUBSET Pairs /\ r.limit \in Nat \ {0}
    BY <1>5 DEF Requests
  <2>2. IsFiniteSet(r.pairs)
    BY <2>1, FeedAssumption, FS_Subset
  <2>3. /\ Cardinality(r.pairs) \in Nat /\ s \in [1..Cardinality(r.pairs) -> r.pairs]
        /\ \A x \in r.pairs : \E i \in 1..Cardinality(r.pairs) : s[i] = x
    BY <2>2, InOrderOf, Zenon
  <2>4. chan' = [chan EXCEPT !.todo = todo]
    BY <1>3, <2>1
  <2> HIDE DEF s
  <2>5. \A i \in 1..Cardinality(r.pairs) : [pair |-> s[i], limit |-> r.limit] \in Todo
    BY <2>1, <2>3 DEF Todo
  <2>6. todo \in Seq(Todo)
    BY <2>3, <2>5
  <2>7. ASSUME NEW p \in r.pairs PROVE \E w \in ToSet(todo) : w.pair = p
    <3>1. PICK i \in 1..Cardinality(r.pairs) : s[i] = p
      BY <2>3
    <3>2. todo[i] \in ToSet(todo)
      BY DEF ToSet
    <3>3. todo[i].pair = p
      BY <3>1
    <3> QED BY <3>2, <3>3
  <2> HIDE DEF todo
  <2>8. chan' \in Channels /\ chan'.open = chan.open /\ chan'.at = chan.at /\ chan'.last = chan.last
        /\ chan'.todo = todo
    BY <1>1, <2>4, <2>6 DEF Channels
  <2> QED BY <1>1, <1>2, <2>7, <2>8 DEF r
<1> QED BY <1>2, <1>4, <1>5

LEMMA ReadKeeps == FeedInv /\ Read => FeedInv'
<1> SUFFICES ASSUME FeedInv, Read PROVE FeedInv'
  OBVIOUS
<1>1. /\ up # <<>> /\ up \in Seq(Requests \cup {Subscribe}) /\ up' = Tail(up)
      /\ chan' \in Channels /\ chan.open /\ chan'.open = chan.open /\ chan'.at = chan.at
  BY ReadIs, Zenon
<1>2. up' \in Seq(Requests \cup {Subscribe})
  BY <1>1, InTail
<1>3. Typed'
  BY <1>1, <1>2 DEF FeedInv, Typed, Read
<1>4. Places'
  BY <1>1 DEF FeedInv, Places, Read
<1>5. Analysed'
  BY DEF FeedInv, Analysed, Read
<1>6. Whole'
  BY DEF FeedInv, Whole, Read
<1>7. Wanting'
  BY <1>1 DEF FeedInv, Wanting, Read
<1> QED BY <1>3, <1>4, <1>5, <1>6, <1>7 DEF FeedInv

\* The frame that is sent, as it is when it is sent.
LEMMA AnswerIs ==
  ASSUME FeedInv, Answer
  PROVE  LET r == Head(chan.todo) IN
         /\ chan.open /\ chan.todo # <<>> /\ chan.todo \in Seq(Todo) /\ r \in Todo
         /\ chan' \in Channels /\ chan'.open = chan.open /\ chan'.at = chan.at /\ chan'.last = chan.last
         /\ chan'.todo = Tail(chan.todo)
         /\ \E m \in Frames :
              /\ down \in Seq(Frames) /\ down' = Append(down, m) /\ m.pair = r.pair
              /\ Solid(m.candles) /\ m.candles \subseteq 1..cached[r.pair]
              /\ cached[r.pair] # NONE => m.candles # {} /\ MaxOf(m.candles) = cached[r.pair]
<1> DEFINE r == Head(chan.todo)
           cs == IF cached[r.pair] = NONE THEN {} ELSE Newest(r.pair, cached[r.pair], r.limit)
           m == Df(r.pair, cs)
<1>1. chan \in Channels /\ chan.open /\ chan.todo # <<>> /\ chan.todo \in Seq(Todo) /\ down \in Seq(Frames)
      /\ cached \in [Pairs -> Nat]
  BY DEF FeedInv, Typed, Answer, Channels
<1>2. r \in Todo /\ Tail(chan.todo) \in Seq(Todo)
  BY <1>1, InTail
<1>3. chan' = [chan EXCEPT !.todo = Tail(chan.todo)]
  BY <1>1 DEF Answer
<1>4. chan' \in Channels /\ chan'.open = chan.open /\ chan'.at = chan.at /\ chan'.last = chan.last
      /\ chan'.todo = Tail(chan.todo)
  BY <1>1, <1>2, <1>3 DEF Channels
<1>5. r.pair \in Pairs /\ r.limit \in Nat /\ r.limit > 0
  BY <1>2 DEF Todo
<1>6. down' = down \o <<m>>
  BY DEF Answer, Reply
<1> HIDE DEF r
<1>7. /\ cs \in SUBSET (1..cached[r.pair]) /\ Solid(cs)
      /\ cached[r.pair] # NONE => cs # {} /\ MaxOf(cs) = cached[r.pair]
  <2>1. CASE cached[r.pair] = NONE
    BY <2>1 DEF Solid
  <2>2. CASE cached[r.pair] # NONE
    <3>1. cached[r.pair] \in Nat /\ cached[r.pair] \in Start..market
      BY <1>1, <1>5, <2>2 DEF FeedInv, Analysed
    <3>2. cached[r.pair] >= Listed[r.pair]
      <4>1. Start \in Nat /\ Listed[r.pair] \in Nat /\ Listed[r.pair] <= Start
        BY <1>5, Bounds
      <4>2. market \in Nat
        BY DEF FeedInv, Typed
      <4> QED BY <3>1, <4>1, <4>2
    <3>3. cs = Newest(r.pair, cached[r.pair], r.limit)
      BY <2>2
    <3> HIDE DEF cs
    <3> QED BY <1>5, <3>1, <3>2, <3>3, NewestIs
  <2> QED BY <2>1, <2>2
<1>8. cs \in SUBSET Nat
  BY <1>7
<1> HIDE DEF cs
<1>9. m \in Frames /\ m.pair = r.pair /\ m.candles = cs
  BY <1>5, <1>8, SignalIs
<1> HIDE DEF m
<1>10. down' = Append(down, m)
  BY <1>1, <1>6, <1>9
<1> QED BY <1>1, <1>2, <1>4, <1>7, <1>9, <1>10 DEF r

LEMMA AnswerKeeps == FeedInv /\ Answer => FeedInv'
<1> SUFFICES ASSUME FeedInv, Answer PROVE FeedInv'
  OBVIOUS
<1>1. chan.open /\ chan' \in Channels /\ chan'.open = chan.open /\ chan'.at = chan.at
  BY AnswerIs, Zenon
<1>2. PICK m \in Frames :
        /\ down \in Seq(Frames) /\ down' = Append(down, m)
        /\ Solid(m.candles) /\ m.candles \subseteq 1..cached[m.pair]
  BY AnswerIs, Zenon
<1>3. /\ down' \in Seq(Frames) /\ DOMAIN down' = DOMAIN down \cup {Len(down) + 1}
      /\ \A i \in DOMAIN down : down'[i] = down[i]
      /\ down'[Len(down) + 1] = m
  BY <1>2, InAppend
<1>4. Typed'
  BY <1>1, <1>3 DEF FeedInv, Typed, Answer
<1>5. Places'
  BY <1>1 DEF FeedInv, Places, Answer
<1>6. Analysed'
  <2>1. \A i \in DOMAIN down' : down'[i].candles \subseteq 1..cached[down'[i].pair]
    BY <1>2, <1>3 DEF FeedInv, Analysed
  <2> QED BY <2>1 DEF FeedInv, Analysed, Answer
<1>7. Whole'
  <2>1. \A i \in DOMAIN down' : Solid(down'[i].candles)
    BY <1>2, <1>3 DEF FeedInv, Whole
  <2> QED BY <2>1 DEF FeedInv, Whole, Answer
<1>8. Wanting'
  BY <1>1 DEF FeedInv, Wanting, Answer
<1> QED BY <1>4, <1>5, <1>6, <1>7, <1>8 DEF FeedInv

LEMMA ConnectKeeps == FeedInv /\ Connect => FeedInv'
<1> SUFFICES ASSUME FeedInv, Connect PROVE FeedInv'
  OBVIOUS
<1>1. stream.waiter \in Nat /\ stream.waiter \in DOMAIN stream.futures
  BY DEF FeedInv, Typed, Places
<1>2. Closed \in Channels
  BY Bounds DEF Closed, Channels
<1>3. chan' = [[Closed EXCEPT !.open = TRUE] EXCEPT !.at = stream.waiter]
  BY DEF Connect
<1>4. [Closed EXCEPT !.open = TRUE] \in Channels /\ [Closed EXCEPT !.open = TRUE].open
  BY <1>2 DEF Channels
<1>5. chan' \in Channels /\ chan'.open /\ chan'.at = stream.waiter
  BY <1>1, <1>3, <1>4 DEF Channels
<1>6. cons' = NotSending /\ NotSending \in Consumers
  BY DEF Connect, NotSending, Consumers
<1>7. Typed'
  BY <1>5, <1>6 DEF FeedInv, Typed, Connect
<1>8. Places'
  BY <1>1, <1>5 DEF FeedInv, Places, Connect
<1>9. Analysed'
  BY DEF FeedInv, Analysed, Connect
<1>10. Whole'
  BY DEF FeedInv, Whole, Connect
<1>11. Wanting'
  <2>1. \A p \in Pairs : wanted[p] = NONE
    BY DEF FeedInv, Wanting, Connect
  <2> QED BY <1>5, <1>6, <2>1 DEF FeedInv, Wanting, Connect
<1> QED BY <1>7, <1>8, <1>9, <1>10, <1>11 DEF FeedInv

LEMMA SendInitialKeeps == FeedInv /\ SendInitial => FeedInv'
<1> SUFFICES ASSUME FeedInv, SendInitial PROVE FeedInv'
  OBVIOUS
<1>1. cons \in Consumers /\ cons.sent \in Nat /\ up \in Seq(Requests \cup {Subscribe}) /\ chan.open
  BY DEF FeedInv, Typed, Consumers, SendInitial
<1>2. Initial \in Seq(Requests \cup {Subscribe})
  <2>1. [type |-> "analyzed_df", pairs |-> Pairs, limit |-> Limit] \in Requests
    BY Bounds DEF Requests
  <2> QED BY <2>1 DEF Initial, Subscribe
<1>3. Initial[cons.sent + 1] \in Requests \cup {Subscribe}
  <2>1. cons.sent < Len(Initial)
    BY DEF SendInitial
  <2>2. Len(Initial) \in Nat
    BY <1>2
  <2>3. cons.sent + 1 \in 1..Len(Initial)
    BY <1>1, <2>1, <2>2
  <2> QED BY <1>2, <2>3
<1>4. up' \in Seq(Requests \cup {Subscribe})
  BY <1>1, <1>3, InAppend DEF SendInitial
<1>5. cons' \in Consumers /\ cons'.listening = cons.listening
  BY <1>1 DEF SendInitial, Consumers
<1>6. Typed'
  BY <1>4, <1>5 DEF FeedInv, Typed, SendInitial
<1>7. Places'
  BY DEF FeedInv, Places, SendInitial
<1>8. Analysed'
  BY DEF FeedInv, Analysed, SendInitial
<1>9. Whole'
  BY DEF FeedInv, Whole, SendInitial
<1>10. Wanting'
  BY <1>1, <1>5 DEF FeedInv, Wanting, SendInitial
<1> QED BY <1>6, <1>7, <1>8, <1>9, <1>10 DEF FeedInv

LEMMA ListenKeeps == FeedInv /\ Listen => FeedInv'
<1> SUFFICES ASSUME FeedInv, Listen PROVE FeedInv'
  OBVIOUS
<1>1. cons \in Consumers /\ chan.open
  BY DEF FeedInv, Typed, Listen
<1>2. cons' \in Consumers /\ cons'.listening
  BY <1>1 DEF Listen, Consumers
<1>3. Typed'
  BY <1>2 DEF FeedInv, Typed, Listen
<1>4. Places'
  BY DEF FeedInv, Places, Listen
<1>5. Analysed'
  BY DEF FeedInv, Analysed, Listen
<1>6. Whole'
  BY DEF FeedInv, Whole, Listen
<1>7. Wanting'
  BY <1>1, <1>2 DEF FeedInv, Wanting, Listen
<1> QED BY <1>3, <1>4, <1>5, <1>6, <1>7 DEF FeedInv

LEMMA SendRequestIs ==
  ASSUME FeedInv, SendRequest
  PROVE  /\ up \in Seq(Requests \cup {Subscribe}) /\ up' \in Seq(Requests \cup {Subscribe})
         /\ cons.out \in Seq(Requests) /\ cons.out # <<>> /\ Head(cons.out) \in Requests
         /\ up' = Append(up, Head(cons.out)) /\ chan.open
         /\ cons' \in Consumers /\ cons'.listening = cons.listening /\ cons'.out = Tail(cons.out)
<1>1. cons \in Consumers /\ up \in Seq(Requests \cup {Subscribe}) /\ chan.open /\ cons.out # <<>>
      /\ cons.out \in Seq(Requests)
  BY DEF FeedInv, Typed, Consumers, SendRequest
<1>2. Head(cons.out) \in Requests /\ Tail(cons.out) \in Seq(Requests)
  BY <1>1, InTail
<1>3. up' \in Seq(Requests \cup {Subscribe}) /\ up' = Append(up, Head(cons.out))
  BY <1>1, <1>2, InAppend DEF SendRequest
<1>4. cons' = [cons EXCEPT !.out = Tail(cons.out)]
  BY <1>1 DEF SendRequest, Consumers
<1>5. cons' \in Consumers /\ cons'.listening = cons.listening /\ cons'.out = Tail(cons.out)
  BY <1>1, <1>2, <1>4 DEF Consumers
<1> QED BY <1>1, <1>2, <1>3, <1>5

LEMMA SendRequestKeeps == FeedInv /\ SendRequest => FeedInv'
<1> SUFFICES ASSUME FeedInv, SendRequest PROVE FeedInv'
  OBVIOUS
<1>1. up' \in Seq(Requests \cup {Subscribe}) /\ chan.open
      /\ cons' \in Consumers /\ cons'.listening = cons.listening
  BY SendRequestIs
<1>2. Typed'
  BY <1>1 DEF FeedInv, Typed, SendRequest
<1>3. Places'
  BY DEF FeedInv, Places, SendRequest
<1>4. Analysed'
  BY DEF FeedInv, Analysed, SendRequest
<1>5. Whole'
  BY DEF FeedInv, Whole, SendRequest
<1>6. Wanting'
  BY <1>1 DEF FeedInv, Wanting, SendRequest
<1> QED BY <1>2, <1>3, <1>4, <1>5, <1>6 DEF FeedInv

\* What the consumer makes of the candles it gets.
LEMMA HandleIs ==
  ASSUME FeedInv, Handle, Head(down).candles # {}
  PROVE  LET m == Head(down)
             r == AddExternal(frame[m.pair], m.candles)
             asks == r.missing # NONE /\ cons.listening IN
         /\ frame' \in [Pairs -> SUBSET Nat] /\ (\A q \in Pairs \ {m.pair} : frame'[q] = frame[q])
         /\ frame'[m.pair] = r.frame /\ r.frame \subseteq 0..market /\ Solid(r.frame)
         /\ cons' \in Consumers /\ cons'.listening = cons.listening
         /\ asks => \E n \in Requests : cons.out \in Seq(Requests) /\ cons'.out = Append(cons.out, n) /\ n.pairs = {m.pair}
         /\ ~asks => cons'.out = cons.out
         /\ wanted' \in [Pairs -> Nat] /\ (\A q \in Pairs \ {m.pair} : wanted'[q] = wanted[q])
         /\ asks => wanted'[m.pair] = MaxOf(m.candles)
         /\ ~asks => wanted'[m.pair] = NONE \/ wanted'[m.pair] = wanted[m.pair]
         /\ ~asks /\ cons.listening /\ MaxOf(m.candles) >= wanted[m.pair] => wanted'[m.pair] = NONE
         /\ MaxOf(m.candles) \in Nat /\ MaxOf(m.candles) <= cached[m.pair]
<1> DEFINE m == Head(down)
           f == frame[m.pair]
           r == AddExternal(f, m.candles)
           asks == r.missing # NONE /\ cons.listening
           n == [type |-> "analyzed_df", pairs |-> {m.pair}, limit |-> Asked(r.missing)]
           w == IF r.missing # NONE /\ cons.listening THEN MaxOf(m.candles)
                ELSE IF MaxOf(r.frame \cup {0}) >= wanted[m.pair] THEN NONE ELSE wanted[m.pair]
<1>1. /\ down \in Seq(Frames) /\ down # <<>> /\ frame \in [Pairs -> SUBSET Nat] /\ wanted \in [Pairs -> Nat]
      /\ cons \in Consumers /\ cached \in [Pairs -> Nat] /\ market \in Nat
  BY DEF FeedInv, Typed, Handle
<1>2. /\ m \in Frames /\ 1 \in DOMAIN down /\ m = down[1]
  BY <1>1, InTail
<1>3. frame' = [frame EXCEPT ![m.pair] = r.frame]
  BY DEF Handle
<1>4. cons' = IF asks THEN [cons EXCEPT !.out = Append(cons.out, n)] ELSE cons
  BY <1>1 DEF Handle, Consumers
<1>5. wanted' = [wanted EXCEPT ![m.pair] = w]
  <2>1. m.pair \in Pairs
    <3> HIDE DEF m
    <3> QED BY <1>2, FrameIs
  <2> QED BY <1>1, <2>1 DEF Handle
<1>6. Solid(m.candles) /\ m.candles \subseteq 1..cached[m.pair]
  BY <1>2 DEF FeedInv, Analysed, Whole
<1>7. m.candles # {}
  OBVIOUS
<1> HIDE DEF m
<1>8. m.pair \in Pairs /\ m.candles \in SUBSET Nat
  BY <1>2, FrameIs
<1>9. cached[m.pair] \in Nat /\ cached[m.pair] <= market
  <2>1. cached[m.pair] = NONE \/ cached[m.pair] \in Start..market
    BY <1>8 DEF FeedInv, Analysed
  <2> QED BY <1>1, <1>8, <2>1, Bounds
<1>10. MaxOf(m.candles) \in Nat /\ MaxOf(m.candles) <= cached[m.pair]
  <2>1. m.candles \in SUBSET (0..cached[m.pair])
    BY <1>6, <1>9
  <2>2. MaxOf(m.candles) \in m.candles
    BY <1>7, <1>9, <2>1, MaxIs
  <2> QED BY <1>9, <2>1, <2>2, WithinIs
<1>11. f \in SUBSET (0..market) /\ Solid(f)
  BY <1>8 DEF FeedInv, Whole
<1>12. m.candles \in SUBSET (0..market)
  BY <1>1, <1>6, <1>9
<1>13. /\ r.frame \in SUBSET (0..market) /\ Solid(r.frame) /\ r.missing \in Nat
       /\ r.missing = NONE => r.frame # {} /\ MaxOf(m.candles) <= MaxOf(r.frame)
  <2> HIDE DEF f, r
  <2> QED BY <1>1, <1>6, <1>7, <1>11, <1>12, AddedSolid DEF r
<1> HIDE DEF f, r
<1>14. /\ frame' \in [Pairs -> SUBSET Nat] /\ (\A q \in Pairs \ {m.pair} : frame'[q] = frame[q])
       /\ frame'[m.pair] = r.frame
  BY <1>1, <1>3, <1>8, <1>13
<1>15. /\ cons' \in Consumers /\ cons'.listening = cons.listening
       /\ asks => n \in Requests /\ cons.out \in Seq(Requests) /\ cons'.out = Append(cons.out, n) /\ n.pairs = {m.pair}
       /\ ~asks => cons'.out = cons.out
  <2>1. CASE ~asks
    BY <1>1, <1>4, <2>1
  <2>2. CASE asks
    <3>1. Asked(r.missing) \in Nat \ {0}
      <4>1. Limit \in Nat \ {0}
        BY Bounds
      <4> QED BY <1>13, <4>1 DEF Asked
    <3>2. n \in Requests /\ n.pairs = {m.pair}
      BY <1>8, <3>1 DEF Requests
    <3> HIDE DEF n
    <3>3. cons.out \in Seq(Requests)
      BY <1>1 DEF Consumers
    <3>4. Append(cons.out, n) \in Seq(Requests)
      BY <3>2, <3>3, InAppend
    <3>5. cons' = [cons EXCEPT !.out = Append(cons.out, n)]
      BY <1>4, <2>2
    <3>6. cons' \in Consumers /\ cons'.listening = cons.listening /\ cons'.out = Append(cons.out, n)
      BY <1>1, <3>4, <3>5 DEF Consumers
    <3> QED BY <2>2, <3>2, <3>3, <3>6
  <2> QED BY <2>1, <2>2
<1> HIDE DEF n
<1>16. /\ asks => w = MaxOf(m.candles)
       /\ ~asks => w = NONE \/ w = wanted[m.pair]
  OBVIOUS
<1>17. ASSUME ~asks, cons.listening, MaxOf(m.candles) >= wanted[m.pair]
       PROVE  w = NONE
  <2>1. r.frame \cup {0} = r.frame \cup {0} /\ r.frame \cup {0} \in SUBSET (0..market)
    BY <1>1, <1>13
  <2>2. MaxOf(r.frame \cup {0}) \in r.frame \cup {0} /\ \A x \in r.frame \cup {0} : x <= MaxOf(r.frame \cup {0})
    BY <1>1, <2>1, MaxIs
  <2>3. r.missing = NONE /\ r.frame # {} /\ MaxOf(m.candles) <= MaxOf(r.frame)
    BY <1>13, <1>17
  <2>4. MaxOf(r.frame) \in r.frame
    BY <1>1, <1>13, <2>3, MaxIs
  <2>5. MaxOf(r.frame) <= MaxOf(r.frame \cup {0})
    BY <2>2, <2>4
  <2>6. MaxOf(r.frame) \in Nat /\ MaxOf(r.frame \cup {0}) \in Nat /\ wanted[m.pair] \in Nat
    BY <1>1, <1>8, <1>13, <2>1, <2>2, <2>4, WithinIs
  <2>7. MaxOf(r.frame \cup {0}) >= wanted[m.pair]
    BY <1>10, <1>17, <2>3, <2>5, <2>6
  <2> QED BY <1>17, <2>7
<1>18. w \in Nat
  BY <1>1, <1>8, <1>10, Bounds
<1> HIDE DEF w, asks
<1>19. /\ wanted' \in [Pairs -> Nat] /\ (\A q \in Pairs \ {m.pair} : wanted'[q] = wanted[q])
       /\ wanted'[m.pair] = w
  BY <1>1, <1>5, <1>8, <1>18
<1>20. asks => \E k \in Requests : cons.out \in Seq(Requests) /\ cons'.out = Append(cons.out, k) /\ k.pairs = {m.pair}
  BY <1>15
<1>21. (~asks /\ cons.listening /\ MaxOf(m.candles) >= wanted[m.pair]) => wanted'[m.pair] = NONE
  BY <1>17, <1>19
<1> QED BY <1>10, <1>13, <1>14, <1>15, <1>16, <1>19, <1>20, <1>21 DEF m, f, r, asks

LEMMA HandleKeeps == FeedInv /\ Handle => FeedInv'
<1> SUFFICES ASSUME FeedInv, Handle PROVE FeedInv'
  OBVIOUS
<1> DEFINE m == Head(down)
<1>1. down \in Seq(Frames) /\ down # <<>> /\ down' = Tail(down) /\ chan.open
  BY DEF FeedInv, Typed, Handle
<1>2. /\ down' \in Seq(Frames) /\ m \in Frames
      /\ \A i \in DOMAIN down' : i + 1 \in DOMAIN down /\ down'[i] = down[i + 1]
  BY <1>1, InTail
<1>3. Places'
  BY DEF FeedInv, Places, Handle
<1>4. Analysed'
  <2>1. \A i \in DOMAIN down' : down'[i].candles \subseteq 1..cached[down'[i].pair]
    BY <1>2 DEF FeedInv, Analysed
  <2> QED BY <2>1 DEF FeedInv, Analysed, Handle
<1>5. \A i \in DOMAIN down' : Solid(down'[i].candles)
  BY <1>2 DEF FeedInv, Whole
<1>6. CASE m.candles = {}
  <2>1. UNCHANGED <<cons, frame, wanted>>
    BY <1>6 DEF Handle
  <2>2. Typed'
    BY <1>2, <2>1 DEF FeedInv, Typed, Handle
  <2>3. Whole'
    BY <1>5, <2>1 DEF FeedInv, Whole, Handle
  <2>4. Wanting'
    BY <1>1, <2>1 DEF FeedInv, Wanting, Handle
  <2> QED BY <1>3, <1>4, <2>2, <2>3, <2>4 DEF FeedInv
<1>7. CASE m.candles # {}
  <2>1. /\ frame' \in [Pairs -> SUBSET Nat] /\ (\A q \in Pairs \ {m.pair} : frame'[q] = frame[q])
        /\ frame'[m.pair] \subseteq 0..market /\ Solid(frame'[m.pair])
        /\ cons' \in Consumers /\ cons'.listening = cons.listening
        /\ wanted' \in [Pairs -> Nat] /\ (\A q \in Pairs \ {m.pair} : wanted'[q] = wanted[q])
        /\ \/ cons.listening /\ wanted'[m.pair] = MaxOf(m.candles)
           \/ wanted'[m.pair] = NONE
           \/ wanted'[m.pair] = wanted[m.pair]
        /\ MaxOf(m.candles) <= cached[m.pair]
    BY <1>7, HandleIs, Zenon
  <2> HIDE DEF m
  <2>2. m.pair \in Pairs
    BY <1>2, FrameIs
  <2>3. Typed'
    BY <1>2, <2>1 DEF FeedInv, Typed, Handle
  <2>4. Whole'
    <3>1. ASSUME NEW p \in Pairs PROVE Solid(frame'[p]) /\ frame'[p] \subseteq 0..market
      BY <2>1 DEF FeedInv, Whole
    <3> QED BY <1>5, <3>1 DEF FeedInv, Whole, Handle
  <2>5. Wanting'
    <3>1. ASSUME NEW p \in Pairs
          PROVE  wanted'[p] <= cached[p] /\ (~cons.listening => wanted'[p] = NONE)
      <4>1. cached[p] \in Nat /\ NONE = 0
        BY Bounds DEF FeedInv, Typed
      <4>2. wanted[p] <= cached[p] /\ (~cons.listening => wanted[p] = NONE)
        BY DEF FeedInv, Wanting
      <4> QED BY <2>1, <4>1, <4>2
    <3> QED BY <1>1, <2>1, <3>1 DEF FeedInv, Wanting, Handle
  <2> QED BY <1>3, <1>4, <2>3, <2>4, <2>5 DEF FeedInv
<1> QED BY <1>6, <1>7

\* A connection that is lost leaves nothing under way.
LEMMA DropsIs ==
  ASSUME Drops
  PROVE  /\ chan' = Closed /\ chan' \in Channels /\ ~chan'.open /\ up' = <<>> /\ down' = <<>>
         /\ cons' \in Consumers /\ ~cons'.listening
         /\ wanted' \in [Pairs -> Nat] /\ (\A p \in Pairs : wanted'[p] = NONE) /\ market' = market
<1>1. Closed \in Channels /\ ~Closed.open
  BY Bounds DEF Closed, Channels
<1>2. NotSending \in Consumers /\ ~NotSending.listening
  BY DEF NotSending, Consumers
<1>3. wanted' \in [Pairs -> Nat] /\ \A p \in Pairs : wanted'[p] = NONE
  BY Bounds DEF Drops
<1> QED BY <1>1, <1>2, <1>3 DEF Drops

LEMMA DisconnectKeeps == FeedInv /\ Disconnect => FeedInv'
<1> SUFFICES ASSUME FeedInv, Disconnect PROVE FeedInv'
  OBVIOUS
<1>1. /\ chan' = Closed /\ chan' \in Channels /\ ~chan'.open /\ up' = <<>> /\ down' = <<>>
      /\ cons' \in Consumers /\ ~cons'.listening
      /\ wanted' \in [Pairs -> Nat] /\ (\A p \in Pairs : wanted'[p] = NONE) /\ market' = market
  BY DropsIs DEF Disconnect
<1>2. cached' = cached /\ stream' = stream /\ pub' = pub /\ frame' = frame
  BY DEF Disconnect
<1>3. Typed'
  BY <1>1, <1>2 DEF FeedInv, Typed
<1>4. Places'
  BY <1>1, <1>2 DEF FeedInv, Places
<1>5. Analysed'
  BY <1>1, <1>2 DEF FeedInv, Analysed
<1>6. Whole'
  BY <1>1, <1>2 DEF FeedInv, Whole
<1>7. Wanting'
  <2>1. \A p \in Pairs : wanted'[p] <= cached[p]
    BY <1>1, Bounds DEF FeedInv, Typed
  <2> QED BY <1>1, <1>2, <2>1 DEF Wanting, Closed
<1> QED BY <1>3, <1>4, <1>5, <1>6, <1>7 DEF FeedInv

LEMMA RestartConsumerKeeps == FeedInv /\ RestartConsumer => FeedInv'
<1> SUFFICES ASSUME FeedInv, RestartConsumer PROVE FeedInv'
  OBVIOUS
<1>1. /\ chan' = Closed /\ chan' \in Channels /\ ~chan'.open /\ up' = <<>> /\ down' = <<>>
      /\ cons' \in Consumers /\ ~cons'.listening
      /\ wanted' \in [Pairs -> Nat] /\ (\A p \in Pairs : wanted'[p] = NONE) /\ market' = market
  BY DropsIs DEF RestartConsumer
<1>2. cached' = cached /\ stream' = stream /\ pub' = pub
  BY DEF RestartConsumer
<1>3. frame' \in [Pairs -> SUBSET Nat] /\ \A p \in Pairs : frame'[p] = {}
  BY DEF RestartConsumer
<1>4. Typed'
  BY <1>1, <1>2, <1>3 DEF FeedInv, Typed
<1>5. Places'
  BY <1>1, <1>2 DEF FeedInv, Places
<1>6. Analysed'
  BY <1>1, <1>2 DEF FeedInv, Analysed
<1>7. Whole'
  BY <1>1, <1>3 DEF Whole, Solid
<1>8. Wanting'
  <2>1. \A p \in Pairs : wanted'[p] <= cached[p]
    BY <1>1, Bounds DEF FeedInv, Typed
  <2> QED BY <1>1, <1>2, <2>1 DEF Wanting, Closed
<1> QED BY <1>4, <1>5, <1>6, <1>7, <1>8 DEF FeedInv

\* A stream that begins anew, and publishers that have nothing to send.
LEMMA AnewIs ==
  ASSUME NEW s, s = NewStream, NEW b, b = [t \in Publishers |-> Idle]
  PROVE  /\ s \in [waiter : Nat, futures : Seq(Futures)] /\ b \in [Publishers -> Senders]
         /\ s.waiter = 1 /\ DOMAIN s.futures = {1} /\ s.futures[1] = Pending
         /\ \A t \in Publishers : b[t].at = "idle" /\ b[t].msgs = <<>>
<1>1. Pending \in Futures
  BY DEF Futures
<1>2. Idle \in Senders /\ Idle.at = "idle" /\ Idle.msgs = <<>>
  BY Bounds DEF Idle, Senders
<1>3. b \in [Publishers -> Senders] /\ \A t \in Publishers : b[t].at = "idle" /\ b[t].msgs = <<>>
  BY <1>2
<1>4. s.waiter = 1 /\ s.futures = <<Pending>>
  BY DEF NewStream
<1>5. s \in [waiter : Nat, futures : Seq(Futures)]
  BY <1>1 DEF NewStream
<1> QED BY <1>3, <1>4, <1>5

LEMMA RestartProducerKeeps == FeedInv /\ RestartProducer => FeedInv'
<1> SUFFICES ASSUME FeedInv, RestartProducer PROVE FeedInv'
  OBVIOUS
<1>1. /\ chan' = Closed /\ chan' \in Channels /\ ~chan'.open /\ up' = <<>> /\ down' = <<>>
      /\ cons' \in Consumers /\ ~cons'.listening
      /\ wanted' \in [Pairs -> Nat] /\ (\A p \in Pairs : wanted'[p] = NONE) /\ market' = market
  BY DropsIs DEF RestartProducer
<1>2. frame' = frame /\ stream' = NewStream /\ pub' = [t \in Publishers |-> Idle]
      /\ cached' \in [Pairs -> Nat] /\ \A p \in Pairs : cached'[p] = NONE
  BY Bounds DEF RestartProducer
<1>3. /\ stream' \in [waiter : Nat, futures : Seq(Futures)] /\ pub' \in [Publishers -> Senders]
      /\ stream'.waiter = 1 /\ DOMAIN stream'.futures = {1} /\ stream'.futures[1] = Pending
      /\ \A t \in Publishers : pub'[t].at = "idle" /\ pub'[t].msgs = <<>>
  BY <1>2, AnewIs, Zenon
<1>4. Typed'
  BY <1>1, <1>2, <1>3 DEF FeedInv, Typed
<1>5. Places'
  BY <1>1, <1>3 DEF Places
<1>6. Analysed'
  <2>1. Pending.msg.type # "analyzed_df"
    BY DEF Pending
  <2> QED BY <1>1, <1>2, <1>3, <2>1 DEF Analysed
<1>7. Whole'
  BY <1>1, <1>2 DEF FeedInv, Whole
<1>8. Wanting'
  <2>1. \A p \in Pairs : wanted'[p] <= cached'[p]
    BY <1>1, <1>2, Bounds
  <2> QED BY <1>1, <2>1 DEF Wanting, Closed
<1> QED BY <1>4, <1>5, <1>6, <1>7, <1>8 DEF FeedInv

LEMMA FeedStep == FeedInv /\ [Next]_vars => FeedInv'
<1> SUFFICES ASSUME FeedInv, [Next]_vars PROVE FeedInv'
  OBVIOUS
<1>1. CASE Candle
  BY <1>1, CandleKeeps
<1>2. CASE \E p \in Pairs : Analyze(p)
  BY <1>2, AnalyzeKeeps
<1>3. ASSUME NEW t \in Publishers, SendOther(t) \/ Publish(t) PROVE FeedInv'
  BY <1>3, SendOtherKeeps, TakeKeeps, StoreKeeps, SetResultKeeps DEF Publish
<1>4. CASE Broadcast \/ Read \/ Answer
  BY <1>4, BroadcastKeeps, ReadKeeps, AnswerKeeps
<1>5. CASE Connect \/ SendInitial \/ Listen \/ SendRequest \/ Handle
  BY <1>5, ConnectKeeps, SendInitialKeeps, ListenKeeps, SendRequestKeeps, HandleKeeps
<1>6. CASE Disconnect \/ RestartProducer \/ RestartConsumer
  BY <1>6, DisconnectKeeps, RestartProducerKeeps, RestartConsumerKeeps
<1>7. CASE UNCHANGED vars
  <2>1. /\ market' = market /\ cached' = cached /\ stream' = stream /\ pub' = pub /\ chan' = chan
        /\ up' = up /\ down' = down /\ cons' = cons /\ frame' = frame /\ wanted' = wanted
    BY <1>7 DEF vars
  <2>2. Typed' /\ Places'
    BY <2>1 DEF FeedInv, Typed, Places
  <2>3. Analysed' /\ Whole'
    BY <2>1 DEF FeedInv, Analysed, Whole
  <2>4. Wanting'
    BY <2>1 DEF FeedInv, Wanting
  <2> QED BY <2>2, <2>3, <2>4 DEF FeedInv
<1> QED BY <1>1, <1>2, <1>3, <1>4, <1>5, <1>6, <1>7 DEF Next

\* Requests, messages and candles have their types, futures that are referred to have
\* been made, and no frame or message has a hole: stream, channel and consumer together.
THEOREM FeedTyped == Spec => []FeedInv
  BY FeedInit, FeedStep, PTL DEF Spec

\* The candles a consumer has of a pair have no hole, whatever is lost, late or restarted
\* (dataprovider.py, _add_external_df and __add_external_df).
THEOREM FramesHaveNoHoles == Spec => []NoHoles
<1>1. FeedInv => NoHoles
  BY DEF FeedInv, Whole, NoHoles, Solid
<1> QED BY <1>1, FeedTyped, PTL

(* A hole stays asked for *)

LEMMA AskedInit == Init => HolesAskedFor
  BY DEF Init, HolesAskedFor

LEMMA AskedStep == FeedInv /\ HolesAskedFor /\ [Next]_vars => HolesAskedFor'
<1> SUFFICES ASSUME FeedInv, HolesAskedFor, [Next]_vars, NEW p \in Pairs, wanted'[p] # NONE
             PROVE  \/ \E r \in ToSet(cons'.out) : p \in r.pairs
                    \/ \E r \in ToSet(up') : r.type = "analyzed_df" /\ p \in r.pairs
                    \/ \E r \in ToSet(chan'.todo) : r.pair = p
                    \/ \E m \in ToSet(down') : m.pair = p /\ m.candles # {} /\ MaxOf(m.candles) >= wanted'[p]
  BY DEF HolesAskedFor
<1> DEFINE Asks(o, u, t, d, w) ==
             \/ \E r \in ToSet(o) : p \in r.pairs
             \/ \E r \in ToSet(u) : r.type = "analyzed_df" /\ p \in r.pairs
             \/ \E r \in ToSet(t) : r.pair = p
             \/ \E m \in ToSet(d) : m.pair = p /\ m.candles # {} /\ MaxOf(m.candles) >= w
<1>1. SUFFICES Asks(cons'.out, up', chan'.todo, down', wanted'[p])
  BY Zenon
<1>2. wanted[p] # NONE => Asks(cons.out, up, chan.todo, down, wanted[p])
  BY DEF HolesAskedFor
<1>3. CASE cons' = cons /\ up' = up /\ chan' = chan /\ down' = down /\ wanted' = wanted
  BY <1>2, <1>3
<1>4. CASE Broadcast
  <2>1. chan'.todo = chan.todo /\ cons' = cons /\ up' = up /\ wanted' = wanted
    BY <1>4, BroadcastIs, Zenon DEF Broadcast
  <2>2. ToSet(down) \subseteq ToSet(down')
    <3>1. down' = down \/ \E m \in Frames : down' = Append(down, m)
      BY <1>4, BroadcastSends
    <3>2. down \in Seq(Frames)
      BY DEF FeedInv, Typed
    <3>3. ASSUME NEW m \in Frames PROVE ToSet(down) \subseteq ToSet(Append(down, m))
      BY <3>2, InAppend
    <3> QED BY <3>1, <3>3
  <2> QED BY <1>2, <2>1, <2>2
<1>5. CASE Read
  <2> DEFINE r == Head(up)
  <2>1. /\ r.type = "analyzed_df" => \A q \in r.pairs : \E w \in ToSet(chan'.todo) : w.pair = q
        /\ up # <<>> /\ up \in Seq(Requests \cup {Subscribe}) /\ up' = Tail(up) /\ chan.todo = <<>>
    BY <1>5, ReadIs, Zenon
  <2>2. cons' = cons /\ down' = down /\ wanted' = wanted
    BY <1>5 DEF Read
  <2>3. \A x \in ToSet(up) : x = r \/ x \in ToSet(up')
    BY <2>1, InTail
  <2>4. ToSet(chan.todo) = {}
    BY <2>1 DEF ToSet
  <2> HIDE DEF r
  <2> QED BY <1>2, <2>1, <2>2, <2>3, <2>4
<1>6. CASE Answer
  <2> DEFINE r == Head(chan.todo)
  <2>1. /\ chan.todo # <<>> /\ chan.todo \in Seq(Todo) /\ chan'.todo = Tail(chan.todo)
        /\ \E m \in Frames :
              /\ down \in Seq(Frames) /\ down' = Append(down, m) /\ m.pair = r.pair
              /\ cached[r.pair] # NONE => m.candles # {} /\ MaxOf(m.candles) = cached[r.pair]
    BY <1>6, AnswerIs, Zenon
  <2>2. PICK m \in Frames :
              /\ down \in Seq(Frames) /\ down' = Append(down, m) /\ m.pair = r.pair
              /\ cached[r.pair] # NONE => m.candles # {} /\ MaxOf(m.candles) = cached[r.pair]
    BY <2>1
  <2>3. cons' = cons /\ up' = up /\ wanted' = wanted
    BY <1>6 DEF Answer
  <2>4. m \in ToSet(down') /\ ToSet(down) \subseteq ToSet(down')
    BY <2>2, InAppend
  <2>5. \A x \in ToSet(chan.todo) : x = r \/ x \in ToSet(chan'.todo)
    BY <2>1, InTail
  <2>6. wanted[p] \in Nat /\ cached[p] \in Nat /\ wanted[p] <= cached[p] /\ NONE = 0
    BY Bounds DEF FeedInv, Typed, Wanting
  <2> HIDE DEF r
  <2>7. CASE r.pair = p
    <3>1. cached[p] # NONE /\ cached[p] >= wanted[p]
      BY <2>3, <2>6
    <3>2. m.pair = p /\ m.candles # {} /\ MaxOf(m.candles) >= wanted[p]
      BY <2>2, <2>7, <3>1
    <3> QED BY <2>3, <2>4, <3>2
  <2>8. CASE r.pair # p
    BY <1>2, <2>3, <2>4, <2>5, <2>8
  <2> QED BY <2>7, <2>8
<1>7. CASE Connect
  BY <1>7 DEF Connect, FeedInv, Wanting
<1>8. CASE SendInitial
  <2>1. cons'.out = cons.out /\ down' = down /\ chan' = chan /\ wanted' = wanted
    BY <1>8 DEF SendInitial, FeedInv, Typed, Consumers
  <2>2. ToSet(up) \subseteq ToSet(up')
    <3>1. up' = Append(up, Initial[cons.sent + 1])
      BY <1>8 DEF SendInitial
    <3>2. up' \in Seq(Requests \cup {Subscribe}) /\ up \in Seq(Requests \cup {Subscribe})
      BY <1>8, SendInitialKeeps DEF FeedInv, Typed
    <3> HIDE DEF Asks
    <3>3. up \in Seq({up[i] : i \in DOMAIN up} \cup {Initial[cons.sent + 1]})
      BY <3>2
    <3> QED BY <3>1, <3>3, InAppend
  <2> QED BY <1>2, <2>1, <2>2
<1>9. CASE Listen
  <2>1. cons'.out = cons.out /\ down' = down /\ chan' = chan /\ wanted' = wanted /\ up' = up
    BY <1>9 DEF Listen, FeedInv, Typed, Consumers
  <2> QED BY <1>2, <2>1
<1>10. CASE SendRequest
  <2> DEFINE r == Head(cons.out)
  <2>1. /\ up \in Seq(Requests \cup {Subscribe}) /\ cons.out \in Seq(Requests) /\ cons.out # <<>>
        /\ r \in Requests /\ up' = Append(up, r) /\ cons'.out = Tail(cons.out)
    BY <1>10, SendRequestIs
  <2>2. chan' = chan /\ down' = down /\ wanted' = wanted
    BY <1>10 DEF SendRequest
  <2>3. \A x \in ToSet(cons.out) : x = r \/ x \in ToSet(cons'.out)
    BY <2>1, InTail
  <2>4. r \in ToSet(up') /\ ToSet(up) \subseteq ToSet(up')
    BY <2>1, InAppend
  <2>5. r.type = "analyzed_df"
    BY <2>1 DEF Requests
  <2> HIDE DEF r
  <2> QED BY <1>2, <2>2, <2>3, <2>4, <2>5
<1>11. CASE Handle
  <2> DEFINE m == Head(down)
  <2>1. down \in Seq(Frames) /\ down # <<>> /\ down' = Tail(down) /\ chan' = chan /\ up' = up
    BY <1>11 DEF FeedInv, Typed, Handle
  <2>2. \A x \in ToSet(down) : x = m \/ x \in ToSet(down')
    BY <2>1, InTail
  <2>3. CASE m.candles = {}
    <3>1. cons' = cons /\ wanted' = wanted
      BY <1>11, <2>3 DEF Handle
    <3> HIDE DEF m
    <3> QED BY <1>2, <2>1, <2>2, <2>3, <3>1
  <2>4. CASE m.candles # {}
    <3> DEFINE asks == AddExternal(frame[m.pair], m.candles).missing # NONE /\ cons.listening
    <3>1. /\ asks => \E n \in Requests : cons.out \in Seq(Requests) /\ cons'.out = Append(cons.out, n)
                                         /\ n.pairs = {m.pair}
          /\ ~asks => cons'.out = cons.out
          /\ \A q \in Pairs \ {m.pair} : wanted'[q] = wanted[q]
          /\ ~asks => wanted'[m.pair] = NONE \/ wanted'[m.pair] = wanted[m.pair]
          /\ (~asks /\ cons.listening /\ MaxOf(m.candles) >= wanted[m.pair]) => wanted'[m.pair] = NONE
      BY <1>11, <2>4, HandleIs, Zenon
    <3>2. ~cons.listening => wanted[p] = NONE
      BY DEF FeedInv, Wanting
    <3> HIDE DEF m, asks
    <3>3. CASE asks
      <4>1. PICK n \in Requests : cons.out \in Seq(Requests) /\ cons'.out = Append(cons.out, n) /\ n.pairs = {m.pair}
        BY <3>1, <3>3
      <4>2. n \in ToSet(cons'.out) /\ ToSet(cons.out) \subseteq ToSet(cons'.out)
        BY <4>1, InAppend
      <4>3. CASE m.pair = p
        BY <4>1, <4>2, <4>3
      <4>4. CASE m.pair # p
        <5>1. wanted'[p] = wanted[p]
          BY <3>1, <4>4
        <5> QED BY <1>2, <2>1, <2>2, <4>2, <4>4, <5>1
      <4> QED BY <4>3, <4>4
    <3>4. CASE ~asks
      <4>1. wanted'[p] = wanted[p]
        BY <3>1, <3>4
      <4>2. CASE m.pair = p
        <5>1. cons.listening /\ ~(MaxOf(m.candles) >= wanted[p])
          BY <3>1, <3>2, <3>4, <4>1, <4>2
        <5> QED BY <1>2, <2>1, <2>2, <3>1, <3>4, <4>1, <5>1
      <4>3. CASE m.pair # p
        BY <1>2, <2>1, <2>2, <3>1, <3>4, <4>1, <4>3
      <4> QED BY <4>2, <4>3
    <3> QED BY <3>3, <3>4
  <2> QED BY <2>3, <2>4
<1>12. CASE Disconnect \/ RestartProducer \/ RestartConsumer
  BY <1>12, DropsIs DEF Disconnect, RestartProducer, RestartConsumer
<1>13. CASE \/ Candle \/ \E q \in Pairs : Analyze(q)
            \/ \E t \in Publishers : SendOther(t) \/ Publish(t)
            \/ UNCHANGED vars
  <2>1. cons' = cons /\ up' = up /\ chan' = chan /\ down' = down /\ wanted' = wanted
    BY <1>13, Zenon DEF Candle, Analyze, SendOther, Publish, Take, Store, SetResult, vars
  <2> QED BY <1>3, <2>1
<1> QED BY <1>4, <1>5, <1>6, <1>7, <1>8, <1>9, <1>10, <1>11, <1>12, <1>13 DEF Next

\* A hole that the consumer has seen stays asked for until it is filled
\* (external_message_consumer.py, _consume_analyzed_df_message).
THEOREM HolesStayAskedFor == Spec => []HolesAskedFor
  BY FeedTyped, AskedInit, AskedStep, PTL DEF Spec

(* The order of the futures *)

\* A publisher other than the worker has no candles to send, and the worker those
\* of its last analysis.
Own(t, msgs, newest) ==
  \A i \in DOMAIN msgs : \/ msgs[i] = Other
                         \/ t = "worker" /\ i = 1 /\ \E p \in Pairs : msgs[i] = Df(p, {newest[p]})
Sending == \A t \in Publishers : Own(t, pub[t].msgs, cached)

\* The worker has a candle of the pair to send.
Unsent(p) == pub["worker"].at # "idle" /\ Head(pub["worker"].msgs) = Df(p, {cached[p]})
Carries(f, p, c) == stream.futures[f].msg = Df(p, {c})

\* The rank of a future is its place in the order in which they became the waiter; those
\* that have not are of rank 0.
RankOfWaiter(rank) ==
  /\ \A f \in Nat : f \notin DOMAIN stream.futures => rank[f] = 0
  /\ rank[stream.waiter] > 0 /\ \A f \in Nat \ {stream.waiter} : rank[f] < rank[stream.waiter]
RankOfPublishers(rank) ==
  \A t \in Publishers :
    /\ pub[t].at \in {"store", "set"} => rank[pub[t].old] > 0
    /\ pub[t].at = "store" => /\ rank[pub[t].new] = 0 /\ stream.futures[pub[t].new] = Pending
                              /\ \A u \in Publishers \ {t} : pub[u].at = "store" => pub[u].new # pub[t].new
    /\ pub[t].at = "set" => pub[t].old # stream.waiter

\* A message leads to a future that became the waiter later, and of two candles of a
\* pair the later one is further on.
RankOfMessages(rank) ==
  /\ \A f \in DOMAIN stream.futures : stream.futures[f] # Pending =>
       rank[f] > 0 /\ rank[f] < rank[stream.futures[f].next]
  /\ \A f, g \in DOMAIN stream.futures : \A p \in Pairs : \A c, d \in Nat :
       Carries(f, p, c) /\ Carries(g, p, d) /\ rank[f] < rank[g] => c < d

\* A candle that is not sent yet is newer than any that was, and goes further on.
RankOfWorker(rank) ==
  \A p \in Pairs : Unsent(p) =>
    /\ chan.last[p] < cached[p]
    /\ \A f \in DOMAIN stream.futures : \A c \in Nat : Carries(f, p, c) =>
         c < cached[p] /\ (pub["worker"].at # "send" => rank[f] < rank[pub["worker"].old])

\* A channel has yet to see only candles that are newer than those it has seen.
RankOfChannel(rank) ==
  /\ \A p \in Pairs : chan.last[p] <= cached[p]
  /\ chan.open => /\ rank[chan.at] > 0
                  /\ \A f \in DOMAIN stream.futures : \A p \in Pairs : \A c \in Nat :
                       Carries(f, p, c) /\ rank[chan.at] <= rank[f] => chan.last[p] < c

Ranked(rank) == /\ RankOfWaiter(rank) /\ RankOfPublishers(rank) /\ RankOfMessages(rank)
                /\ RankOfWorker(rank) /\ RankOfChannel(rank)

OrderInv == FeedInv /\ Sending /\ \E rank \in [Nat -> Nat] : Ranked(rank)

LEMMA CarriesIs ==
  ASSUME FeedInv, NEW f \in DOMAIN stream.futures, NEW p \in Pairs, NEW c \in Nat, Carries(f, p, c)
  PROVE  stream.futures[f] # Pending /\ 1 <= c /\ c <= cached[p]
<1>1. stream.futures[f].msg.type = "analyzed_df" /\ stream.futures[f].msg.pair = p
      /\ stream.futures[f].msg.candles = {c}
  BY SignalIs DEF Carries
<1>2. stream.futures[f] # Pending
  BY <1>1 DEF Pending
<1>3. {c} \subseteq 1..cached[p]
  BY <1>1 DEF FeedInv, Analysed
<1>4. cached[p] \in Nat
  BY DEF FeedInv, Typed
<1> QED BY <1>2, <1>3, <1>4

LEMMA PlacesAre ==
  ASSUME FeedInv
  PROVE  stream.waiter \in DOMAIN stream.futures /\ DOMAIN stream.futures \subseteq Nat /\ stream.waiter \in Nat
<1>1. stream.waiter \in DOMAIN stream.futures
  BY DEF FeedInv, Places
<1>2. stream.futures \in Seq(Futures)
  BY DEF FeedInv, Typed
<1>3. DOMAIN stream.futures = 1..Len(stream.futures) /\ Len(stream.futures) \in Nat
  BY <1>2
<1> QED BY <1>1, <1>3

LEMMA OrderInit == Init => OrderInv
<1> SUFFICES ASSUME Init PROVE OrderInv
  OBVIOUS
<1>1. FeedInv
  BY FeedInit
<1>2. /\ stream.waiter = 1 /\ DOMAIN stream.futures = {1} /\ stream.futures[1] = Pending
      /\ \A t \in Publishers : pub[t].at = "idle" /\ pub[t].msgs = <<>>
  BY AnewIs DEF Init
<1> DEFINE rank == [f \in Nat |-> IF f = 1 THEN 1 ELSE 0]
<1>3. rank \in [Nat -> Nat] /\ rank[1] = 1 /\ \A f \in Nat \ {1} : rank[f] = 0
  OBVIOUS
<1> HIDE DEF rank
<1>4. Sending
  BY <1>2 DEF Sending, Own
<1>5. RankOfWaiter(rank)
  BY <1>2, <1>3 DEF RankOfWaiter
<1>6. RankOfPublishers(rank)
  BY <1>2 DEF RankOfPublishers
<1>7. \A p \in Pairs : \A c \in Nat : \A f \in DOMAIN stream.futures : ~Carries(f, p, c)
  BY <1>1, <1>2, CarriesIs
<1>8. RankOfMessages(rank)
  BY <1>2, <1>7 DEF RankOfMessages
<1>9. RankOfWorker(rank)
  BY <1>2, Bounds DEF RankOfWorker, Unsent
<1>10. RankOfChannel(rank)
  BY Bounds DEF Init, RankOfChannel, Closed
<1> QED BY <1>1, <1>3, <1>4, <1>5, <1>6, <1>8, <1>9, <1>10 DEF OrderInv, Ranked

\* Where neither the stream, the publishers nor the channel's place change.
LEMMA SameRanks ==
  ASSUME NEW rank \in [Nat -> Nat], Ranked(rank), Sending,
         stream' = stream, pub' = pub, cached' = cached,
         chan'.open = chan.open, chan'.at = chan.at, chan'.last = chan.last
  PROVE  Ranked(rank)' /\ Sending'
<1>1. RankOfWaiter(rank)' /\ RankOfPublishers(rank)'
  BY DEF Ranked, RankOfWaiter, RankOfPublishers
<1>2. RankOfMessages(rank)'
  BY DEF Ranked, RankOfMessages, Carries
<1>3. RankOfWorker(rank)'
  BY DEF Ranked, RankOfWorker, Carries, Unsent
<1>4. RankOfChannel(rank)'
  BY DEF Ranked, RankOfChannel, Carries
<1>5. Sending'
  BY DEF Sending
<1> QED BY <1>1, <1>2, <1>3, <1>4, <1>5 DEF Ranked

LEMMA AnalyzeRanked ==
  ASSUME FeedInv, Sending, NEW rank \in [Nat -> Nat], Ranked(rank), NEW p \in Pairs, Analyze(p)
  PROVE  Ranked(rank)' /\ Sending'
<1> DEFINE msgs == <<Df(p, {market}), Other>>
<1>1. /\ market \in Nat /\ cached \in [Pairs -> Nat] /\ cached' = [cached EXCEPT ![p] = market] /\ cached[p] < market
      /\ pub \in [Publishers -> Senders] /\ "worker" \in Publishers
  BY Bounds DEF FeedInv, Typed, Analyze
<1>2. msgs \in Seq(Signals \cup {Other}) /\ msgs # <<>> /\ DOMAIN msgs = {1, 2}
      /\ msgs[1] = Df(p, {market}) /\ msgs[2] = Other /\ Head(msgs) = Df(p, {market})
  BY <1>1, SignalIs
<1>3. Sends("worker", msgs)
  BY DEF Analyze
<1> HIDE DEF msgs
<1>4. /\ pub'["worker"].at = "send" /\ pub'["worker"].msgs = msgs
      /\ \A u \in Publishers \ {"worker"} : pub'[u] = pub[u]
  BY <1>1, <1>2, <1>3, SendIs
<1>5. cached'[p] = market /\ \A q \in Pairs : cached[q] <= cached'[q]
  BY <1>1
<1>6. stream' = stream /\ chan' = chan
  BY DEF Analyze
<1>7. Sending'
  <2>1. ASSUME NEW t \in Publishers PROVE Own(t, pub'[t].msgs, cached')
    <3>1. CASE t = "worker"
      <4>1. Own("worker", msgs, cached')
        BY <1>2, <1>5 DEF Own
      <4> QED BY <1>4, <3>1, <4>1
    <3>2. CASE t # "worker"
      BY <1>4, <3>2 DEF Sending, Own
    <3> QED BY <3>1, <3>2
  <2> QED BY <2>1 DEF Sending
<1>8. RankOfWaiter(rank)' /\ RankOfMessages(rank)'
  <2>1. stream' = stream
    BY <1>6
  <2>2. RankOfWaiter(rank)'
    BY <2>1 DEF Ranked, RankOfWaiter
  <2>3. RankOfMessages(rank)'
    BY <2>1 DEF Ranked, RankOfMessages, Carries
  <2> QED BY <2>2, <2>3
<1>9. RankOfPublishers(rank)'
  <2>1. \A t \in Publishers : pub'[t] = pub[t] \/ pub'[t].at = "send"
    BY <1>4
  <2> QED BY <1>6, <2>1 DEF Ranked, RankOfPublishers
<1>10. RankOfWorker(rank)'
  <2> SUFFICES ASSUME NEW q \in Pairs, Unsent(q)'
               PROVE  /\ chan.last[q] < cached'[q]
                      /\ \A f \in DOMAIN stream.futures : \A c \in Nat : Carries(f, q, c) => c < cached'[q]
    BY <1>4, <1>6 DEF RankOfWorker, Carries
  <2>1. q = p
    <3>1. Df(p, {market}) = Df(q, {cached'[q]})
      BY <1>2, <1>4 DEF Unsent
    <3>2. Df(p, {market}).pair = p /\ Df(q, {cached'[q]}).pair = q
      BY SignalIs
    <3> QED BY <3>1, <3>2
  <2>2. chan.last[q] <= cached[q] /\ chan.last[q] \in Nat
    BY DEF Ranked, RankOfChannel, FeedInv, Typed, Channels
  <2>3. \A f \in DOMAIN stream.futures : \A c \in Nat : Carries(f, q, c) => c <= cached[q]
    BY CarriesIs
  <2>4. cached[q] \in Nat /\ cached[q] < cached'[q] /\ cached'[q] \in Nat
    BY <1>1, <1>5, <2>1
  <2> QED BY <2>2, <2>3, <2>4
<1>11. RankOfChannel(rank)'
  <2>1. \A q \in Pairs : chan.last[q] <= cached'[q]
    <3>1. \A q \in Pairs : chan.last[q] <= cached[q] /\ chan.last[q] \in Nat /\ cached[q] \in Nat /\ cached'[q] \in Nat
      BY <1>1 DEF Ranked, RankOfChannel, FeedInv, Typed, Channels
    <3> QED BY <1>5, <3>1
  <2> QED BY <1>6, <2>1 DEF Ranked, RankOfChannel, Carries
<1> QED BY <1>7, <1>8, <1>9, <1>10, <1>11 DEF Ranked

LEMMA SendOtherRanked ==
  ASSUME FeedInv, Sending, NEW rank \in [Nat -> Nat], Ranked(rank), NEW t \in Publishers, SendOther(t)
  PROVE  Ranked(rank)' /\ Sending'
<1>1. <<Other>> \in Seq(Signals \cup {Other}) /\ DOMAIN <<Other>> = {1} /\ <<Other>>[1] = Other
  OBVIOUS
<1>2. Sends(t, <<Other>>) /\ pub \in [Publishers -> Senders] /\ t # "worker" /\ "worker" \in Publishers
  BY Bounds DEF SendOther, FeedInv, Typed
<1>3. /\ pub'[t].at = "send" /\ pub'[t].msgs = <<Other>>
      /\ \A u \in Publishers \ {t} : pub'[u] = pub[u]
  BY <1>1, <1>2, SendIs
<1>4. stream' = stream /\ chan' = chan /\ cached' = cached /\ pub'["worker"] = pub["worker"]
  BY <1>2, <1>3 DEF SendOther
<1>5. Sending'
  <2>1. ASSUME NEW u \in Publishers PROVE Own(u, pub'[u].msgs, cached)
    <3>1. CASE u = t
      <4>1. Own(t, <<Other>>, cached)
        BY <1>1 DEF Own
      <4> QED BY <1>3, <3>1, <4>1
    <3>2. CASE u # t
      BY <1>3, <3>2 DEF Sending
    <3> QED BY <3>1, <3>2
  <2> QED BY <1>4, <2>1 DEF Sending
<1>6. RankOfWaiter(rank)' /\ RankOfMessages(rank)'
  <2>1. stream' = stream
    BY <1>4
  <2>2. RankOfWaiter(rank)'
    BY <2>1 DEF Ranked, RankOfWaiter
  <2>3. RankOfMessages(rank)'
    BY <2>1 DEF Ranked, RankOfMessages, Carries
  <2> QED BY <2>2, <2>3
<1>7. RankOfPublishers(rank)'
  <2>1. \A u \in Publishers : pub'[u] = pub[u] \/ pub'[u].at = "send"
    BY <1>3
  <2> QED BY <1>4, <2>1 DEF Ranked, RankOfPublishers
<1>8. RankOfWorker(rank)'
  BY <1>4 DEF Ranked, RankOfWorker, Carries, Unsent
<1>9. RankOfChannel(rank)'
  BY <1>4 DEF Ranked, RankOfChannel, Carries
<1> QED BY <1>5, <1>6, <1>7, <1>8, <1>9 DEF Ranked

LEMMA TakeRanked ==
  ASSUME FeedInv, Sending, NEW rank \in [Nat -> Nat], Ranked(rank), NEW t \in Publishers, Take(t)
  PROVE  Ranked(rank)' /\ Sending'
<1> DEFINE new == Len(stream.futures) + 1
<1>1. /\ new \in Nat /\ new \notin DOMAIN stream.futures
      /\ stream'.waiter = stream.waiter
      /\ DOMAIN stream'.futures = DOMAIN stream.futures \cup {new}
      /\ stream'.futures[new] = Pending
      /\ \A f \in DOMAIN stream.futures : f # new /\ stream'.futures[f] = stream.futures[f]
      /\ \A u \in Publishers \ {t} : pub'[u] = pub[u]
      /\ pub'[t].at = "store" /\ pub'[t].old = stream.waiter /\ pub'[t].new = new
      /\ pub'[t].msgs = pub[t].msgs /\ pub[t].at = "send"
  BY TakeIs, Zenon
<1> HIDE DEF new
<1>2. chan' = chan /\ cached' = cached
  BY DEF Take
<1>3. stream.waiter \in DOMAIN stream.futures /\ DOMAIN stream.futures \subseteq Nat /\ stream.waiter \in Nat
  BY PlacesAre
<1>4. RankOfWaiter(rank) /\ RankOfPublishers(rank) /\ RankOfMessages(rank) /\ RankOfWorker(rank) /\ RankOfChannel(rank)
  BY DEF Ranked
<1>5. rank[new] = 0
  BY <1>1, <1>4 DEF RankOfWaiter
<1>6. Sending'
  <2>1. \A u \in Publishers : pub'[u].msgs = pub[u].msgs
    BY <1>1
  <2> QED BY <1>2, <2>1 DEF Sending
<1>7. RankOfWaiter(rank)'
  <2>1. \A f \in Nat : f \notin DOMAIN stream'.futures => rank[f] = 0
    BY <1>1, <1>4 DEF RankOfWaiter
  <2> QED BY <1>1, <1>4, <2>1 DEF RankOfWaiter
<1>8. RankOfPublishers(rank)'
  <2> SUFFICES ASSUME NEW u \in Publishers
               PROVE  /\ pub'[u].at \in {"store", "set"} => rank[pub'[u].old] > 0
                      /\ pub'[u].at = "store" =>
                           /\ rank[pub'[u].new] = 0 /\ stream'.futures[pub'[u].new] = Pending
                           /\ \A v \in Publishers \ {u} : pub'[v].at = "store" => pub'[v].new # pub'[u].new
                      /\ pub'[u].at = "set" => pub'[u].old # stream'.waiter
    BY DEF RankOfPublishers
  <2>1. \A v \in Publishers : pub[v].at = "store" => pub[v].new \in DOMAIN stream.futures /\ pub[v].new # new
    BY <1>1 DEF FeedInv, Places
  <2>2. CASE u = t
    <3>1. rank[stream.waiter] > 0
      BY <1>4 DEF RankOfWaiter
    <3>2. \A v \in Publishers \ {u} : pub'[v].at = "store" => pub'[v].new # new
      BY <1>1, <2>1, <2>2
    <3> QED BY <1>1, <1>5, <2>2, <3>1, <3>2
  <2>3. CASE u # t
    <3>1. pub'[u] = pub[u]
      BY <1>1, <2>3
    <3>2. ASSUME pub[u].at = "store"
          PROVE  /\ stream'.futures[pub[u].new] = stream.futures[pub[u].new]
                 /\ \A v \in Publishers \ {u} : pub'[v].at = "store" => pub'[v].new # pub[u].new
      <4>1. pub[u].new \in DOMAIN stream.futures /\ pub[u].new # new
        BY <2>1, <3>2
      <4>2. \A v \in Publishers \ {u} : pub[v].at = "store" => pub[v].new # pub[u].new
        BY <1>4, <3>2 DEF RankOfPublishers
      <4> QED BY <1>1, <4>1, <4>2
    <3> QED BY <1>1, <1>4, <3>1, <3>2 DEF RankOfPublishers
  <2> QED BY <2>2, <2>3
<1>9. \A f \in DOMAIN stream'.futures : \A p \in Pairs : \A c \in Nat :
        Carries(f, p, c)' => f \in DOMAIN stream.futures /\ Carries(f, p, c)
  <2> SUFFICES ASSUME NEW f \in DOMAIN stream'.futures, NEW p \in Pairs, NEW c \in Nat, Carries(f, p, c)'
               PROVE  f \in DOMAIN stream.futures /\ Carries(f, p, c)
    OBVIOUS
  <2>1. stream'.futures[f].msg = Df(p, {c}) /\ Df(p, {c}).type = "analyzed_df"
    BY SignalIs DEF Carries
  <2>2. Pending.msg.type # "analyzed_df"
    BY DEF Pending
  <2>3. f # new
    BY <1>1, <2>1, <2>2
  <2> QED BY <1>1, <2>1, <2>3 DEF Carries
<1>10. RankOfMessages(rank)'
  <2>1. ASSUME NEW f \in DOMAIN stream'.futures, stream'.futures[f] # Pending
        PROVE  rank[f] > 0 /\ rank[f] < rank[stream'.futures[f].next]
    BY <1>1, <1>4, <2>1 DEF RankOfMessages
  <2>2. ASSUME NEW f \in DOMAIN stream'.futures, NEW g \in DOMAIN stream'.futures, NEW p \in Pairs,
               NEW c \in Nat, NEW d \in Nat, Carries(f, p, c)', Carries(g, p, d)', rank[f] < rank[g]
        PROVE  c < d
    <3>1. f \in DOMAIN stream.futures /\ g \in DOMAIN stream.futures /\ Carries(f, p, c) /\ Carries(g, p, d)
      BY <1>9, <2>2
    <3> QED BY <1>4, <2>2, <3>1, Zenon DEF RankOfMessages
  <2> QED BY <2>1, <2>2 DEF RankOfMessages
<1>11. RankOfWorker(rank)'
  <2> SUFFICES ASSUME NEW p \in Pairs, Unsent(p)'
               PROVE  /\ chan.last[p] < cached[p]
                      /\ \A f \in DOMAIN stream'.futures : \A c \in Nat : Carries(f, p, c)' =>
                           c < cached[p] /\ (pub'["worker"].at # "send" => rank[f] < rank[pub'["worker"].old])
    BY <1>2 DEF RankOfWorker
  <2>1. Unsent(p)
    BY <1>1, <1>2, Bounds DEF Unsent
  <2>2. chan.last[p] < cached[p]
    BY <1>4, <2>1 DEF RankOfWorker
  <2>3. ASSUME NEW f \in DOMAIN stream'.futures, NEW c \in Nat, Carries(f, p, c)'
        PROVE  c < cached[p] /\ (pub'["worker"].at # "send" => rank[f] < rank[pub'["worker"].old])
    <3>1. f \in DOMAIN stream.futures /\ Carries(f, p, c)
      BY <1>9, <2>3
    <3>2. c < cached[p] /\ (pub["worker"].at # "send" => rank[f] < rank[pub["worker"].old])
      BY <1>4, <2>1, <3>1 DEF RankOfWorker
    <3>3. CASE t = "worker"
      <4>1. stream.futures[f] # Pending
        BY <3>1, CarriesIs
      <4>2. stream.futures[f].next \in DOMAIN stream.futures
        BY <3>1, <4>1 DEF FeedInv, Places
      <4>3. rank[f] < rank[stream.futures[f].next]
        BY <1>4, <3>1, <4>1 DEF RankOfMessages
      <4>4. f # stream.waiter => rank[f] < rank[stream.waiter]
        BY <1>3, <1>4, <3>1 DEF RankOfWaiter
      <4>5. f # stream.waiter
        <5>1. stream.futures[f].next = stream.waiter \/ rank[stream.futures[f].next] < rank[stream.waiter]
          BY <1>3, <1>4, <4>2 DEF RankOfWaiter
        <5>2. rank[f] \in Nat /\ rank[stream.waiter] \in Nat /\ rank[stream.futures[f].next] \in Nat
          BY <1>3, <3>1, <4>2
        <5> QED BY <4>3, <5>1, <5>2
      <4> QED BY <1>1, <3>2, <3>3, <4>4, <4>5
    <3>4. CASE t # "worker"
      BY <1>1, <3>2, <3>4, Bounds
    <3> QED BY <3>3, <3>4
  <2> QED BY <2>2, <2>3
<1>12. RankOfChannel(rank)'
  <2>1. ASSUME chan.open, NEW f \in DOMAIN stream'.futures, NEW p \in Pairs, NEW c \in Nat,
               Carries(f, p, c)', rank[chan.at] <= rank[f]
        PROVE  chan.last[p] < c
    <3>1. f \in DOMAIN stream.futures /\ Carries(f, p, c)
      BY <1>9, <2>1
    <3> QED BY <1>4, <2>1, <3>1, Zenon DEF RankOfChannel
  <2> QED BY <1>2, <1>4, <2>1 DEF RankOfChannel
<1> QED BY <1>6, <1>7, <1>8, <1>10, <1>11, <1>12 DEF Ranked

LEMMA StoreRanked ==
  ASSUME FeedInv, Sending, NEW rank \in [Nat -> Nat], Ranked(rank), NEW t \in Publishers, Store(t)
  PROVE  Sending' /\ \E k \in [Nat -> Nat] : Ranked(k)'
<1> DEFINE new == pub[t].new
<1>1. /\ pub[t].at = "store" /\ new \in DOMAIN stream.futures
      /\ stream'.waiter = new /\ stream'.futures = stream.futures
      /\ \A u \in Publishers \ {t} : pub'[u] = pub[u]
      /\ pub'[t].at = "set" /\ pub'[t].old = pub[t].old /\ pub'[t].new = new
      /\ \A u \in Publishers : pub'[u].msgs = pub[u].msgs /\ pub'[u].old = pub[u].old
  BY StoreIs
<1>2. chan' = chan /\ cached' = cached
  BY DEF Store
<1>3. stream.waiter \in DOMAIN stream.futures /\ DOMAIN stream.futures \subseteq Nat /\ stream.waiter \in Nat /\ new \in Nat
  BY <1>1, PlacesAre
<1>4. RankOfWaiter(rank) /\ RankOfPublishers(rank) /\ RankOfMessages(rank) /\ RankOfWorker(rank) /\ RankOfChannel(rank)
  BY DEF Ranked
<1>5. rank[new] = 0 /\ stream.futures[new] = Pending /\ rank[pub[t].old] > 0
      /\ \A u \in Publishers \ {t} : pub[u].at = "store" => pub[u].new # new
  BY <1>1, <1>4 DEF RankOfPublishers
<1>6. PICK k \in [Nat -> Nat] : k[new] = rank[stream.waiter] + 1 /\ \A f \in Nat \ {new} : k[f] = rank[f]
  <2> DEFINE h == [rank EXCEPT ![new] = rank[stream.waiter] + 1]
  <2>1. h \in [Nat -> Nat] /\ h[new] = rank[stream.waiter] + 1 /\ \A f \in Nat \ {new} : h[f] = rank[f]
    BY <1>3
  <2> QED BY <2>1
<1>7. rank[stream.waiter] \in Nat /\ rank[stream.waiter] > 0 /\ new # stream.waiter
      /\ \A f \in Nat : rank[f] \in Nat /\ rank[f] <= rank[stream.waiter]
  <2>1. rank[stream.waiter] > 0 /\ \A f \in Nat \ {stream.waiter} : rank[f] < rank[stream.waiter]
    BY <1>4 DEF RankOfWaiter
  <2> QED BY <1>3, <1>5, <2>1
<1> HIDE DEF new
<1>8. \A f \in Nat : rank[f] <= k[f] /\ (rank[f] > 0 => k[f] = rank[f])
  BY <1>3, <1>5, <1>6, <1>7
<1>9. Sending'
  BY <1>1, <1>2 DEF Sending
<1>10. RankOfWaiter(k)'
  <2>1. \A f \in Nat : f \notin DOMAIN stream.futures => k[f] = 0
    BY <1>1, <1>4, <1>6 DEF RankOfWaiter
  <2>2. \A f \in Nat \ {new} : k[f] < k[new]
    BY <1>6, <1>7
  <2>3. k[new] > 0
    BY <1>6, <1>7
  <2> QED BY <1>1, <2>1, <2>2, <2>3 DEF RankOfWaiter
<1>11. \A u \in Publishers : pub[u].at \in {"store", "set"} => pub[u].old \in Nat /\ k[pub[u].old] = rank[pub[u].old]
                               /\ rank[pub[u].old] > 0 /\ pub[u].old # new
  <2> SUFFICES ASSUME NEW u \in Publishers, pub[u].at \in {"store", "set"}
               PROVE  pub[u].old \in Nat /\ k[pub[u].old] = rank[pub[u].old]
                      /\ rank[pub[u].old] > 0 /\ pub[u].old # new
    OBVIOUS
  <2>1. pub[u].old \in DOMAIN stream.futures
    BY DEF FeedInv, Places
  <2>2. rank[pub[u].old] > 0
    BY <1>4 DEF RankOfPublishers
  <2> QED BY <1>3, <1>5, <1>8, <2>1, <2>2
<1>12. RankOfPublishers(k)'
  <2> SUFFICES ASSUME NEW u \in Publishers
               PROVE  /\ pub'[u].at \in {"store", "set"} => k[pub'[u].old] > 0
                      /\ pub'[u].at = "store" =>
                           /\ k[pub'[u].new] = 0 /\ stream'.futures[pub'[u].new] = Pending
                           /\ \A v \in Publishers \ {u} : pub'[v].at = "store" => pub'[v].new # pub'[u].new
                      /\ pub'[u].at = "set" => pub'[u].old # stream'.waiter
    BY DEF RankOfPublishers
  <2>1. CASE u = t
    BY <1>1, <1>5, <1>11, <2>1
  <2>2. CASE u # t
    <3>1. pub'[u] = pub[u]
      BY <1>1, <2>2
    <3>2. ASSUME pub[u].at = "store"
          PROVE  /\ k[pub[u].new] = 0 /\ stream.futures[pub[u].new] = Pending
                 /\ \A v \in Publishers \ {u} : pub'[v].at = "store" => pub'[v].new # pub[u].new
      <4>1. rank[pub[u].new] = 0 /\ stream.futures[pub[u].new] = Pending
            /\ \A v \in Publishers \ {u} : pub[v].at = "store" => pub[v].new # pub[u].new
        BY <1>4, <3>2 DEF RankOfPublishers
      <4>2. pub[u].new # new /\ pub[u].new \in Nat
        BY <1>3, <1>5, <2>2, <3>2 DEF FeedInv, Places
      <4>3. \A v \in Publishers \ {u} : pub'[v].at = "store" => v # t /\ pub'[v] = pub[v]
        BY <1>1
      <4> QED BY <1>6, <4>1, <4>2, <4>3
    <3> QED BY <1>1, <1>11, <3>1, <3>2
  <2> QED BY <2>1, <2>2
<1>13. \A f \in DOMAIN stream.futures : stream.futures[f] # Pending =>
         f \in Nat /\ f # new /\ k[f] = rank[f] /\ rank[f] > 0
  BY <1>3, <1>4, <1>5, <1>6 DEF RankOfMessages
<1>14. RankOfMessages(k)'
  <2>1. ASSUME NEW f \in DOMAIN stream.futures, stream.futures[f] # Pending
        PROVE  k[f] > 0 /\ k[f] < k[stream.futures[f].next]
    <3>1. rank[f] > 0 /\ rank[f] < rank[stream.futures[f].next]
      BY <1>4, <2>1 DEF RankOfMessages
    <3>2. stream.futures[f].next \in Nat
      BY <2>1, <1>3 DEF FeedInv, Places
    <3>3. rank[f] = k[f] /\ rank[f] \in Nat /\ rank[stream.futures[f].next] \in Nat
          /\ rank[stream.futures[f].next] <= k[stream.futures[f].next] /\ k[stream.futures[f].next] \in Nat
      BY <1>6, <1>7, <1>8, <1>13, <2>1, <3>2
    <3> QED BY <3>1, <3>3
  <2>2. ASSUME NEW f \in DOMAIN stream.futures, NEW g \in DOMAIN stream.futures, NEW p \in Pairs,
               NEW c \in Nat, NEW d \in Nat, Carries(f, p, c), Carries(g, p, d), k[f] < k[g]
        PROVE  c < d
    <3>1. stream.futures[f] # Pending /\ stream.futures[g] # Pending
      BY <2>2, CarriesIs
    <3>2. rank[f] < rank[g]
      BY <1>13, <2>2, <3>1
    <3> QED BY <1>4, <2>2, <3>2, Zenon DEF RankOfMessages
  <2>3. stream'.futures = stream.futures
    BY <1>1
  <2>4. \A f, p, c : Carries(f, p, c)' <=> Carries(f, p, c)
    BY <2>3 DEF Carries
  <2> QED BY <2>1, <2>2, <2>3, <2>4 DEF RankOfMessages
<1>15. RankOfWorker(k)'
  <2> SUFFICES ASSUME NEW p \in Pairs, Unsent(p)'
               PROVE  /\ chan.last[p] < cached[p]
                      /\ \A f \in DOMAIN stream.futures : \A c \in Nat : Carries(f, p, c) =>
                           c < cached[p] /\ (pub'["worker"].at # "send" => k[f] < k[pub'["worker"].old])
    BY <1>1, <1>2 DEF RankOfWorker, Carries
  <2>1. "worker" \in Publishers
    BY Bounds
  <2>2. (pub["worker"].at # "idle" /\ pub'["worker"].at # "send" => pub["worker"].at \in {"store", "set"})
        /\ pub["worker"].at # "idle"
    <3>1. pub["worker"].at \in {"idle", "send", "store", "set"}
      BY <2>1 DEF FeedInv, Typed, Senders
    <3>2. pub'["worker"] = pub["worker"] \/ t = "worker"
      BY <1>1, <2>1
    <3> QED BY <1>1, <3>1, <3>2 DEF Unsent
  <2>3. Unsent(p)
    BY <1>1, <1>2, <2>1, <2>2 DEF Unsent
  <2>4. ASSUME NEW f \in DOMAIN stream.futures, NEW c \in Nat, Carries(f, p, c)
        PROVE  c < cached[p] /\ (pub'["worker"].at # "send" => k[f] < k[pub'["worker"].old])
    <3>1. c < cached[p] /\ (pub["worker"].at # "send" => rank[f] < rank[pub["worker"].old])
      BY <1>4, <2>3, <2>4 DEF RankOfWorker
    <3>2. k[f] = rank[f]
      BY <1>13, <2>4, CarriesIs
    <3>3. pub'["worker"].old = pub["worker"].old
      BY <1>1, <2>1
    <3>4. pub'["worker"].at # "send" => k[pub["worker"].old] = rank[pub["worker"].old] /\ pub["worker"].at # "send"
      BY <1>11, <2>1, <2>2
    <3> QED BY <3>1, <3>2, <3>3, <3>4
  <2> QED BY <1>4, <2>3, <2>4 DEF RankOfWorker
<1>16. RankOfChannel(k)'
  <2>1. ASSUME chan.open PROVE k[chan.at] > 0 /\ k[chan.at] = rank[chan.at]
    <3>1. chan.at \in Nat
      BY DEF FeedInv, Typed, Channels
    <3>2. rank[chan.at] > 0
      BY <1>4, <2>1 DEF RankOfChannel
    <3> QED BY <1>8, <3>1, <3>2
  <2>2. ASSUME chan.open, NEW f \in DOMAIN stream.futures, NEW p \in Pairs, NEW c \in Nat,
               Carries(f, p, c), k[chan.at] <= k[f]
        PROVE  chan.last[p] < c
    <3>1. stream.futures[f] # Pending
      BY <2>2, CarriesIs
    <3>2. rank[chan.at] <= rank[f]
      BY <1>13, <2>1, <2>2, <3>1
    <3> QED BY <1>4, <2>2, <3>2, Zenon DEF RankOfChannel
  <2> QED BY <1>1, <1>2, <1>4, <2>1, <2>2 DEF RankOfChannel, Carries
<1> QED BY <1>6, <1>9, <1>10, <1>12, <1>14, <1>15, <1>16 DEF Ranked

LEMMA SetResultRanked ==
  ASSUME FeedInv, Sending, NEW rank \in [Nat -> Nat], Ranked(rank), NEW t \in Publishers, SetResult(t)
  PROVE  Ranked(rank)' /\ Sending'
<1> DEFINE old == pub[t].old
           msgs == pub[t].msgs
           set == [msg |-> Head(msgs), next |-> stream.waiter]
<1>1. /\ pub[t].at = "set" /\ old \in DOMAIN stream.futures /\ msgs # <<>>
      /\ stream'.waiter = stream.waiter /\ DOMAIN stream'.futures = DOMAIN stream.futures
      /\ \A f \in DOMAIN stream.futures : f # old => stream'.futures[f] = stream.futures[f]
      /\ stream'.futures[old] = stream.futures[old] \/ stream'.futures[old] = set
      /\ \A u \in Publishers \ {t} : pub'[u] = pub[u]
      /\ \/ pub'[t] = Idle
         \/ pub'[t].at = "send" /\ pub'[t].msgs = Tail(msgs) /\ Tail(msgs) # <<>>
  BY SetIs, Zenon
<1>2. set.msg = Head(msgs) /\ set.next = stream.waiter
  OBVIOUS
<1>3. msgs \in Seq(Signals \cup {Other})
  BY DEF FeedInv, Typed, Senders
<1>4. chan' = chan /\ cached' = cached
  BY DEF SetResult
<1>5. RankOfWaiter(rank) /\ RankOfPublishers(rank) /\ RankOfMessages(rank) /\ RankOfWorker(rank) /\ RankOfChannel(rank)
  BY DEF Ranked
<1>6. stream.waiter \in DOMAIN stream.futures /\ DOMAIN stream.futures \subseteq Nat /\ stream.waiter \in Nat
  BY PlacesAre
<1>7. rank[old] > 0 /\ old # stream.waiter
  BY <1>1, <1>5 DEF RankOfPublishers
<1>8. Own(t, msgs, cached)
  BY DEF Sending
<1> HIDE DEF old, set
<1>9. /\ 1 \in DOMAIN msgs /\ Head(msgs) = msgs[1] /\ Tail(msgs) \in Seq(Signals \cup {Other})
      /\ \A i \in DOMAIN Tail(msgs) : i \in Nat /\ i + 1 \in DOMAIN msgs /\ Tail(msgs)[i] = msgs[i + 1] /\ i + 1 # 1
  <2> HIDE DEF msgs
  <2>1. /\ 1 \in DOMAIN msgs /\ Head(msgs) = msgs[1] /\ Tail(msgs) \in Seq(Signals \cup {Other})
        /\ \A i \in DOMAIN Tail(msgs) : i + 1 \in DOMAIN msgs /\ Tail(msgs)[i] = msgs[i + 1]
    BY <1>1, <1>3, InTail
  <2>2. \A i \in DOMAIN Tail(msgs) : i \in Nat /\ i + 1 # 1
    <3>1. DOMAIN Tail(msgs) = 1..Len(Tail(msgs))
      BY <2>1
    <3> QED BY SMTT(20), <3>1
  <2> QED BY <2>1, <2>2
<1> HIDE DEF msgs
<1>10. \A i \in DOMAIN Tail(msgs) : Tail(msgs)[i] = Other
  BY <1>8, <1>9 DEF Own
<1>11. Sending'
  <2>1. ASSUME NEW u \in Publishers PROVE Own(u, pub'[u].msgs, cached)
    <3>1. CASE u # t
      BY <1>1, <3>1 DEF Sending
    <3>2. CASE u = t /\ pub'[t] = Idle
      <4>1. pub'[u].msgs = <<>>
        BY <3>2 DEF Idle
      <4> QED BY <4>1 DEF Own
    <3>3. CASE u = t /\ pub'[t].msgs = Tail(msgs)
      <4>1. Own(u, Tail(msgs), cached)
        BY <1>10 DEF Own
      <4> QED BY <3>3, <4>1
    <3> QED BY <1>1, <3>1, <3>2, <3>3
  <2> QED BY <1>4, <2>1 DEF Sending
<1>12. RankOfWaiter(rank)'
  BY <1>1, <1>5 DEF RankOfWaiter
<1>13. RankOfPublishers(rank)'
  <2> SUFFICES ASSUME NEW u \in Publishers
               PROVE  /\ pub'[u].at \in {"store", "set"} => rank[pub'[u].old] > 0
                      /\ pub'[u].at = "store" =>
                           /\ rank[pub'[u].new] = 0 /\ stream'.futures[pub'[u].new] = Pending
                           /\ \A v \in Publishers \ {u} : pub'[v].at = "store" => pub'[v].new # pub'[u].new
                      /\ pub'[u].at = "set" => pub'[u].old # stream'.waiter
    BY DEF RankOfPublishers
  <2>1. pub'[t].at # "store" /\ pub'[t].at # "set"
    <3>1. Idle.at = "idle"
      BY DEF Idle
    <3>2. pub'[t].at = "idle" \/ pub'[t].at = "send"
      BY <1>1, <3>1
    <3> QED BY <3>2
  <2>2. CASE u # t
    <3>1. pub'[u] = pub[u]
      BY <1>1, <2>2
    <3>2. ASSUME pub[u].at = "store"
          PROVE  /\ rank[pub[u].new] = 0 /\ stream'.futures[pub[u].new] = Pending
                 /\ \A v \in Publishers \ {u} : pub'[v].at = "store" => pub'[v].new # pub[u].new
      <4>1. rank[pub[u].new] = 0 /\ stream.futures[pub[u].new] = Pending
            /\ \A v \in Publishers \ {u} : pub[v].at = "store" => pub[v].new # pub[u].new
        BY <1>5, <3>2 DEF RankOfPublishers
      <4>2. pub[u].new \in DOMAIN stream.futures
        BY <3>2 DEF FeedInv, Places
      <4>3. pub[u].new # old
        BY <1>7, <4>1
      <4>4. \A v \in Publishers \ {u} : pub'[v].at = "store" => pub'[v] = pub[v]
        BY <1>1, <2>1
      <4> QED BY <1>1, <4>1, <4>2, <4>3, <4>4
    <3> QED BY <1>1, <1>5, <3>1, <3>2 DEF RankOfPublishers
  <2> QED BY <2>1, <2>2
<1>14. ASSUME NEW f \in DOMAIN stream.futures, NEW p \in Pairs, NEW c \in Nat, Carries(f, p, c)'
       PROVE  \/ Carries(f, p, c)
              \/ f = old /\ t = "worker" /\ Unsent(p) /\ c = cached[p]
  <2>1. CASE stream'.futures[f] = stream.futures[f]
    BY <1>14, <2>1 DEF Carries
  <2>2. CASE f = old /\ stream'.futures[old] = set
    <3>1. Head(msgs) = Df(p, {c})
      BY <1>2, <1>14, <2>2 DEF Carries
    <3>2. Df(p, {c}).type = "analyzed_df" /\ Df(p, {c}).pair = p /\ Df(p, {c}).candles = {c} /\ Other.type # "analyzed_df"
      BY SignalIs DEF Other
    <3>3. Head(msgs) # Other
      BY <3>1, <3>2
    <3>4. PICK q \in Pairs : t = "worker" /\ Head(msgs) = Df(q, {cached[q]})
      BY <1>8, <1>9, <3>3 DEF Own
    <3>5. Df(q, {cached[q]}).pair = q /\ Df(q, {cached[q]}).candles = {cached[q]}
      BY SignalIs
    <3>6. q = p /\ c = cached[p]
      BY <3>1, <3>2, <3>4, <3>5
    <3>7. Unsent(p)
      BY <1>1, <3>4, <3>6 DEF Unsent, msgs
    <3> QED BY <2>2, <3>4, <3>6, <3>7
  <2> QED BY <1>1, <2>1, <2>2
<1>15. RankOfMessages(rank)'
  <2>1. ASSUME NEW f \in DOMAIN stream.futures, stream'.futures[f] # Pending
        PROVE  rank[f] > 0 /\ rank[f] < rank[stream'.futures[f].next]
    <3>1. CASE stream'.futures[f] = stream.futures[f]
      BY <1>5, <2>1, <3>1 DEF RankOfMessages
    <3>2. CASE f = old /\ stream'.futures[old] = set
      <4>1. rank[old] < rank[stream.waiter]
        BY <1>1, <1>5, <1>6, <1>7 DEF RankOfWaiter
      <4> QED BY <1>2, <1>7, <3>2, <4>1
    <3> QED BY <1>1, <3>1, <3>2
  <2>2. ASSUME NEW f \in DOMAIN stream.futures, NEW g \in DOMAIN stream.futures, NEW p \in Pairs,
               NEW c \in Nat, NEW d \in Nat, Carries(f, p, c)', Carries(g, p, d)', rank[f] < rank[g]
        PROVE  c < d
    <3>1. rank[f] \in Nat /\ rank[g] \in Nat
      BY <1>6
    <3>2. CASE Carries(f, p, c) /\ Carries(g, p, d)
      BY <1>5, <2>2, <3>2, Zenon DEF RankOfMessages
    <3>3. CASE Carries(f, p, c) /\ g = old /\ t = "worker" /\ Unsent(p) /\ d = cached[p]
      BY <1>5, <3>3 DEF RankOfWorker
    <3>4. CASE f = old /\ t = "worker" /\ Unsent(p) /\ Carries(g, p, d)
      <4>1. rank[g] < rank[old]
        BY <1>1, <1>5, <3>4 DEF RankOfWorker, old
      <4> QED BY <2>2, <3>1, <3>4, <4>1
    <3>5. CASE f = old /\ g = old
      BY <2>2, <3>1, <3>5
    <3> QED BY <1>14, <2>2, <3>2, <3>3, <3>4, <3>5
  <2>3. DOMAIN stream'.futures = DOMAIN stream.futures
    BY <1>1
  <2> QED BY <2>1, <2>2, <2>3 DEF RankOfMessages
<1>16. RankOfWorker(rank)'
  <2> SUFFICES ASSUME NEW p \in Pairs, Unsent(p)'
               PROVE  /\ chan.last[p] < cached[p]
                      /\ \A f \in DOMAIN stream.futures : \A c \in Nat : Carries(f, p, c)' =>
                           c < cached[p] /\ (pub'["worker"].at # "send" => rank[f] < rank[pub'["worker"].old])
    BY <1>1, <1>4 DEF RankOfWorker
  <2>1. t # "worker"
    <3> SUFFICES ASSUME t = "worker" PROVE FALSE
      OBVIOUS
    <3>1. pub'[t].at # "idle" /\ Head(pub'[t].msgs) = Df(p, {cached[p]})
      BY <1>4 DEF Unsent
    <3>2. pub'[t].msgs = Tail(msgs) /\ Tail(msgs) # <<>>
      <4>1. Idle.at = "idle"
        BY DEF Idle
      <4>2. pub'[t] # Idle
        BY <3>1, <4>1
      <4> QED BY <1>1, <4>2
    <3>3. 1 \in DOMAIN Tail(msgs) /\ Head(Tail(msgs)) = Tail(msgs)[1]
      BY <1>9, <3>2, InTail
    <3>4. Df(p, {cached[p]}) = Other
      BY <1>10, <3>1, <3>2, <3>3
    <3> QED BY <3>4, SignalIs DEF Other
  <2>2. pub'["worker"] = pub["worker"]
    BY <1>1, <2>1, Bounds
  <2>3. Unsent(p)
    BY <1>4, <2>2 DEF Unsent
  <2>4. ASSUME NEW f \in DOMAIN stream.futures, NEW c \in Nat, Carries(f, p, c)'
        PROVE  c < cached[p] /\ (pub'["worker"].at # "send" => rank[f] < rank[pub'["worker"].old])
    <3>1. Carries(f, p, c)
      BY <1>14, <2>1, <2>4
    <3> QED BY <1>5, <2>2, <2>3, <3>1 DEF RankOfWorker
  <2> QED BY <1>5, <2>3, <2>4 DEF RankOfWorker
<1>17. RankOfChannel(rank)'
  <2>1. ASSUME chan.open, NEW f \in DOMAIN stream.futures, NEW p \in Pairs, NEW c \in Nat,
               Carries(f, p, c)', rank[chan.at] <= rank[f]
        PROVE  chan.last[p] < c
    <3>1. CASE Carries(f, p, c)
      BY <1>5, <2>1, <3>1, Zenon DEF RankOfChannel
    <3>2. CASE Unsent(p) /\ c = cached[p]
      BY <1>5, <3>2 DEF RankOfWorker
    <3> QED BY <1>14, <2>1, <3>1, <3>2
  <2> QED BY <1>1, <1>4, <1>5, <2>1 DEF RankOfChannel
<1> QED BY <1>11, <1>12, <1>13, <1>15, <1>16, <1>17 DEF Ranked

LEMMA BroadcastRanked ==
  ASSUME FeedInv, Sending, NEW rank \in [Nat -> Nat], Ranked(rank), Broadcast
  PROVE  Ranked(rank)' /\ Sending'
<1> DEFINE f == chan.at
           m == stream.futures[f].msg
           next == stream.futures[f].next
<1>1. /\ chan.open /\ f \in DOMAIN stream.futures /\ stream.futures[f] # Pending
      /\ chan'.open /\ chan'.at = next /\ next \in DOMAIN stream.futures
      /\ \/ m.type # "analyzed_df" /\ chan'.last = chan.last
         \/ m.type = "analyzed_df" /\ chan'.last = [chan.last EXCEPT ![m.pair] = MaxOf(m.candles)]
  BY BroadcastIs, Zenon
<1>2. m.type = "analyzed_df" => m.pair \in Pairs /\ \E c \in Nat : m = Df(m.pair, {c}) /\ m.candles = {c}
  BY <1>1, FutureIs
<1>3. chan \in Channels /\ chan.last \in [Pairs -> Nat] /\ cached \in [Pairs -> Nat]
  BY DEF FeedInv, Typed, Channels
<1>4. stream' = stream /\ pub' = pub /\ cached' = cached
  BY DEF Broadcast
<1>5. RankOfWaiter(rank) /\ RankOfPublishers(rank) /\ RankOfMessages(rank) /\ RankOfWorker(rank) /\ RankOfChannel(rank)
  BY DEF Ranked
<1>6. \A p \in Pairs : \/ chan'.last[p] = chan.last[p]
                       \/ \E c \in Nat : Carries(f, p, c) /\ chan'.last[p] = c
  <2> HIDE DEF f
  <2>1. CASE m.type # "analyzed_df"
    BY <1>1, <2>1
  <2>2. CASE m.type = "analyzed_df"
    <3>1. PICK c \in Nat : m = Df(m.pair, {c}) /\ m.candles = {c}
      BY <1>2, <2>2
    <3>2. Carries(f, m.pair, c)
      BY <3>1 DEF Carries
    <3> HIDE DEF m
    <3>3. MaxOf(m.candles) = c
      BY <3>1, MaxOfOne
    <3> QED BY <1>1, <1>2, <1>3, <2>2, <3>2, <3>3
  <2> QED BY <2>1, <2>2
<1> HIDE DEF m
<1>7. rank[f] \in Nat /\ rank[next] \in Nat /\ rank[f] > 0 /\ rank[f] < rank[next]
  <2>1. rank[f] > 0 /\ rank[f] < rank[next]
    BY <1>1, <1>5 DEF RankOfMessages
  <2> HIDE DEF next
  <2>2. f \in Nat /\ next \in Nat
    BY <1>1, PlacesAre
  <2> QED BY <2>1, <2>2
<1> HIDE DEF next
<1>8. RankOfWaiter(rank)' /\ RankOfPublishers(rank)'
  BY <1>4, <1>5 DEF RankOfWaiter, RankOfPublishers
<1>9. RankOfMessages(rank)'
  BY <1>4, <1>5 DEF RankOfMessages, Carries
<1>10. RankOfWorker(rank)'
  <2>1. ASSUME NEW p \in Pairs, Unsent(p) PROVE chan'.last[p] < cached[p]
    BY <1>1, <1>5, <1>6, <2>1 DEF RankOfWorker
  <2>2. \A p \in Pairs : Unsent(p)' <=> Unsent(p)
    BY <1>4 DEF Unsent
  <2> HIDE DEF f
  <2> QED BY <1>4, <1>5, <2>1, <2>2 DEF RankOfWorker, Carries
<1>11. RankOfChannel(rank)'
  <2>1. ASSUME NEW p \in Pairs PROVE chan'.last[p] <= cached[p]
    BY <1>1, <1>5, <1>6, CarriesIs DEF RankOfChannel
  <2>2. ASSUME NEW g \in DOMAIN stream.futures, NEW p \in Pairs, NEW c \in Nat,
               Carries(g, p, c), rank[next] <= rank[g]
        PROVE  chan'.last[p] < c
    <3>1. rank[g] \in Nat
      BY PlacesAre
    <3>2. rank[f] <= rank[g] /\ rank[f] < rank[g]
      BY <1>7, <2>2, <3>1
    <3>3. chan.last[p] < c
      BY <1>1, <1>5, <2>2, <3>2, Zenon DEF RankOfChannel
    <3>4. ASSUME NEW d \in Nat, Carries(f, p, d) PROVE d < c
      BY <1>1, <1>5, <2>2, <3>2, <3>4, Zenon DEF RankOfMessages
    <3> QED BY <1>6, <3>3, <3>4
  <2>3. rank[next] > 0
    BY <1>7
  <2>4. \A g, p, c : Carries(g, p, c)' <=> Carries(g, p, c)
    BY <1>4 DEF Carries
  <2> QED BY <1>1, <1>4, <2>1, <2>2, <2>3, <2>4 DEF RankOfChannel
<1>12. Sending'
  BY <1>4 DEF Sending
<1> QED BY <1>8, <1>9, <1>10, <1>11, <1>12 DEF Ranked

\* A channel that has seen nothing, and begins with the waiter if it is open.
LEMMA AnewRanked ==
  ASSUME FeedInv, Sending, NEW rank \in [Nat -> Nat], Ranked(rank),
         stream' = stream, pub' = pub, cached' = cached, \A p \in Pairs : chan'.last[p] = 0,
         chan'.open => chan'.at = stream.waiter
  PROVE  Ranked(rank)' /\ Sending'
<1>1. RankOfWaiter(rank)' /\ RankOfPublishers(rank)'
  BY DEF Ranked, RankOfWaiter, RankOfPublishers
<1>2. RankOfMessages(rank)'
  BY DEF Ranked, RankOfMessages, Carries
<1>3. RankOfWorker(rank)'
  <2>1. \A p \in Pairs : chan.last[p] \in Nat /\ cached[p] \in Nat
    BY DEF FeedInv, Typed, Channels
  <2>2. \A p \in Pairs : Unsent(p)' => Unsent(p) /\ 0 < cached[p]
    BY <2>1 DEF Ranked, RankOfWorker, Unsent
  <2>3. \A g, p, c : Carries(g, p, c)' <=> Carries(g, p, c)
    BY DEF Carries
  <2> QED BY <2>2, <2>3 DEF Ranked, RankOfWorker
<1>4. RankOfChannel(rank)'
  <2>1. \A p \in Pairs : chan'.last[p] <= cached[p]
    <3>1. \A p \in Pairs : cached[p] \in Nat
      BY DEF FeedInv, Typed
    <3> QED BY <3>1
  <2>2. rank[stream.waiter] > 0
    BY DEF Ranked, RankOfWaiter
  <2>3. \A g \in DOMAIN stream.futures : \A p \in Pairs : \A c \in Nat : Carries(g, p, c) => 0 < c
    BY CarriesIs
  <2>4. \A g, p, c : Carries(g, p, c)' <=> Carries(g, p, c)
    BY DEF Carries
  <2> QED BY <2>1, <2>2, <2>3, <2>4 DEF RankOfChannel
<1>5. Sending'
  BY DEF Sending
<1> QED BY <1>1, <1>2, <1>3, <1>4, <1>5 DEF Ranked

LEMMA RestartRanked ==
  ASSUME FeedInv, RestartProducer
  PROVE  Sending' /\ \E rank \in [Nat -> Nat] : Ranked(rank)'
<1>1. FeedInv'
  BY RestartProducerKeeps
<1>2. stream' = NewStream /\ pub' = [t \in Publishers |-> Idle] /\ cached' = [p \in Pairs |-> NONE] /\ chan' = Closed
  BY DEF RestartProducer, Drops
<1>3. /\ stream'.waiter = 1 /\ DOMAIN stream'.futures = {1} /\ stream'.futures[1] = Pending
      /\ \A t \in Publishers : pub'[t].at = "idle" /\ pub'[t].msgs = <<>>
  BY <1>2, AnewIs, Zenon
<1>4. PICK rank \in [Nat -> Nat] : rank[1] = 1 /\ \A f \in Nat \ {1} : rank[f] = 0
  <2> DEFINE h == [f \in Nat |-> IF f = 1 THEN 1 ELSE 0]
  <2>1. h \in [Nat -> Nat] /\ h[1] = 1 /\ \A f \in Nat \ {1} : h[f] = 0
    OBVIOUS
  <2> QED BY <2>1
<1>5. Sending'
  BY <1>3 DEF Sending, Own
<1>6. RankOfWaiter(rank)'
  BY <1>3, <1>4 DEF RankOfWaiter
<1>7. RankOfPublishers(rank)'
  BY <1>3 DEF RankOfPublishers
<1>8. \A p \in Pairs : \A c \in Nat : \A f \in DOMAIN stream'.futures : ~Carries(f, p, c)'
  <2> SUFFICES ASSUME NEW p \in Pairs, NEW c \in Nat, Carries(1, p, c)' PROVE FALSE
    BY <1>3
  <2>1. Pending.msg = Df(p, {c})
    BY <1>3 DEF Carries
  <2> QED BY <2>1, SignalIs DEF Pending
<1>9. RankOfMessages(rank)'
  BY <1>3, <1>8 DEF RankOfMessages
<1>10. RankOfWorker(rank)'
  BY <1>3, Bounds DEF RankOfWorker, Unsent
<1>11. RankOfChannel(rank)'
  BY <1>2, Bounds DEF RankOfChannel, Closed
<1> QED BY <1>5, <1>6, <1>7, <1>9, <1>10, <1>11 DEF Ranked

LEMMA OrderStep == OrderInv /\ [Next]_vars => OrderInv'
<1> SUFFICES ASSUME OrderInv, [Next]_vars PROVE OrderInv'
  OBVIOUS
<1>1. FeedInv /\ Sending /\ FeedInv'
  BY FeedStep DEF OrderInv
<1>2. PICK rank \in [Nat -> Nat] : Ranked(rank)
  BY DEF OrderInv
<1>3. SUFFICES Sending' /\ \E k \in [Nat -> Nat] : Ranked(k)'
  BY <1>1 DEF OrderInv
<1>4. CASE Candle \/ Read \/ Answer \/ SendInitial \/ Listen \/ SendRequest \/ Handle \/ UNCHANGED vars
  <2>1. stream' = stream /\ pub' = pub /\ cached' = cached
    BY <1>4 DEF Candle, Read, Answer, SendInitial, Listen, SendRequest, Handle, vars
  <2>2. chan'.open = chan.open /\ chan'.at = chan.at /\ chan'.last = chan.last
    <3>1. CASE Read
      BY <1>1, <3>1, ReadIs, Zenon
    <3>2. CASE Answer
      BY <1>1, <3>2, AnswerIs, Zenon
    <3>3. CASE Candle \/ SendInitial \/ Listen \/ SendRequest \/ Handle \/ UNCHANGED vars
      <4>1. chan' = chan
        BY <3>3 DEF Candle, SendInitial, Listen, SendRequest, Handle, vars
      <4> QED BY <4>1
    <3> QED BY <1>4, <3>1, <3>2, <3>3
  <2> QED BY <1>1, <1>2, <2>1, <2>2, SameRanks
<1>5. ASSUME NEW p \in Pairs, Analyze(p) PROVE Sending' /\ Ranked(rank)'
  BY <1>1, <1>2, <1>5, AnalyzeRanked
<1>6. ASSUME NEW t \in Publishers, SendOther(t) \/ Publish(t)
      PROVE  Sending' /\ \E k \in [Nat -> Nat] : Ranked(k)'
  <2>1. CASE SendOther(t)
    BY <1>1, <1>2, <2>1, SendOtherRanked
  <2>2. CASE Take(t)
    BY <1>1, <1>2, <2>2, TakeRanked
  <2>3. CASE Store(t)
    BY <1>1, <1>2, <2>3, StoreRanked
  <2>4. CASE SetResult(t)
    BY <1>1, <1>2, <2>4, SetResultRanked
  <2> QED BY <1>6, <2>1, <2>2, <2>3, <2>4 DEF Publish
<1>7. CASE Broadcast
  BY <1>1, <1>2, <1>7, BroadcastRanked
<1>8. CASE Connect \/ Disconnect \/ RestartConsumer
  <2>1. stream' = stream /\ pub' = pub /\ cached' = cached
    BY <1>8 DEF Connect, Disconnect, RestartConsumer
  <2>2. (\A p \in Pairs : chan'.last[p] = 0) /\ (chan'.open => chan'.at = stream.waiter)
    <3>1. CASE Connect
      BY <3>1 DEF Connect, Closed, NONE
    <3>2. CASE Disconnect \/ RestartConsumer
      <4>1. chan' = Closed
        BY <3>2 DEF Disconnect, RestartConsumer, Drops
      <4> QED BY <4>1 DEF Closed, NONE
    <3> QED BY <1>8, <3>1, <3>2
  <2> QED BY <1>1, <1>2, <2>1, <2>2, AnewRanked
<1>9. CASE RestartProducer
  BY <1>1, <1>9, RestartRanked
<1> QED BY <1>2, <1>4, <1>5, <1>6, <1>7, <1>8, <1>9 DEF Next

LEMMA OrderAlways == Spec => []OrderInv
  BY OrderInit, OrderStep, PTL DEF Spec

\* A channel gets the candles of a pair in the order of the worker's analyses, however
\* publishers interleave (message_stream.py, publish and __aiter__).
THEOREM CandlesInOrder == Spec => InOrder
<1> DEFINE m == stream.futures[chan.at].msg
           Step == Broadcast /\ m.type = "analyzed_df" => MaxOf(m.candles) > chan.last[m.pair]
<1>1. OrderInv => Step
  <2> SUFFICES ASSUME OrderInv, Broadcast, m.type = "analyzed_df"
               PROVE  MaxOf(m.candles) > chan.last[m.pair]
    OBVIOUS
  <2>1. FeedInv /\ chan.open /\ chan.at \in DOMAIN stream.futures
    BY BroadcastIs DEF OrderInv
  <2>2. PICK rank \in [Nat -> Nat] : Ranked(rank)
    BY DEF OrderInv
  <2>3. PICK c \in Nat : m.pair \in Pairs /\ m = Df(m.pair, {c}) /\ m.candles = {c}
    BY <2>1, FutureIs
  <2>4. Carries(chan.at, m.pair, c)
    BY <2>3 DEF Carries
  <2>5. rank[chan.at] \in Nat /\ rank[chan.at] <= rank[chan.at]
    BY <2>1, PlacesAre
  <2>6. chan.last[m.pair] < c
    BY <2>1, <2>2, <2>3, <2>4, <2>5, Zenon DEF Ranked, RankOfChannel
  <2> HIDE DEF m
  <2>7. MaxOf(m.candles) = c
    BY <2>3, MaxOfOne
  <2>8. chan.last[m.pair] \in Nat
    BY <2>1, <2>3 DEF FeedInv, Typed, Channels
  <2> QED BY <2>3, <2>6, <2>7, <2>8
<1>2. OrderInv => [Step]_vars
  BY <1>1
<1> QED BY <1>2, OrderAlways, PTL DEF InOrder
=============================================================================
