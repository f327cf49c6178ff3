------------------------- MODULE CandleCache_proofs -------------------------
(***************************************************************************)
(* OnlyFinished and OneWatcher, for every set of pairs and every time.     *)
(***************************************************************************)
EXTENDS CandleCache, SequenceTheorems, WellFoundedInduction, TLAPS
-----------------------------------------------------------------------------
(* A set of naturals has a least element, and a bounded one has a greatest. *)

Less == {ss \in Nat \X Nat : ss[1] < ss[2]}

LEMMA LessWellFounded == IsWellFoundedOn(Less, Nat)
  BY NatLessThanWellFounded, Zenon DEF OpToRel, Less

LEMMA LeastExists ==
  ASSUME NEW S \in SUBSET Nat, S # {}
  PROVE  \E x \in S : \A y \in S : x <= y
<1>1. PICK x \in S : \A y \in S : ~(<<y, x>> \in Less)
  BY LessWellFounded, WFMin
<1>2. ASSUME NEW y \in S
      PROVE  x <= y
  <2>1. ~(<<y, x>> \in Less) /\ x \in Nat /\ y \in Nat
    BY <1>1, <1>2
  <2>2. ASSUME NEW a \in Nat, NEW b \in Nat, ~(<<a, b>> \in Less)
        PROVE  b <= a
    BY <2>2 DEF Less
  <2> QED BY <2>1, <2>2
<1> QED BY <1>2

LEMMA GreatestExists ==
  ASSUME NEW n \in Nat, NEW S \in SUBSET (0..n), S # {}
  PROVE  \E x \in S : \A y \in S : y <= x
<1> DEFINE T == {n - x : x \in S}
<1>1. T \in SUBSET Nat /\ T # {}
  <2>1. \A x \in S : n - x \in Nat
    OBVIOUS
  <2> QED BY <2>1
<1>2. PICK m \in T : \A y \in T : m <= y
  BY <1>1, LeastExists
<1>3. PICK x \in S : m = n - x
  BY <1>2
<1>4. ASSUME NEW y \in S
      PROVE  y <= x
  <2>1. m <= n - y
    BY <1>2, <1>4
  <2> QED BY <1>3, <1>4, <2>1
<1> QED BY <1>3, <1>4
-----------------------------------------------------------------------------
(* The greatest and the least of some candles *)

LEMMA MaxIsGreatest ==
  ASSUME NEW n \in Nat, NEW S \in SUBSET (0..n), S # {}
  PROVE  MaxOf(S) \in S /\ \A y \in S : y <= MaxOf(S)
  BY GreatestExists DEF MaxOf

LEMMA MinIsLeast ==
  ASSUME NEW S \in SUBSET Nat, S # {}
  PROVE  MinOf(S) \in S /\ \A y \in S : MinOf(S) <= y
  BY LeastExists DEF MinOf
-----------------------------------------------------------------------------
(* Candles up to the n-th *)

States == {"final", "partial", "made up"}

UpTo(n) == UNION {[S -> States] : S \in SUBSET (1..n)}

LEMMA UpToDomain ==
  ASSUME NEW n, NEW f
  PROVE  f \in UpTo(n) <=> f \in [DOMAIN f -> States] /\ DOMAIN f \subseteq 1..n
  BY DEF UpTo

LEMMA NoCandlesUpTo ==
  ASSUME NEW n
  PROVE  NoCandles \in UpTo(n) /\ \A f \in UpTo(n) : f = NoCandles <=> DOMAIN f = {}
  BY DEF UpTo, NoCandles

LEMMA UpToLater ==
  ASSUME NEW m \in Int, NEW n \in Int, m <= n
  PROVE  UpTo(m) \subseteq UpTo(n)
<1>1. 1..m \subseteq 1..n
  OBVIOUS
<1> QED BY <1>1 DEF UpTo

LEMMA NewestUpTo ==
  ASSUME NEW n \in Nat, NEW f \in UpTo(n), f # NoCandles
  PROVE  Newest(f) \in DOMAIN f /\ Newest(f) \in 1..n /\ \A c \in DOMAIN f : c <= Newest(f)
<1>1. DOMAIN f \in SUBSET (0..n) /\ DOMAIN f # {} /\ DOMAIN f \subseteq 1..n
  BY NoCandlesUpTo, UpToDomain
<1>2. MaxOf(DOMAIN f) \in DOMAIN f /\ \A y \in DOMAIN f : y <= MaxOf(DOMAIN f)
  BY <1>1, MaxIsGreatest
<1> QED BY <1>1, <1>2 DEF Newest

LEMMA DropUpTo ==
  ASSUME NEW n \in Nat, NEW f \in UpTo(n), NEW gone
  PROVE  Drop(f, gone) \in UpTo(n) /\ DOMAIN Drop(f, gone) = DOMAIN f \ gone
<1>1. f \in [DOMAIN f -> States] /\ DOMAIN f \subseteq 1..n
  BY UpToDomain
<1>2. Drop(f, gone) \in [DOMAIN f \ gone -> States]
  BY <1>1 DEF Drop, Restrict
<1>3. DOMAIN Drop(f, gone) = DOMAIN f \ gone
  BY DEF Drop, Restrict
<1> QED BY <1>1, <1>2, <1>3 DEF UpTo

\* Without the newest one, the candles end before it.
LEMMA DropNewest ==
  ASSUME NEW n \in Nat, NEW f \in UpTo(n), f # NoCandles
  PROVE  Drop(f, {Newest(f)}) \in UpTo(n - 1)
<1>1. /\ Newest(f) \in 1..n /\ \A c \in DOMAIN f : c <= Newest(f)
      /\ Drop(f, {Newest(f)}) \in UpTo(n) /\ DOMAIN Drop(f, {Newest(f)}) = DOMAIN f \ {Newest(f)}
      /\ DOMAIN f \subseteq 1..n
  BY NewestUpTo, DropUpTo, UpToDomain
<1>2. DOMAIN f \ {Newest(f)} \subseteq 1..(n - 1)
  BY <1>1
<1>3. Drop(f, {Newest(f)}) \in [DOMAIN f \ {Newest(f)} -> States]
  BY <1>1, UpToDomain
<1> QED BY <1>2, <1>3 DEF UpTo

LEMMA TicksUpTo ==
  ASSUME NEW from \in Nat, NEW to \in Nat, 1 <= from, NEW last \in States
  PROVE  Ticks(from, to, last) \in UpTo(to)
<1>1. from..to \subseteq 1..to
  OBVIOUS
<1>2. Ticks(from, to, last) \in [from..to -> States]
  BY DEF Ticks, States
<1> QED BY <1>1, <1>2 DEF UpTo

LEMMA OverUpTo ==
  ASSUME NEW n \in Nat, NEW f \in UpTo(n), NEW g \in UpTo(n)
  PROVE  Over(f, g) \in UpTo(n)
<1>1. /\ f \in [DOMAIN f -> States] /\ g \in [DOMAIN g -> States]
      /\ DOMAIN f \cup DOMAIN g \subseteq 1..n
  BY UpToDomain
<1>2. Over(f, g) \in [DOMAIN f \cup DOMAIN g -> States]
  BY <1>1 DEF Over
<1> QED BY <1>1, <1>2 DEF UpTo

LEMMA MergeUpTo ==
  ASSUME NEW n \in Nat, NEW old \in UpTo(n), NEW new \in UpTo(n)
  PROVE  Merge(old, new) \in UpTo(n)
<1> DEFINE all == DOMAIN old \cup DOMAIN new
<1>1. all \subseteq 1..n /\ old \in [DOMAIN old -> States] /\ new \in [DOMAIN new -> States]
  BY UpToDomain
<1>2. CASE all = {}
  BY <1>2, NoCandlesUpTo DEF Merge
<1>3. CASE all # {}
  <2>1. all \in SUBSET Nat /\ all \in SUBSET (0..n)
    BY <1>1
  <2>2. MinOf(all) \in all /\ MaxOf(all) \in all
    BY <1>3, <2>1, MinIsLeast, MaxIsGreatest
  <2>3. MinOf(all)..MaxOf(all) \subseteq 1..n
    BY <1>1, <2>2
  <2>4. Merge(old, new) \in [MinOf(all)..MaxOf(all) -> States]
    BY <1>1, <1>3 DEF Merge, States
  <2> QED BY <2>3, <2>4 DEF UpTo
<1> QED BY <1>2, <1>3

LEMMA AgedUpTo ==
  ASSUME NEW n \in Nat, NEW f \in UpTo(n)
  PROVE  Aged(f) \in UpTo(n)
  BY DropUpTo DEF Aged

-----------------------------------------------------------------------------
(* OnlyFinished *)

Jobs(n) == UNION {[S -> [ws : BOOLEAN, candle : 0..n]] : S \in SUBSET Pairs}

LEMMA JobsDomain ==
  ASSUME NEW n, NEW f
  PROVE  f \in Jobs(n) <=> f \in [DOMAIN f -> [ws : BOOLEAN, candle : 0..n]] /\ DOMAIN f \subseteq Pairs
  BY DEF Jobs

\* What every step keeps: nothing is from the future, the cache ends before the current
\* candle, and so did the newest candle of every job's time.
Past ==
  /\ now \in Nat /\ now >= Start
  /\ klines \in [Pairs -> UpTo(Current - 1)]
  /\ ccxt \in [history : [Pairs -> UpTo(Current)], feeds : SUBSET Pairs]
  /\ bot \in [todo : SUBSET Pairs, jobs : Jobs(Current)]

LEMMA Times ==
  ASSUME now \in Nat, now >= Start
  PROVE  Current \in Nat /\ Current - 1 \in Nat /\ Current - Limit + 1 \in Nat /\ 1 <= Current - Limit + 1
  BY CandleAssumption DEF Current, Candle

LEMMA NoJobs ==
  ASSUME NEW n
  PROVE  NoCandles \in Jobs(n) /\ Resting \in [todo : SUBSET Pairs, jobs : Jobs(n)]
<1>1. NoCandles \in Jobs(n)
  <2>1. NoCandles \in [{} -> [ws : BOOLEAN, candle : 0..n]]
    BY DEF NoCandles
  <2> QED BY <2>1 DEF Jobs
<1> QED BY <1>1 DEF Resting

LEMMA InitPast == Init => Past
<1> SUFFICES ASSUME Init PROVE Past
  OBVIOUS
<1>1. now \in Nat /\ now >= Start
  BY CandleAssumption DEF Init
<1>2. klines \in [Pairs -> UpTo(Current - 1)]
  BY NoCandlesUpTo DEF Init
<1>3. ccxt \in [history : [Pairs -> UpTo(Current)], feeds : SUBSET Pairs]
  BY NoCandlesUpTo DEF Init
<1>4. bot \in [todo : SUBSET Pairs, jobs : Jobs(Current)]
  BY NoJobs DEF Init
<1> QED BY <1>1, <1>2, <1>3, <1>4 DEF Past

LEMMA TickPast ==
  ASSUME Past, Tick
  PROVE  Past'
<1>1. /\ now' \in Nat /\ now' >= Start /\ Current \in Int /\ Current' \in Int /\ Current <= Current'
      /\ klines' = klines /\ ccxt' = ccxt /\ bot' = bot
  <2>1. now' = now + 1 /\ now \in Nat /\ now >= Start /\ Start \in Nat
        /\ klines' = klines /\ ccxt' = ccxt /\ bot' = bot
    BY CandleAssumption DEF Past, Tick
  <2>2. \A t \in Nat : t \div 2 \in Int /\ (t + 1) \div 2 \in Int /\ t \div 2 <= (t + 1) \div 2
    OBVIOUS
  <2>3. Current = now \div 2 /\ Current' = (now + 1) \div 2
    BY <2>1 DEF Current, Candle
  <2> QED BY <2>1, <2>2, <2>3
<1>2. UpTo(Current - 1) \subseteq UpTo(Current' - 1) /\ UpTo(Current) \subseteq UpTo(Current')
  BY <1>1, UpToLater
<1>3. Jobs(Current) \subseteq Jobs(Current')
  <2>1. 0..Current \subseteq 0..Current'
    BY <1>1
  <2>2. [ws : BOOLEAN, candle : 0..Current] \subseteq [ws : BOOLEAN, candle : 0..Current']
    BY <2>1
  <2> QED BY <2>2 DEF Jobs
<1>4. klines' \in [Pairs -> UpTo(Current' - 1)]
  BY <1>1, <1>2 DEF Past
<1>5. ccxt' \in [history : [Pairs -> UpTo(Current')], feeds : SUBSET Pairs]
  BY <1>1, <1>2 DEF Past
<1>6. bot' \in [todo : SUBSET Pairs, jobs : Jobs(Current')]
  BY <1>1, <1>3 DEF Past
<1> QED BY <1>1, <1>4, <1>5, <1>6 DEF Past

LEMMA ForgetPast ==
  ASSUME Past, NEW gone, Forget(gone)
  PROVE  ccxt' \in [history : [Pairs -> UpTo(Current)], feeds : SUBSET Pairs]
<1> DEFINE h == [q \in Pairs |-> IF q \in gone THEN NoCandles ELSE ccxt.history[q]]
<1>1. ccxt' = [ccxt EXCEPT !.history = h]
  BY DEF Forget
<1>2. h \in [Pairs -> UpTo(Current)]
  BY NoCandlesUpTo DEF Past
<1> HIDE DEF h
<1> QED BY <1>1, <1>2 DEF Past

LEMMA SameTime ==
  ASSUME Past, now' = now, klines' \in [Pairs -> UpTo(Current - 1)],
         ccxt' \in [history : [Pairs -> UpTo(Current)], feeds : SUBSET Pairs],
         bot' \in [todo : SUBSET Pairs, jobs : Jobs(Current)]
  PROVE  Past'
<1>1. Current' = Current
  BY DEF Current
<1> QED BY <1>1 DEF Past

\* What a job leaves: candles that were over, of those it read.
LEMMA ProcessPast ==
  ASSUME Past, NEW p \in Pairs, p \in DOMAIN bot.jobs, NEW ticks \in UpTo(Current), NEW drop \in BOOLEAN,
         ~drop /\ ticks # NoCandles => Newest(ticks) < Current,
         Process(p, ticks, drop)
  PROVE  /\ klines' \in [Pairs -> UpTo(Current - 1)]
         /\ bot' \in [todo : SUBSET Pairs, jobs : Jobs(Current)]
<1>1. /\ klines \in [Pairs -> UpTo(Current - 1)]
      /\ bot \in [todo : SUBSET Pairs, jobs : Jobs(Current)]
      /\ Current \in Nat /\ Current - 1 \in Nat
  BY Times DEF Past
<1>2. bot' \in [todo : SUBSET Pairs, jobs : Jobs(Current)]
  <2> DEFINE jobs == Restrict(bot.jobs, DOMAIN bot.jobs \ {p})
  <2>1. jobs \in Jobs(Current)
    <3>1. bot.jobs \in [DOMAIN bot.jobs -> [ws : BOOLEAN, candle : 0..Current]] /\ DOMAIN bot.jobs \subseteq Pairs
      BY <1>1, JobsDomain
    <3>2. jobs \in [DOMAIN bot.jobs \ {p} -> [ws : BOOLEAN, candle : 0..Current]]
      BY <3>1 DEF Restrict
    <3> QED BY <3>1, <3>2 DEF Jobs
  <2>2. bot' = Resting \/ bot' = [bot EXCEPT !.jobs = jobs]
    BY DEF Process
  <2> HIDE DEF jobs
  <2>3. [bot EXCEPT !.jobs = jobs] \in [todo : SUBSET Pairs, jobs : Jobs(Current)]
    BY <1>1, <2>1
  <2> QED BY <2>2, <2>3, NoJobs
<1>3. CASE ticks = NoCandles
  BY <1>1, <1>2, <1>3 DEF Process
<1>4. CASE ticks # NoCandles
  <2> DEFINE last == Newest(ticks)
             kept == IF drop THEN Drop(ticks, {last}) ELSE ticks
             df == Merge(klines[p], kept)
             new == IF df = NoCandles THEN df ELSE Aged(df)
  <2>1. kept \in UpTo(Current - 1)
    <3>1. CASE drop
      BY <1>1, <1>4, <3>1, DropNewest
    <3>2. CASE ~drop
      <4>1. /\ last < Current /\ last \in Nat /\ \A c \in DOMAIN ticks : c <= last
            /\ DOMAIN ticks \subseteq 1..Current /\ ticks \in [DOMAIN ticks -> States]
        BY <1>1, <1>4, <3>2, NewestUpTo, UpToDomain
      <4>2. DOMAIN ticks \subseteq 1..(Current - 1)
        BY <1>1, <4>1
      <4> QED BY <3>2, <4>1, <4>2, UpToDomain
    <3> QED BY <3>1, <3>2
  <2>2. klines' = [klines EXCEPT ![p] = new]
    BY <1>4 DEF Process
  <2> HIDE DEF last, kept
  <2>3. df \in UpTo(Current - 1)
    BY <1>1, <2>1, MergeUpTo
  <2> HIDE DEF df
  <2>4. new \in UpTo(Current - 1)
    BY <1>1, <2>3, AgedUpTo
  <2> HIDE DEF new
  <2> QED BY <1>1, <1>2, <2>2, <2>4
<1> QED BY <1>3, <1>4

LEMMA ReadPast ==
  ASSUME Past, NEW p \in Pairs, ReadHistory(p)
  PROVE  Past'
<1> DEFINE h == ccxt.history[p]
           drop == h # NoCandles /\ DropHint(Newest(h), bot.jobs[p].candle)
<1>1. p \in DOMAIN bot.jobs /\ now' = now /\ ccxt' = ccxt /\ Process(p, h, drop)
  BY DEF ReadHistory, Runs
<1>2. h \in UpTo(Current) /\ Current \in Nat
  BY Times DEF Past
<1>3. bot.jobs[p].candle \in 0..Current
  <2>1. bot.jobs \in [DOMAIN bot.jobs -> [ws : BOOLEAN, candle : 0..Current]]
    BY JobsDomain DEF Past
  <2> QED BY <1>1, <2>1
<1>4. ~drop /\ h # NoCandles => Newest(h) < Current
  <2>1. h # NoCandles => Newest(h) \in Nat
    BY <1>2, NewestUpTo
  <2> HIDE DEF h
  <2> QED BY <1>2, <1>3, <2>1 DEF DropHint
<1>5. drop \in BOOLEAN
  BY DEF DropHint
<1> HIDE DEF h, drop
<1>6. klines' \in [Pairs -> UpTo(Current - 1)] /\ bot' \in [todo : SUBSET Pairs, jobs : Jobs(Current)]
  BY <1>1, <1>2, <1>4, <1>5, ProcessPast
<1> QED BY <1>1, <1>6, SameTime DEF Past

LEMMA FetchPast ==
  ASSUME Past, NEW p \in Pairs, Fetch(p) \/ FetchFails(p)
  PROVE  Past'
<1>1. p \in DOMAIN bot.jobs /\ now' = now /\ ccxt' = ccxt
  BY DEF Fetch, FetchFails, Runs
<1>2. Current \in Nat /\ Current - Limit + 1 \in Nat /\ 1 <= Current - Limit + 1 /\ "partial" \in States
  BY Times DEF Past, States
<1>3. klines' \in [Pairs -> UpTo(Current - 1)] /\ bot' \in [todo : SUBSET Pairs, jobs : Jobs(Current)]
  <2>1. CASE Fetch(p)
    <3>1. Process(p, Ticks(Current - Limit + 1, Current, "partial"), TRUE)
      BY <2>1 DEF Fetch
    <3>2. Ticks(Current - Limit + 1, Current, "partial") \in UpTo(Current)
      BY <1>2, TicksUpTo
    <3> QED BY <1>1, <3>1, <3>2, ProcessPast
  <2>2. CASE FetchFails(p)
    <3>1. Process(p, NoCandles, FALSE)
      BY <2>2 DEF FetchFails
    <3>2. NoCandles \in UpTo(Current)
      BY NoCandlesUpTo
    <3> QED BY <1>1, <3>1, <3>2, ProcessPast
  <2> QED BY <2>1, <2>2
<1> QED BY <1>1, <1>3, SameTime DEF Past

LEMMA BuildPast ==
  ASSUME Past, NEW p \in Pairs, Build(p)
  PROVE  Past'
<1>1. /\ klines \in [Pairs -> UpTo(Current - 1)] /\ Current \in Nat
      /\ ccxt \in [history : [Pairs -> UpTo(Current)], feeds : SUBSET Pairs]
      /\ bot.todo \subseteq Pairs /\ bot \in [todo : SUBSET Pairs, jobs : Jobs(Current)]
  BY Times DEF Past
<1>2. CASE klines[p] = NoCandles \/ TimeToRefresh(p)
  <2> DEFINE ws == klines[p] # NoCandles /\ Usable(p)
             job == [ws |-> ws, candle |-> Current]
             jobs == Over([q \in {p} |-> job], bot.jobs)
  <2>1. /\ now' = now /\ Forget(Expired(p))
        /\ bot' = [bot EXCEPT !.todo = @ \ {p}, !.jobs = jobs]
        /\ klines' = [klines EXCEPT ![p] = NoCandles] \/ klines' = klines
    BY <1>2 DEF Build
  <2>2. klines' \in [Pairs -> UpTo(Current - 1)]
    BY <1>1, <2>1, NoCandlesUpTo
  <2>3. ccxt' \in [history : [Pairs -> UpTo(Current)], feeds : SUBSET Pairs]
    BY <2>1, ForgetPast
  <2>4. jobs \in Jobs(Current)
    <3>1. bot.jobs \in [DOMAIN bot.jobs -> [ws : BOOLEAN, candle : 0..Current]] /\ DOMAIN bot.jobs \subseteq Pairs
      BY <1>1, JobsDomain
    <3>2. job \in [ws : BOOLEAN, candle : 0..Current]
      BY <1>1 DEF Usable
    <3> HIDE DEF job
    <3>3. jobs \in [DOMAIN bot.jobs \cup {p} -> [ws : BOOLEAN, candle : 0..Current]]
      BY <3>1, <3>2 DEF Over
    <3> QED BY <3>1, <3>3 DEF Jobs
  <2> HIDE DEF jobs
  <2>5. bot' \in [todo : SUBSET Pairs, jobs : Jobs(Current)]
    <3>1. bot' = [todo |-> bot.todo \ {p}, jobs |-> jobs]
      BY <1>1, <2>1
    <3> QED BY <1>1, <2>4, <3>1
  <2> QED BY <2>1, <2>2, <2>3, <2>5, SameTime
<1>3. CASE ~(klines[p] = NoCandles \/ TimeToRefresh(p))
  <2>1. /\ now' = now /\ klines' = klines /\ ccxt' = ccxt
        /\ bot' = [bot EXCEPT !.todo = @ \ {p}]
    BY <1>3 DEF Build
  <2>2. bot' \in [todo : SUBSET Pairs, jobs : Jobs(Current)]
    BY <1>1, <2>1
  <2> QED BY <1>1, <2>1, <2>2, SameTime
<1> QED BY <1>2, <1>3

LEMMA MessagePast ==
  ASSUME Past, NEW p \in Pairs, Message(p)
  PROVE  Past'
<1> DEFINE h == ccxt.history[p]
           from == IF p \in ccxt.feeds /\ h # NoCandles THEN Newest(h) ELSE Current
           new == Over(Ticks(from, Current, "partial"), h)
<1>1. /\ h \in UpTo(Current) /\ Current \in Nat /\ 1 <= Current /\ "partial" \in States
      /\ ccxt \in [history : [Pairs -> UpTo(Current)], feeds : SUBSET Pairs]
  <2>1. Limit \in Nat /\ Current - Limit + 1 \in Nat /\ Current \in Nat /\ 1 <= Current - Limit + 1
    BY CandleAssumption, Times DEF Past
  <2>2. Current - Limit + 1 <= Current + 1
    BY <2>1
  <2>3. 1 <= Current
    BY CandleAssumption DEF Past, Current, Candle
  <2> QED BY <2>1, <2>3 DEF Past, States
<1>2. /\ now' = now /\ klines' = klines /\ bot' = bot
      /\ ccxt' = [feeds |-> ccxt.feeds \cup {p}, history |-> [ccxt.history EXCEPT ![p] = new]]
  BY DEF Message
<1> HIDE DEF h
<1>3. from \in Nat /\ 1 <= from
  <2>1. h # NoCandles => Newest(h) \in 1..Current
    BY <1>1, NewestUpTo
  <2> QED BY <1>1, <2>1
<1> HIDE DEF from
<1>4. new \in UpTo(Current)
  BY <1>1, <1>3, TicksUpTo, OverUpTo
<1> HIDE DEF new
<1>5. ccxt' \in [history : [Pairs -> UpTo(Current)], feeds : SUBSET Pairs]
  BY <1>1, <1>2, <1>4
<1> QED BY <1>2, <1>5, SameTime DEF Past

LEMMA StepPast == Past /\ [Next]_vars => Past'
<1> SUFFICES ASSUME Past, [Next]_vars PROVE Past'
  OBVIOUS
<1>1. CASE Tick
  BY <1>1, TickPast
<1>2. ASSUME NEW whitelist \in Whitelists, Refresh(whitelist)
      PROVE  Past'
  <2>1. bot' \in [todo : SUBSET Pairs, jobs : Jobs(Current)]
    <3>1. whitelist \subseteq Pairs
      BY CandleAssumption
    <3> QED BY <1>2, <3>1, NoJobs DEF Refresh, Resting
  <2> QED BY <1>2, <2>1, SameTime DEF Refresh, Past
<1>3. ASSUME NEW p \in Pairs, Build(p) \/ ReadHistory(p) \/ Fetch(p) \/ FetchFails(p) \/ Message(p)
      PROVE  Past'
  BY <1>3, BuildPast, ReadPast, FetchPast, MessagePast
<1>4. CASE AskReset
  BY <1>4, SameTime DEF AskReset, Past
<1>5. CASE ConnectionLost \/ \E p \in Pairs : Unwatch(p)
  <2>1. \E feeds \in SUBSET Pairs : ccxt' = [ccxt EXCEPT !.feeds = feeds]
    BY <1>5 DEF ConnectionLost, Unwatch, Past
  <2>2. now' = now /\ klines' = klines /\ bot' = bot
    BY <1>5 DEF ConnectionLost, Unwatch
  <2>3. ccxt' \in [history : [Pairs -> UpTo(Current)], feeds : SUBSET Pairs]
    BY <2>1 DEF Past
  <2> QED BY <2>2, <2>3, SameTime DEF Past
<1>6. CASE Schedule
  BY <1>6, SameTime DEF Schedule, Past
<1>7. CASE Reset
  <2>1. ccxt' \in [history : [Pairs -> UpTo(Current)], feeds : SUBSET Pairs]
    BY <1>7, NoCandlesUpTo DEF Reset
  <2> QED BY <1>7, <2>1, SameTime DEF Reset, Past
<1>8. ASSUME NEW p \in Pairs, NEW i \in DOMAIN tasks[p], Turn(p, i) \/ WatchBreaks(p, i)
      PROVE  Past'
  BY <1>8, SameTime DEF Turn, WatchBreaks, Past
<1>9. ASSUME NEW p \in Pairs, NEW i \in DOMAIN tasks[p], Stopped(p, i)
      PROVE  Past'
  <2>1. now' = now /\ klines' = klines /\ bot' = bot /\ Forget({p})
    BY <1>9 DEF Stopped, Pop
  <2> QED BY <2>1, ForgetPast, SameTime DEF Past
<1>10. CASE UNCHANGED vars
  BY <1>10, SameTime DEF vars, Past
<1> QED BY <1>1, <1>2, <1>3, <1>4, <1>5, <1>6, <1>7, <1>8, <1>9, <1>10 DEF Next, LoopStep

\* What the bot may hold of the candles, at every time: nothing is from the future.
THEOREM AlwaysPast == Spec => []Past
<1>1. Past /\ [Next]_vars => Past'
  BY StepPast
<1> QED BY InitPast, <1>1, PTL DEF Spec

\* A candle that is not over never reaches the strategy (get_ohlcv's drop_hint and
\* _process_ohlcv_df), for every limit, every number of pairs and all time.
THEOREM FinishedOnly == Spec => []OnlyFinished
<1>1. Past => OnlyFinished
  <2> SUFFICES ASSUME Past, NEW p \in Pairs, NEW c \in DOMAIN klines[p] PROVE c < Current
    BY DEF OnlyFinished
  <2>1. klines[p] \in UpTo(Current - 1) /\ Current \in Nat
    BY Times DEF Past
  <2>2. c \in 1..(Current - 1)
    BY <2>1, UpToDomain
  <2> QED BY <2>1, <2>2
<1> QED BY AlwaysPast, <1>1, PTL

-----------------------------------------------------------------------------
(* OneWatcher *)

Places == {"ready", "await", "spin", "ended"}
Task == [at : Places, retries : Nat]

\* What every step keeps: the only task of a pair is a scheduled one.
Watched ==
  /\ tasks \in [Pairs -> Seq(Task)]
  /\ refreshed \in [Pairs -> Int]
  /\ \A p \in Pairs : tasks[p] # <<>> => p \in scheduled
  /\ OneWatcher

LEMMA SameTasks ==
  ASSUME NEW s \in Seq(Task), NEW f \in [DOMAIN s -> Task]
  PROVE  f \in Seq(Task) /\ Len(f) = Len(s)
<1>1. DOMAIN s = 1..Len(s) /\ Len(s) \in Nat
  OBVIOUS
<1> QED BY <1>1

LEMMA NoTasks ==
  ASSUME NEW s \in Seq(Task)
  PROVE  /\ s = <<>> <=> Len(s) = 0
         /\ \A i \in DOMAIN s : Len(s) <= 1 => Len(s) = 1 /\ i = 1
<1>1. s = <<>> <=> Len(s) = 0
  BY EmptySeq
<1>2. DOMAIN s = 1..Len(s) /\ Len(s) \in Nat
  OBVIOUS
<1>3. ASSUME NEW i \in DOMAIN s, Len(s) <= 1
      PROVE  Len(s) = 1 /\ i = 1
  <2>1. i \in 1..Len(s)
    BY <1>2, <1>3
  <2> QED BY <1>2, <1>3, <2>1
<1> QED BY <1>1, <1>3

\* A task of a pair's list may be replaced by another, or only move to another state.
LEMMA TaskReplaced ==
  ASSUME NEW s \in Seq(Task), NEW i \in 1..Len(s), NEW t \in Task
  PROVE  [s EXCEPT ![i] = t] \in Seq(Task) /\ Len([s EXCEPT ![i] = t]) = Len(s)
BY ExceptSeq

LEMMA TaskAt ==
  ASSUME NEW t \in Task, NEW place \in Places
  PROVE  [t EXCEPT !.at = place] \in Task
  BY DEF Task

\* What of the invariant is left when the tasks only change their state.
LEMMA KeepsTasks ==
  ASSUME Watched, tasks' \in [Pairs -> Seq(Task)], \A p \in Pairs : Len(tasks'[p]) = Len(tasks[p]),
         scheduled' = scheduled, refreshed' \in [Pairs -> Int],
         \A p \in Pairs : refreshed'[p] > 0 => refreshed[p] > 0 \/ Len(tasks[p]) = 1
  PROVE  Watched'
<1>1. ASSUME NEW p \in Pairs
      PROVE  /\ tasks'[p] # <<>> => p \in scheduled'
             /\ Len(tasks'[p]) <= 1 /\ (refreshed'[p] > 0 => Len(tasks'[p]) = 1)
  <2>1. tasks[p] \in Seq(Task) /\ tasks'[p] \in Seq(Task) /\ Len(tasks'[p]) = Len(tasks[p])
    BY <1>1 DEF Watched
  <2>2. tasks'[p] = <<>> <=> tasks[p] = <<>>
    BY <2>1, NoTasks
  <2>3. Len(tasks[p]) <= 1 /\ (refreshed[p] > 0 => Len(tasks[p]) = 1) /\ (tasks[p] # <<>> => p \in scheduled)
    BY <1>1 DEF Watched, OneWatcher
  <2> QED BY <1>1, <2>1, <2>2, <2>3
<1> QED BY <1>1 DEF Watched, OneWatcher

LEMMA FailedTasks ==
  ASSUME NEW s \in Seq(Task)
  PROVE  /\ [i \in DOMAIN s |-> Failed(s[i])] \in Seq(Task)
         /\ Len([i \in DOMAIN s |-> Failed(s[i])]) = Len(s)
<1> DEFINE f == [i \in DOMAIN s |-> Failed(s[i])]
<1>1. ASSUME NEW t \in Task
      PROVE  Failed(t) \in Task
  BY DEF Failed, Task, Places
<1>2. \A i \in DOMAIN s : s[i] \in Task
  OBVIOUS
<1>3. f \in [DOMAIN s -> Task]
  BY <1>1, <1>2
<1> HIDE DEF f
<1>4. f \in Seq(Task) /\ Len(f) = Len(s)
  BY <1>3, SameTasks
<1> QED BY <1>4 DEF f

LEMMA ForgetWatched ==
  ASSUME Watched, NEW gone, Forget(gone), tasks' = tasks, scheduled' = scheduled
  PROVE  Watched'
<1>1. refreshed' \in [Pairs -> Int] /\ \A p \in Pairs : refreshed'[p] > 0 => refreshed[p] > 0
  BY DEF Forget, Watched
<1> QED BY <1>1, KeepsTasks DEF Watched

LEMMA ScheduleWatched ==
  ASSUME Watched, Schedule
  PROVE  Watched'
<1>1. New \in Task
  BY DEF New, Task, Places
<1>2. ASSUME NEW p \in Pairs
      PROVE  /\ tasks'[p] \in Seq(Task) /\ Len(tasks'[p]) <= 1
             /\ tasks'[p] # <<>> => p \in scheduled'
             /\ refreshed'[p] > 0 => Len(tasks'[p]) = 1
  <2>1. /\ tasks[p] \in Seq(Task) /\ Len(tasks[p]) <= 1 /\ (tasks[p] # <<>> => p \in scheduled)
        /\ refreshed[p] > 0 => Len(tasks[p]) = 1
    BY <1>2 DEF Watched, OneWatcher
  <2>2. CASE p \in Unscheduled
    <3>1. p \in watching /\ tasks[p] = <<>>
      BY <2>1, <2>2 DEF Unscheduled
    <3>2. tasks'[p] = Append(<<>>, New) /\ p \in scheduled'
      BY <1>2, <2>2, <3>1 DEF Schedule
    <3>3. tasks'[p] \in Seq(Task) /\ Len(tasks'[p]) = 1
      BY <1>1, <3>2
    <3> QED BY <3>2, <3>3
  <2>3. CASE p \notin Unscheduled
    BY <1>2, <2>1, <2>3 DEF Schedule
  <2> QED BY <2>2, <2>3
<1>3. tasks' \in [Pairs -> Seq(Task)]
  <2>1. DOMAIN tasks' = Pairs /\ tasks' = [p \in Pairs |-> tasks'[p]]
    BY DEF Schedule
  <2> QED BY <1>2, <2>1
<1>4. refreshed' = refreshed
  BY DEF Schedule
<1> QED BY <1>2, <1>3, <1>4 DEF Watched, OneWatcher

LEMMA TurnWatched ==
  ASSUME Watched, NEW p \in Pairs, NEW i \in DOMAIN tasks[p], Turn(p, i) \/ WatchBreaks(p, i)
  PROVE  Watched'
<1>1. PICK place \in Places : tasks' = [tasks EXCEPT ![p][i].at = place]
  BY DEF Turn, WatchBreaks, Places
<1>2. scheduled' = scheduled /\ refreshed' = refreshed
  BY DEF Turn, WatchBreaks
<1> DEFINE s == tasks[p]
           t == [s[i] EXCEPT !.at = place]
           f == [s EXCEPT ![i] = t]
<1>3. s \in Seq(Task) /\ i \in 1..Len(s)
  BY DEF Watched
<1>4. t \in Task
  <2>1. s[i] \in Task
    BY <1>3
  <2> QED BY <2>1, TaskAt
<1>5. tasks' = [tasks EXCEPT ![p] = f]
  BY <1>1
<1> HIDE DEF s, t
<1>6. f \in Seq(Task) /\ Len(f) = Len(s)
  BY ONLY <1>3, <1>4, TaskReplaced
<1> HIDE DEF f
<1>7. tasks' \in [Pairs -> Seq(Task)]
  BY <1>5, <1>6 DEF Watched
<1>8. \A q \in Pairs : Len(tasks'[q]) = Len(tasks[q])
  BY <1>5, <1>6 DEF Watched, s
<1> QED BY <1>2, <1>7, <1>8, KeepsTasks DEF Watched

LEMMA MessageWatched ==
  ASSUME Past, Watched, NEW p \in Pairs, Message(p)
  PROVE  Watched'
<1>1. scheduled' = scheduled
  BY DEF Message
<1>2. CASE refreshed' = refreshed /\ tasks' = tasks
  BY <1>1, <1>2, KeepsTasks DEF Watched
<1>3. CASE \E i \in DOMAIN tasks[p] :
             /\ At(p, i, "await")
             /\ refreshed' = [refreshed EXCEPT ![p] = now]
             /\ tasks' = [tasks EXCEPT ![p][i] = [at |-> IF p \in watching THEN "await" ELSE "spin", retries |-> 0]]
  <2>1. PICK i \in DOMAIN tasks[p] :
          /\ refreshed' = [refreshed EXCEPT ![p] = now]
          /\ tasks' = [tasks EXCEPT ![p][i] = [at |-> IF p \in watching THEN "await" ELSE "spin", retries |-> 0]]
    BY <1>3
  <2> DEFINE s == tasks[p]
             t == [at |-> IF p \in watching THEN "await" ELSE "spin", retries |-> 0]
             f == [s EXCEPT ![i] = t]
  <2>2. s \in Seq(Task) /\ i \in 1..Len(s) /\ Len(s) = 1
    <3>1. s \in Seq(Task) /\ Len(s) <= 1
      BY DEF Watched, OneWatcher
    <3>2. i \in DOMAIN s
      BY <2>1
    <3> HIDE DEF s
    <3> QED BY <3>1, <3>2, NoTasks
  <2>3. t \in Task
    <3>1. (IF p \in watching THEN "await" ELSE "spin") \in Places
      BY DEF Places
    <3> QED BY <3>1 DEF Task
  <2>4. tasks' = [tasks EXCEPT ![p] = f]
    BY <2>1
  <2> HIDE DEF s, t
  <2>5. f \in Seq(Task) /\ Len(f) = Len(s)
    BY ONLY <2>2, <2>3, TaskReplaced
  <2> HIDE DEF f
  <2>6. tasks' \in [Pairs -> Seq(Task)]
    BY <2>4, <2>5 DEF Watched
  <2>7. \A q \in Pairs : Len(tasks'[q]) = Len(tasks[q])
    BY <2>4, <2>5 DEF Watched, s
  <2>8. /\ refreshed' \in [Pairs -> Int]
        /\ \A q \in Pairs : refreshed'[q] > 0 => refreshed[q] > 0 \/ Len(tasks[q]) = 1
    BY <2>1, <2>2 DEF Watched, Past, s
  <2> QED BY <1>1, <2>6, <2>7, <2>8, KeepsTasks
<1> QED BY <1>2, <1>3 DEF Message

LEMMA FailWatched ==
  ASSUME Watched, ConnectionLost \/ \E p \in Pairs : Unwatch(p)
  PROVE  Watched'
<1>1. scheduled' = scheduled /\ refreshed' = refreshed
  BY DEF ConnectionLost, Unwatch
<1>2. ASSUME NEW q \in Pairs
      PROVE  tasks'[q] = tasks[q] \/ tasks'[q] = [i \in DOMAIN tasks[q] |-> Failed(tasks[q][i])]
  <2>1. CASE ConnectionLost
    BY <1>2, <2>1 DEF ConnectionLost
  <2>2. ASSUME NEW p \in Pairs, Unwatch(p)
        PROVE  tasks'[q] = tasks[q] \/ tasks'[q] = [i \in DOMAIN tasks[q] |-> Failed(tasks[q][i])]
    <3>1. tasks' = [tasks EXCEPT ![p] = [i \in DOMAIN tasks[p] |-> Failed(tasks[p][i])]]
      BY <2>2 DEF Unwatch
    <3>2. CASE q = p
      BY <1>2, <3>1, <3>2 DEF Watched
    <3>3. CASE q # p
      BY <1>2, <3>1, <3>3 DEF Watched
    <3> QED BY <3>2, <3>3
  <2> QED BY <2>1, <2>2
<1>3. ASSUME NEW q \in Pairs
      PROVE  tasks'[q] \in Seq(Task) /\ Len(tasks'[q]) = Len(tasks[q])
  <2>1. tasks[q] \in Seq(Task)
    BY <1>3 DEF Watched
  <2> QED BY <1>2, <1>3, <2>1, FailedTasks
<1>4. tasks' \in [Pairs -> Seq(Task)]
  <2>1. tasks' = [q \in Pairs |-> tasks'[q]]
    BY DEF ConnectionLost, Unwatch, Watched
  <2> QED BY <1>3, <2>1
<1> QED BY <1>1, <1>3, <1>4, KeepsTasks DEF Watched

LEMMA ResetWatched ==
  ASSUME Watched, Reset
  PROVE  Watched'
<1> DEFINE f(q) == [i \in DOMAIN tasks[q] |->
                     IF At(q, i, "await") THEN [tasks[q][i] EXCEPT !.at = "ended"] ELSE tasks[q][i]]
<1>1. scheduled' = scheduled /\ refreshed' = refreshed /\ tasks' = [q \in Pairs |-> f(q)]
  BY DEF Reset
<1>2. ASSUME NEW q \in Pairs
      PROVE  f(q) \in Seq(Task) /\ Len(f(q)) = Len(tasks[q])
  <2>1. tasks[q] \in Seq(Task)
    BY <1>2 DEF Watched
  <2>2. ASSUME NEW t \in Task
        PROVE  [t EXCEPT !.at = "ended"] \in Task
    BY <2>2, TaskAt DEF Places
  <2>3. \A i \in DOMAIN tasks[q] : tasks[q][i] \in Task
    BY <2>1
  <2>4. f(q) \in [DOMAIN tasks[q] -> Task]
    BY <2>2, <2>3
  <2> HIDE DEF f
  <2> QED BY <2>1, <2>4, SameTasks
<1> HIDE DEF f
<1>3. tasks' \in [Pairs -> Seq(Task)] /\ \A q \in Pairs : Len(tasks'[q]) = Len(tasks[q])
  BY <1>1, <1>2
<1> QED BY <1>1, <1>3, KeepsTasks DEF Watched

LEMMA StoppedWatched ==
  ASSUME Watched, NEW p \in Pairs, NEW i \in DOMAIN tasks[p], Stopped(p, i)
  PROVE  Watched'
<1>1. tasks[p] \in Seq(Task) /\ Len(tasks[p]) = 1 /\ i = 1
  <2>1. tasks[p] \in Seq(Task) /\ Len(tasks[p]) <= 1
    BY DEF Watched, OneWatcher
  <2> QED BY <2>1, NoTasks
<1>2. RemoveAt(tasks[p], i) = <<>>
  BY <1>1 DEF RemoveAt
<1>3. tasks' = [tasks EXCEPT ![p] = <<>>] /\ scheduled' = scheduled \ {p}
  BY <1>2 DEF Stopped
<1>4. refreshed' = [q \in Pairs |-> IF q \in {p} THEN 0 ELSE refreshed[q]]
  BY DEF Stopped, Pop, Forget
<1>5. ASSUME NEW q \in Pairs
      PROVE  /\ tasks'[q] \in Seq(Task) /\ Len(tasks'[q]) <= 1
             /\ tasks'[q] # <<>> => q \in scheduled'
             /\ refreshed'[q] > 0 => Len(tasks'[q]) = 1
  <2>1. /\ tasks[q] \in Seq(Task) /\ Len(tasks[q]) <= 1 /\ (tasks[q] # <<>> => q \in scheduled)
        /\ refreshed[q] > 0 => Len(tasks[q]) = 1
    BY <1>5 DEF Watched, OneWatcher
  <2>2. CASE q = p
    BY <1>3, <1>4, <2>2 DEF Watched
  <2>3. CASE q # p
    BY <1>3, <1>4, <1>5, <2>1, <2>3 DEF Watched
  <2> QED BY <2>2, <2>3
<1>6. tasks' \in [Pairs -> Seq(Task)] /\ refreshed' \in [Pairs -> Int]
  BY <1>3, <1>4 DEF Watched
<1> QED BY <1>5, <1>6 DEF Watched, OneWatcher

LEMMA StepWatched == Past /\ Watched /\ [Next]_vars => Watched'
<1> SUFFICES ASSUME Past, Watched, [Next]_vars PROVE Watched'
  OBVIOUS
<1>1. ASSUME tasks' = tasks, scheduled' = scheduled, refreshed' = refreshed
      PROVE  Watched'
  BY <1>1 DEF Watched, OneWatcher
<1>2. CASE Tick \/ AskReset \/ \E whitelist \in Whitelists : Refresh(whitelist)
  BY <1>1, <1>2 DEF Tick, AskReset, Refresh, wsVars
<1>3. ASSUME NEW p \in Pairs, ReadHistory(p) \/ Fetch(p) \/ FetchFails(p)
      PROVE  Watched'
  BY <1>1, <1>3 DEF ReadHistory, Fetch, FetchFails, wsVars
<1>4. ASSUME NEW p \in Pairs, Build(p)
      PROVE  Watched'
  <2>1. Forget(Expired(p)) \/ refreshed' = refreshed
    BY <1>4 DEF Build
  <2>2. tasks' = tasks /\ scheduled' = scheduled
    BY <1>4 DEF Build
  <2> QED BY <1>1, <2>1, <2>2, ForgetWatched
<1>5. ASSUME NEW p \in Pairs, Message(p)
      PROVE  Watched'
  BY <1>5, MessageWatched
<1>6. CASE ConnectionLost \/ \E p \in Pairs : Unwatch(p)
  BY <1>6, FailWatched
<1>7. CASE Schedule \/ Reset
  BY <1>7, ScheduleWatched, ResetWatched
<1>8. ASSUME NEW p \in Pairs, NEW i \in DOMAIN tasks[p], Turn(p, i) \/ WatchBreaks(p, i) \/ Stopped(p, i)
      PROVE  Watched'
  BY <1>8, TurnWatched, StoppedWatched
<1>9. CASE UNCHANGED vars
  BY <1>1, <1>9 DEF vars
<1> QED BY <1>2, <1>3, <1>4, <1>5, <1>6, <1>7, <1>8, <1>9 DEF Next, LoopStep

LEMMA InitWatched == Init => Watched
<1> SUFFICES ASSUME Init PROVE Watched
  OBVIOUS
<1>1. tasks = [p \in Pairs |-> <<>>] /\ refreshed = [p \in Pairs |-> 0]
  BY DEF Init
<1> QED BY <1>1 DEF Watched, OneWatcher

\* A pair is watched by one task at most, and its history counts as recent only while
\* there is one (_schedule_while_true, _continuous_stopped, _pop_history), for every number
\* of pairs, retries, resets and lost connections.
THEOREM OneTaskWatches == Spec => []OneWatcher
<1>1. Past /\ Watched /\ [Next]_vars => Watched'
  BY StepWatched
<1>2. Watched => OneWatcher
  BY DEF Watched
<1> QED BY InitWatched, AlwaysPast, <1>1, <1>2, PTL DEF Spec

=============================================================================
