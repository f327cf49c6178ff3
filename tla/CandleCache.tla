----------------------------- MODULE CandleCache -----------------------------
(***************************************************************************)
(* The candles the bot works with: Exchange._klines, brought up to date    *)
(* from the exchange's REST api or from what the websocket thread has      *)
(* collected (exchange/exchange.py, exchange/exchange_ws.py).  Time goes   *)
(* in half candles; a candle is the number of its timeframe, its prices    *)
(* are what is known of them: all, the beginning only, or made up.         *)
(***************************************************************************)
EXTENDS Integers, FiniteSets, Sequences, SequencesExt, Functions

CONSTANTS
  Pairs,
  Whitelists,       \* the sets of pairs the bot may ask for
  Start, MaxTime,   \* the first and the last half candle; a bound
  Limit, Slack,     \* ohlcv_candle_limit, and what one call is trusted with less: 5
  MaxRetries,       \* max_retries of a watch
  ResetAt,          \* when ws_connection_reset is due
  MaxTrouble        \* connections lost or reset; a bound

ASSUME CandleAssumption ==
  /\ Whitelists \subseteq SUBSET Pairs /\ {} \notin Whitelists
  /\ Limit \in Nat /\ Slack \in Nat /\ Slack < Limit /\ MaxRetries \in Nat \ {0} /\ MaxTrouble \in Nat
  /\ Start \in Nat /\ Start >= 2 * Limit + 2 /\ MaxTime \in Nat /\ ResetAt \in Nat

VARIABLES
  now,       \* the clock
  klines,    \* _klines: the candles of each pair; none when it is not cached
  lastCandle, \* _pairs_last_refresh_time, 0 for none
  bot,       \* refresh_latest_ohlcv: the pairs to look at, and the jobs
  ccxt,      \* the library: the history of each pair, and the pairs it gets messages of
  watching, scheduled, refreshed, requested,  \* ExchangeWS._klines_...
  tasks,     \* _background_tasks: those of each pair
  calls,     \* what was handed to the loop with run_coroutine_threadsafe
  trouble

wsVars == <<watching, scheduled, refreshed, tasks, calls>>
vars == <<now, klines, lastCandle, bot, ccxt, watching, scheduled, refreshed, requested, tasks, calls, trouble>>

Candle(t) == t \div 2
Current == Candle(now)

MaxOf(S) == CHOOSE x \in S : \A y \in S : y <= x
MinOf(S) == CHOOSE x \in S : \A y \in S : x <= y
NoCandles == [c \in {} |-> "final"]
Newest(ticks) == MaxOf(DOMAIN ticks)
Ticks(from, to, last) == [c \in from..to |-> IF c < to THEN "final" ELSE last]
Drop(ticks, gone) == Restrict(ticks, DOMAIN ticks \ gone)

\* A function, and another one where it is not defined.
Over(new, old) == [x \in DOMAIN new \cup DOMAIN old |-> IF x \in DOMAIN new THEN new[x] ELSE old[x]]

Resting == [todo |-> {}, jobs |-> NoCandles]

Init ==
  /\ now = Start
  /\ klines = [p \in Pairs |-> NoCandles] /\ lastCandle = [p \in Pairs |-> 0]
  /\ bot = Resting
  /\ ccxt = [history |-> [p \in Pairs |-> NoCandles], feeds |-> {}]
  /\ watching = {} /\ scheduled = {} /\ refreshed = [p \in Pairs |-> 0] /\ requested = [p \in Pairs |-> 0]
  /\ tasks = [p \in Pairs |-> <<>>]
  /\ calls = {} /\ trouble = 0

\* Time goes by.
Tick ==
  /\ now < MaxTime /\ now' = now + 1
  /\ UNCHANGED <<klines, lastCandle, bot, ccxt, wsVars, requested, trouble>>
-----------------------------------------------------------------------------
(* The thread of the bot *)

\* refresh_latest_ohlcv is called for the pairs of the whitelist.
Refresh(whitelist) ==
  /\ bot = Resting
  /\ bot' = [Resting EXCEPT !.todo = whitelist]
  /\ UNCHANGED <<now, klines, lastCandle, ccxt, wsVars, requested, trouble>>

\* _now_is_time_to_refresh
TimeToRefresh(p) == lastCandle[p] + 1 < Current

\* cleanup_expired: what is watched and was not asked for within a candle.
Expired(p) == {q \in watching \ {p} : requested[q] > 0 /\ now - requested[q] > 2}

\* _pop_history
Forget(gone) ==
  /\ ccxt' = [ccxt EXCEPT !.history = [q \in Pairs |-> IF q \in gone THEN NoCandles ELSE @[q]]]
  /\ refreshed' = [q \in Pairs |-> IF q \in gone THEN 0 ELSE refreshed[q]]

\* _try_build_from_websocket: is the history recent enough?
Usable(p) ==
  LET h == ccxt.history[p] IN
  /\ \/ Cardinality(DOMAIN h) > 1 /\ Newest(h) >= Current - 1
     \/ Cardinality(DOMAIN h) = 1 /\ Newest(h) < Current
  /\ refreshed[p] >= 2 * Current - 1

\* Would one call leave a hole after what is cached?
OneCallWillDo(p) == Current - (Limit - Slack) < lastCandle[p]

\* _build_coroutine of a pair that has to be refreshed: schedule_ohlcv, and the
\* source of the candles is chosen.
Build(p) ==
  /\ p \in bot.todo
  /\ IF klines[p] = NoCandles \/ TimeToRefresh(p)
     THEN /\ watching' = (watching \cup {p}) \ Expired(p)
          /\ Forget(Expired(p))
          /\ requested' = [requested EXCEPT ![p] = now]
          /\ calls' = calls \cup {[what |-> "schedule"]}
          /\ LET ws == klines[p] # NoCandles /\ Usable(p) IN
             /\ bot' = [bot EXCEPT !.todo = @ \ {p}, !.jobs = Over([q \in {p} |-> [ws |-> ws, candle |-> Current]], @)]
             /\ klines' = IF ~ws /\ ~OneCallWillDo(p) THEN [klines EXCEPT ![p] = NoCandles] ELSE klines
     ELSE /\ bot' = [bot EXCEPT !.todo = @ \ {p}]
          /\ UNCHANGED <<klines, ccxt, watching, refreshed, requested, calls>>
  /\ UNCHANGED <<now, lastCandle, scheduled, tasks, trouble>>

\* clean_ohlcv_dataframe: prices of the same candle are merged (the close is the later
\* one, but the open, high and low of a made-up candle stay), and the holes are filled.
Merge(old, new) ==
  LET all == DOMAIN old \cup DOMAIN new IN
  IF all = {} THEN NoCandles
  ELSE [c \in MinOf(all)..MaxOf(all) |->
          IF c \in DOMAIN new /\ ~(c \in DOMAIN old /\ old[c] = "made up") THEN new[c]
          ELSE IF c \in DOMAIN old THEN old[c] ELSE "made up"]

\* The oldest candles are dropped.
Aged(ticks) == Drop(ticks, {c \in DOMAIN ticks : c <= Newest(ticks) - Limit})

\* _process_ohlcv_df of the job's candles: the pair is refreshed up to the last one, or
\* the last but one if the last is dropped.  All are processed after the last job has its
\* candles, by the thread that alone has to do with the cache.
Process(p, ticks, drop) ==
  /\ bot' = IF DOMAIN bot.jobs = {p} THEN Resting ELSE [bot EXCEPT !.jobs = Restrict(@, DOMAIN @ \ {p})]
  /\ IF ticks = NoCandles THEN UNCHANGED <<klines, lastCandle>>
     ELSE LET last == Newest(ticks)
              kept == IF drop THEN Drop(ticks, {last}) ELSE ticks
              df == Merge(klines[p], kept)
          IN  /\ klines' = [klines EXCEPT ![p] = IF df = NoCandles THEN df ELSE Aged(df)]
              /\ lastCandle' = [lastCandle EXCEPT ![p] = IF kept = NoCandles THEN last ELSE Newest(kept)]

Runs(p, ws) == bot.todo = {} /\ p \in DOMAIN bot.jobs /\ bot.jobs[p].ws = ws

\* Mutant: the drop is decided with the newest candle at the time of the choice.
DropLate(newest, candle) == newest > candle

\* get_ohlcv: the newest candle is dropped if it was not over when the job was built.
DropHint(newest, candle) == newest >= candle

\* A job that uses the websocket's history reads it when its turn comes.
ReadHistory(p) ==
  /\ Runs(p, TRUE)
  /\ LET h == ccxt.history[p] IN
     Process(p, h, h # NoCandles /\ DropHint(Newest(h), bot.jobs[p].candle))
  /\ UNCHANGED <<now, ccxt, wsVars, requested, trouble>>

\* _async_get_candle_history: the last candle is the current one.  The first history may
\* take several calls (required_candle_call_count): then it is longer, and ends the same.
Fetch(p) ==
  /\ Runs(p, FALSE)
  /\ Process(p, Ticks(Current - Limit + 1, Current, "partial"), TRUE)
  /\ UNCHANGED <<now, ccxt, wsVars, requested, trouble>>

\* It fails: refresh_latest_ohlcv goes on with the other pairs.  An answer without candles
\* does the same to what is cached; of a pair that is not, the code caches an empty frame,
\* and may take the next candles from the websocket: this is left out.
FetchFails(p) ==
  /\ Runs(p, FALSE)
  /\ Process(p, NoCandles, FALSE)
  /\ UNCHANGED <<now, ccxt, wsVars, requested, trouble>>

\* ws_connection_reset, scheduled once a day.  It does not wait for ever.
AskReset ==
  /\ bot = Resting /\ now = ResetAt /\ trouble < MaxTrouble /\ trouble' = trouble + 1
  /\ calls' = calls \cup {[what |-> "reset"]}
  /\ UNCHANGED <<now, klines, lastCandle, bot, ccxt, watching, scheduled, refreshed, requested, tasks>>
-----------------------------------------------------------------------------
(* The thread of the websockets: an event loop.  A task that runs without    *)
(* awaiting anything stops all the others.                                   *)

New == [at |-> "ready", retries |-> 0]
Spinning == \E p \in Pairs : \E i \in DOMAIN tasks[p] : tasks[p][i].at = "spin"
At(p, i, place) == i \in DOMAIN tasks[p] /\ tasks[p][i].at = place

\* What should be watched and has no task.
Unscheduled == watching \ scheduled

\* _schedule_while_true
Schedule ==
  /\ ~Spinning /\ [what |-> "schedule"] \in calls
  /\ calls' = calls \ {[what |-> "schedule"]}
  /\ scheduled' = scheduled \cup watching
  /\ tasks' = [p \in Pairs |-> IF p \in Unscheduled THEN Append(tasks[p], New) ELSE tasks[p]]
  /\ UNCHANGED <<now, klines, lastCandle, bot, ccxt, watching, refreshed, requested, trouble>>

\* _continuously_async_watch_ohlcv comes to the heads of its loops: the retries are
\* used up; or it awaits the next candles; or the pair is not to be watched any more,
\* and the inner loop is left for the outer one, which begins it again.
Turn(p, i) ==
  /\ i \in DOMAIN tasks[p]
  /\ \/ ~Spinning /\ tasks[p][i].at = "ready"
     \/ tasks[p][i].at = "spin" /\ p \in watching
  /\ IF tasks[p][i].retries >= MaxRetries
     THEN tasks' = [tasks EXCEPT ![p][i].at = "ended"] /\ watching' = watching \ {p}
     ELSE /\ tasks' = [tasks EXCEPT ![p][i].at = IF p \in watching THEN "await" ELSE "spin"]
          /\ UNCHANGED watching
  /\ UNCHANGED <<now, klines, lastCandle, bot, ccxt, scheduled, refreshed, requested, calls, trouble>>

\* Candles arrive, all of them as long as the subscription lasts; a task that awaits
\* them gets its turn.
Message(p) ==
  /\ ~Spinning
  /\ LET h == ccxt.history[p]
         from == IF p \in ccxt.feeds /\ h # NoCandles THEN Newest(h) ELSE Current
     IN  ccxt' = [feeds |-> ccxt.feeds \cup {p}, history |-> [ccxt.history EXCEPT ![p] = Over(Ticks(from, Current, "partial"), @)]]
  /\ \/ /\ p \in ccxt.feeds /\ \A i \in DOMAIN tasks[p] : ~At(p, i, "await")
        /\ UNCHANGED <<refreshed, tasks>>
     \/ \E i \in DOMAIN tasks[p] : At(p, i, "await")
          /\ refreshed' = [refreshed EXCEPT ![p] = now]
          /\ tasks' = [tasks EXCEPT ![p][i] = [at |-> IF p \in watching THEN "await" ELSE "spin", retries |-> 0]]
  /\ UNCHANGED <<now, klines, lastCandle, bot, watching, scheduled, requested, calls, trouble>>

Failed(t) == IF t.at = "await" THEN [at |-> "ready", retries |-> t.retries + 1] ELSE t

\* The connection is lost: every watch raises, and sleeps before it tries again.
ConnectionLost ==
  /\ ~Spinning /\ trouble < MaxTrouble /\ trouble' = trouble + 1
  /\ ccxt' = [ccxt EXCEPT !.feeds = {}]
  /\ tasks' = [p \in Pairs |-> [i \in DOMAIN tasks[p] |-> Failed(tasks[p][i])]]
  /\ UNCHANGED <<now, klines, lastCandle, bot, watching, scheduled, refreshed, requested, calls>>

\* A watch raises what is no error of ccxt: the task ends, and its pair stays in watching.
WatchBreaks(p, i) ==
  /\ ~Spinning /\ At(p, i, "await") /\ trouble < MaxTrouble /\ trouble' = trouble + 1
  /\ tasks' = [tasks EXCEPT ![p][i].at = "ended"]
  /\ UNCHANGED <<now, klines, lastCandle, bot, ccxt, watching, scheduled, refreshed, requested, calls>>

\* _cleanup_async: ExchangeClosedByUser ends every watch; the history is cleared.
Reset ==
  /\ ~Spinning /\ [what |-> "reset"] \in calls
  /\ calls' = calls \ {[what |-> "reset"]}
  /\ ccxt' = [history |-> [p \in Pairs |-> NoCandles], feeds |-> {}]
  /\ watching' = {p \in watching : \A i \in DOMAIN tasks[p] : ~At(p, i, "await")}
  /\ tasks' = [p \in Pairs |-> [i \in DOMAIN tasks[p] |->
                 IF At(p, i, "await") THEN [tasks[p][i] EXCEPT !.at = "ended"] ELSE tasks[p][i]]]
  /\ UNCHANGED <<now, klines, lastCandle, bot, scheduled, refreshed, requested, trouble>>

\* Mutant: the last refresh is kept.
PopKept(p) == ccxt' = [ccxt EXCEPT !.history[p] = NoCandles] /\ UNCHANGED refreshed

\* What is forgotten of a pair whose task is over.
Pop(p) == Forget({p})

\* _continuous_stopped, the callback of a task that is over
Stopped(p, i) ==
  /\ ~Spinning /\ At(p, i, "ended")
  /\ tasks' = [tasks EXCEPT ![p] = RemoveAt(@, i)]
  /\ scheduled' = scheduled \ {p}
  /\ Pop(p)
  /\ calls' = calls \cup {[what |-> "unwatch", pair |-> p]}
  /\ UNCHANGED <<now, klines, lastCandle, bot, watching, requested, trouble>>

\* _unwatch_ohlcv: a task that has begun to watch the pair again meanwhile gets an error.
Unwatch(p) ==
  /\ ~Spinning /\ [what |-> "unwatch", pair |-> p] \in calls
  /\ calls' = calls \ {[what |-> "unwatch", pair |-> p]}
  /\ ccxt' = [ccxt EXCEPT !.feeds = @ \ {p}]
  /\ tasks' = [tasks EXCEPT ![p] = [i \in DOMAIN @ |-> Failed(@[i])]]
  /\ UNCHANGED <<now, klines, lastCandle, bot, watching, scheduled, refreshed, requested, trouble>>
-----------------------------------------------------------------------------
LoopStep ==
  \/ Schedule \/ Reset
  \/ \E p \in Pairs : Unwatch(p) \/ \E i \in DOMAIN tasks[p] : Turn(p, i) \/ Stopped(p, i)

Next ==
  \/ Tick \/ AskReset \/ ConnectionLost \/ LoopStep
  \/ \E whitelist \in Whitelists : Refresh(whitelist)
  \/ \E p \in Pairs : \/ Build(p) \/ ReadHistory(p) \/ Fetch(p) \/ FetchFails(p) \/ Message(p)
                     \/ \E i \in DOMAIN tasks[p] : WatchBreaks(p, i)

Spec == Init /\ [][Next]_vars

\* The exchange keeps sending candles, and the thread of the loop runs what is ready.
FairSpec == Spec /\ WF_vars(LoopStep) /\ \A p \in Pairs : WF_vars(Message(p))
-----------------------------------------------------------------------------
\* The state has its type.
TypeOK ==
  /\ \A p \in Pairs : DOMAIN klines[p] \subseteq 1..Current /\ lastCandle[p] \in 0..Current
                     /\ Cardinality(DOMAIN klines[p]) <= Limit
  /\ watching \cup scheduled \subseteq Pairs
  /\ ccxt.feeds \subseteq Pairs
  /\ \A p \in Pairs : refreshed[p] <= now /\ requested[p] <= now

\* A candle that is not over never reaches the strategy, whichever way it came and however
\* much time went by, and data arrived, between the choice of the source and the reading
\* of it (get_ohlcv's drop_hint, exchange_ws.py:300, and _process_ohlcv_df).
OnlyFinished == \A p \in Pairs : \A c \in DOMAIN klines[p] : c < Current

\* A pair is watched by one task at most, and its history counts as recent only while there
\* is one, however requests, errors, resets and the callbacks of tasks that end come in
\* between (_schedule_while_true, _continuous_stopped and _pop_history, exchange_ws.py:154).
OneWatcher ==
  \A p \in Pairs : Len(tasks[p]) <= 1 /\ (refreshed[p] > 0 => Len(tasks[p]) = 1)

\* exchange_ws.py:136 says "Remove pairs from watchlist if they've not been requested within
\* the last timeframe (+ offset)": then the task of such a pair comes to its end, or the
\* pair is asked for again.
RemovedIsLetGo ==
  \A p \in Pairs : tasks[p] # <<>> /\ p \notin watching ~> tasks[p] = <<>> \/ p \in watching

\* exchange.py:2692 says "Usable result, candle contains the previous candle.": no candle
\* but the newest is left incomplete or made up.
NoHoles == \A p \in Pairs : \A c \in DOMAIN klines[p] : c < Newest(klines[p]) => klines[p][c] = "final"

\* exchange.py:2824 says "keeping last candle time as last refreshed time of the pair":
\* what it was refreshed up to is there.
RefreshedIsCached ==
  \A p \in Pairs : klines[p] # NoCandles /\ bot = Resting => lastCandle[p] <= Newest(klines[p])
=============================================================================
