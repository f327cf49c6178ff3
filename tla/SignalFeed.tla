----------------------------- MODULE SignalFeed -----------------------------
(***************************************************************************)
(* Producer and consumer mode: a bot publishes its analysed candles on the *)
(* message stream of its REST server (rpc/api_server/ws, api_ws.py), and   *)
(* another one follows it and asks for what it missed                      *)
(* (rpc/external_message_consumer.py, data/dataprovider.py).  Candles are  *)
(* numbers; what was computed for them, and whitelists, are left out.      *)
(***************************************************************************)
EXTENDS Integers, FiniteSets, Sequences, SequencesExt

CONSTANTS
  Pairs,
  Listed,        \* [Pairs -> Nat]: the first candle of each pair
  Start, Stop,   \* the market's first and last candle; a bound
  Full,          \* FULL_DATAFRAME_THRESHOLD
  Limit,         \* the 1500 candles that are asked for and kept
  Publishers,    \* threads that send messages; "worker" analyses
  MaxEvents      \* messages of other threads, connections lost and restarts; a bound

NONE == 0

ASSUME FeedAssumption ==
  /\ IsFiniteSet(Pairs)
  /\ Start \in Nat /\ Stop \in Nat /\ Listed \in [Pairs -> 1..Start]
  /\ Full \in Nat \ {0} /\ Limit \in Nat /\ Limit >= Full
  /\ "worker" \in Publishers /\ MaxEvents \in Nat

VARIABLES
  market,   \* the newest candle of the exchange
  cached,   \* the newest candle analysed of each pair, or NONE
  stream,   \* MessageStream: the waiter, and the futures made so far; each is
            \* pending, or holds a message and the future that follows it
  pub,      \* each publisher's messages and its place in publish
  chan,     \* the producer's end of the connection: the broadcaster's future, its
            \* subscription, and the answer that is being sent
  up, down, \* requests and messages on their way
  cons,     \* the consumer's end: initial requests sent, requests published
  frame,    \* __producer_pairs_df: the candles of each pair
  wanted,   \* a candle that showed a hole, for each pair; what a property needs
  events

vars == <<market, cached, stream, pub, chan, up, down, cons, frame, wanted, events>>

Pending == [msg |-> [type |-> "none"], next |-> NONE]
\* The newest candles of a pair, at most this many.
Newest(p, last, limit) == {c \in Listed[p]..last : c > last - limit}

Df(p, candles) == [type |-> "analyzed_df", pair |-> p, candles |-> candles]
Other == [type |-> "other"]

MaxOf(S) == CHOOSE x \in S : \A y \in S : y <= x
MinOf(S) == CHOOSE x \in S : \A y \in S : x <= y

Idle == [at |-> "idle", msgs |-> <<>>, old |-> NONE, new |-> NONE]
Closed == [open |-> FALSE, at |-> NONE, subscribed |-> FALSE, todo |-> <<>>, last |-> [p \in Pairs |-> NONE]]
NotSending == [sent |-> 0, listening |-> FALSE, out |-> <<>>]
Initial == <<[type |-> "subscribe"], [type |-> "analyzed_df", pairs |-> Pairs, limit |-> Limit]>>

\* The state has its type, and at most so many candles are kept of a pair.
TypeOK ==
  /\ market \in Start..Stop
  /\ \A p \in Pairs : cached[p] \in {NONE} \cup Start..market /\ frame[p] \subseteq Listed[p]..market
                     /\ Cardinality(frame[p]) <= Limit
  /\ stream.waiter \in DOMAIN stream.futures
  /\ \A f \in DOMAIN stream.futures : stream.futures[f].next \in {NONE} \cup DOMAIN stream.futures
  /\ chan.open => chan.at \in DOMAIN stream.futures
  /\ ~chan.open => up = <<>> /\ down = <<>>
  /\ cons.sent \in 0..Len(Initial) /\ (cons.listening => cons.sent = Len(Initial))
-----------------------------------------------------------------------------
(* The producer's threads.  MessageStream.publish runs in the thread that    *)
(* sends, and replaces the waiter without a lock:                            *)
(*   waiter, self._waiter = self._waiter, create_future()                    *)
(*   waiter.set_result((message, time.time(), self._waiter))                 *)

\* Time goes by.
Candle ==
  /\ market < Stop /\ market' = market + 1
  /\ UNCHANGED <<cached, stream, pub, chan, up, down, cons, frame, wanted, events>>

Sends(t, msgs) == pub' = [pub EXCEPT ![t] = [Idle EXCEPT !.at = "send", !.msgs = msgs]]

\* _analyze_ticker_internal of a new candle: _set_cached_df and _emit_df.
Analyze(p) ==
  /\ pub["worker"].at = "idle" /\ cached[p] < market
  /\ cached' = [cached EXCEPT ![p] = market]
  /\ Sends("worker", <<Df(p, {market}), Other>>)
  /\ UNCHANGED <<market, stream, chan, up, down, cons, frame, wanted, events>>

\* Another thread, that of a request, has a message.
SendOther(t) ==
  /\ t # "worker" /\ pub[t].at = "idle"
  /\ events < MaxEvents /\ events' = events + 1
  /\ Sends(t, <<Other>>)
  /\ UNCHANGED <<market, cached, stream, chan, up, down, cons, frame, wanted>>

\* The waiter is read, and another future made.
Take(t) ==
  /\ pub[t].at = "send"
  /\ LET new == Cardinality(DOMAIN stream.futures) + 1 IN
     /\ pub' = [pub EXCEPT ![t] = [@ EXCEPT !.at = "store", !.old = stream.waiter, !.new = new]]
     /\ stream' = [stream EXCEPT !.futures = Append(@, Pending)]
  /\ UNCHANGED <<market, cached, chan, up, down, cons, frame, wanted, events>>

\* It becomes the waiter.
Store(t) ==
  /\ pub[t].at = "store"
  /\ pub' = [pub EXCEPT ![t].at = "set"]
  /\ stream' = [stream EXCEPT !.waiter = pub[t].new]
  /\ UNCHANGED <<market, cached, chan, up, down, cons, frame, wanted, events>>

\* Mutant: a publisher links its message to the future it replaced.
LinkOld(t) == pub[t].old

\* What follows the message: the waiter as it is now.
Link(t) == stream.waiter

\* The old one gets its result, unless it has one: set_result raises, and
\* RPCManager.send_msg logs it.
SetResult(t) ==
  /\ pub[t].at = "set"
  /\ pub' = [pub EXCEPT ![t] = IF Len(pub[t].msgs) = 1 THEN Idle
                               ELSE [Idle EXCEPT !.at = "send", !.msgs = Tail(pub[t].msgs)]]
  /\ stream' = IF stream.futures[pub[t].old] # Pending THEN stream
               ELSE [stream EXCEPT !.futures[pub[t].old] = [msg |-> Head(pub[t].msgs), next |-> Link(t)]]
  /\ UNCHANGED <<market, cached, chan, up, down, cons, frame, wanted, events>>
-----------------------------------------------------------------------------
(* The producer's channel: message_endpoint *)

\* channel_broadcaster: the next message of the stream, if the channel subscribed to it.
Broadcast ==
  /\ chan.open /\ stream.futures[chan.at] # Pending
  /\ LET f == stream.futures[chan.at] IN
     /\ chan' = [chan EXCEPT !.at = f.next,
                 !.last = IF f.msg.type = "analyzed_df" THEN [@ EXCEPT ![f.msg.pair] = MaxOf(f.msg.candles)] ELSE @]
     /\ down' = IF chan.subscribed /\ f.msg # Other THEN Append(down, f.msg) ELSE down
  /\ UNCHANGED <<market, cached, stream, pub, up, cons, frame, wanted, events>>

\* channel_reader: the next request.  Frames are computed as they are sent.
Read ==
  /\ chan.open /\ chan.todo = <<>> /\ up # <<>>
  /\ LET r == Head(up) IN
     chan' = IF r.type = "subscribe" THEN [chan EXCEPT !.subscribed = TRUE]
             ELSE [chan EXCEPT !.todo =
                     [i \in 1..Cardinality(r.pairs) |-> [pair |-> SetToSeq(r.pairs)[i], limit |-> r.limit]]]
  /\ up' = Tail(up)
  /\ UNCHANGED <<market, cached, stream, pub, down, cons, frame, wanted, events>>

\* Mutant: a frame that is shorter than was asked for is not sent.
ReplyWhole(r) ==
  LET candles == IF cached[r.pair] = NONE THEN {} ELSE Newest(r.pair, cached[r.pair], r.limit) IN
  IF Cardinality(candles) < r.limit THEN <<>> ELSE <<Df(r.pair, candles)>>

Reply(r) ==
  <<Df(r.pair, IF cached[r.pair] = NONE THEN {} ELSE Newest(r.pair, cached[r.pair], r.limit))>>

Answer ==
  /\ chan.open /\ chan.todo # <<>>
  /\ down' = down \o Reply(Head(chan.todo))
  /\ chan' = [chan EXCEPT !.todo = Tail(@)]
  /\ UNCHANGED <<market, cached, stream, pub, up, cons, frame, wanted, events>>
-----------------------------------------------------------------------------
(* The consumer *)

\* _create_connection: both ends of a channel, and a stream for requests.
Connect ==
  /\ ~chan.open
  /\ chan' = [Closed EXCEPT !.open = TRUE, !.at = stream.waiter]
  /\ cons' = NotSending
  /\ UNCHANGED <<market, cached, stream, pub, up, down, frame, wanted, events>>

\* _send_requests: first the initial requests,
SendInitial ==
  /\ chan.open /\ cons.sent < Len(Initial)
  /\ cons' = [cons EXCEPT !.sent = @ + 1]
  /\ up' = Append(up, Initial[cons.sent + 1])
  /\ UNCHANGED <<market, cached, stream, pub, chan, down, frame, wanted, events>>

\* then those that are published from now on.
Listen ==
  /\ chan.open /\ cons.sent = Len(Initial) /\ ~cons.listening
  /\ cons' = [cons EXCEPT !.listening = TRUE]
  /\ UNCHANGED <<market, cached, stream, pub, chan, up, down, frame, wanted, events>>

SendRequest ==
  /\ chan.open /\ cons.out # <<>>
  /\ up' = Append(up, Head(cons.out))
  /\ cons' = [cons EXCEPT !.out = Tail(@)]
  /\ UNCHANGED <<market, cached, stream, pub, chan, down, frame, wanted, events>>

\* _add_external_df: the frame after candles were added, and how many are missing.
Kept(f, candles) == {c \in f : c < MinOf(candles)} \cup candles

\* Mutant: one missing candle is not a hole.
GapOff(f, candles) == MinOf(candles) - MaxOf(f) > 2

Gap(f, candles) == MinOf(candles) - MaxOf(f) > 1

AddExternal(f, candles) ==
  IF Cardinality(candles) >= Full THEN [frame |-> candles, missing |-> NONE]
  ELSE IF f = {} THEN [frame |-> f, missing |-> Limit]
  ELSE IF Gap(f, candles) THEN [frame |-> f, missing |-> MinOf(candles) - MaxOf(f)]
  ELSE LET k == Kept(f, candles) IN
       [frame |-> {c \in k : c > MaxOf(k) - Limit}, missing |-> NONE]

\* With an overlap of one, or everything.
Asked(missing) == IF missing + 1 < Full THEN missing + 1 ELSE Limit

\* handle_producer_message.  A request that is published before _send_requests
\* listens is lost.
Handle ==
  /\ chan.open /\ down # <<>>
  /\ down' = Tail(down)
  /\ LET m == Head(down) IN
     \/ m.candles = {} /\ UNCHANGED <<cons, frame, wanted>>
     \/ /\ m.candles # {}
        /\ LET r == AddExternal(frame[m.pair], m.candles) IN
           /\ frame' = [frame EXCEPT ![m.pair] = r.frame]
           /\ cons' = IF r.missing # NONE /\ cons.listening
                      THEN [cons EXCEPT !.out = Append(@, [type |-> "analyzed_df", pairs |-> {m.pair},
                                                           limit |-> Asked(r.missing)])]
                      ELSE cons
           /\ wanted' = [wanted EXCEPT ![m.pair] =
                IF r.missing # NONE /\ cons.listening THEN MaxOf(m.candles)
                ELSE IF MaxOf(r.frame \cup {0}) >= @ THEN NONE ELSE @]
  /\ UNCHANGED <<market, cached, stream, pub, chan, up, events>>
-----------------------------------------------------------------------------
(* Faults *)

\* The connection is lost: a message could not be sent in time, or a ping was not
\* answered; what is under way is gone.
Drops ==
  /\ events < MaxEvents /\ events' = events + 1
  /\ chan' = Closed /\ cons' = NotSending /\ up' = <<>> /\ down' = <<>>
  /\ wanted' = [p \in Pairs |-> NONE]
  /\ UNCHANGED market

Disconnect ==
  /\ chan.open /\ Drops
  /\ UNCHANGED <<cached, stream, pub, frame>>

NewStream == [waiter |-> 1, futures |-> <<Pending>>]

RestartProducer ==
  /\ Drops
  /\ cached' = [p \in Pairs |-> NONE]
  /\ stream' = NewStream /\ pub' = [t \in Publishers |-> Idle]
  /\ UNCHANGED frame

RestartConsumer ==
  /\ Drops
  /\ frame' = [p \in Pairs |-> {}]
  /\ UNCHANGED <<cached, stream, pub>>
-----------------------------------------------------------------------------
Init ==
  /\ market = Start /\ cached = [p \in Pairs |-> NONE]
  /\ stream = NewStream /\ pub = [t \in Publishers |-> Idle]
  /\ chan = Closed /\ up = <<>> /\ down = <<>> /\ cons = NotSending
  /\ frame = [p \in Pairs |-> {}] /\ wanted = [p \in Pairs |-> NONE]
  /\ events = 0

Publish(t) == Take(t) \/ Store(t) \/ SetResult(t)
Next ==
  \/ Candle \/ \E p \in Pairs : Analyze(p)
  \/ \E t \in Publishers : SendOther(t) \/ Publish(t)
  \/ Broadcast \/ Read \/ Answer
  \/ Connect \/ SendInitial \/ Listen \/ SendRequest \/ Handle
  \/ Disconnect \/ RestartProducer \/ RestartConsumer

\* Threads and tasks go on.
Fairness ==
  /\ \A p \in Pairs : WF_vars(Analyze(p))
  /\ \A t \in Publishers : WF_vars(Publish(t))
  /\ WF_vars(Broadcast) /\ WF_vars(Read) /\ WF_vars(Answer)
  /\ WF_vars(Connect) /\ WF_vars(SendInitial) /\ WF_vars(Listen) /\ WF_vars(SendRequest)
  /\ WF_vars(Handle)

Spec == Init /\ [][Next]_vars
FairSpec == Spec /\ Fairness
-----------------------------------------------------------------------------
(* Properties *)

\* Whatever is lost, late or out of order, the consumer's candles have no hole.
NoHoles == \A p \in Pairs : \A c, d \in frame[p] : c..d \subseteq frame[p]

\* A channel gets each candle that is broadcast at most once, and in the order of the
\* worker's analyses, however the publishers interleave.
InOrder ==
  [][LET m == stream.futures[chan.at].msg IN
     Broadcast /\ m.type = "analyzed_df" => MaxOf(m.candles) > chan.last[m.pair]]_vars

\* A hole that was seen stays asked for until it is filled: the request, or an answer
\* to it, is under way, however many candles come meanwhile.
HolesAskedFor ==
  \A p \in Pairs : wanted[p] # NONE =>
    \/ \E r \in ToSet(cons.out) : p \in r.pairs
    \/ \E r \in ToSet(up) : r.type = "analyzed_df" /\ p \in r.pairs
    \/ \E r \in ToSet(chan.todo) : r.pair = p
    \/ \E m \in ToSet(down) : m.pair = p /\ m.candles # {} /\ MaxOf(m.candles) >= wanted[p]

\* docs/producer-consumer.md: "A consumer instance will then have a full copy of the
\* analyzed dataframes"; of a pair the producer has analysed, the consumer has candles.
HasCopy ==
  <>[](chan.open) => \A p \in Pairs : <>(frame[p] # {})

\* api_ws.py, channel_broadcaster: "Iterate over messages in the message stream and
\* send them": the future a channel waits for will get a message.
NeverDeaf ==
  chan.open /\ stream.futures[chan.at] = Pending =>
    \/ chan.at = stream.waiter
    \/ \E t \in Publishers : pub[t].at # "idle" /\ chan.at = pub[t].old
=============================================================================
