----------------------------- MODULE BotControl -----------------------------
(***************************************************************************)
(* Who runs when: the worker thread and its state machine (worker.py,      *)
(* FreqtradeBot.process), the operator's requests, which Telegram and the  *)
(* REST server run in threads of their own (rpc.py), FreqtradeBot._exit_lock*)
(* between them, and what they do to the set of open trades.               *)
(*                                                                         *)
(* What a handler does to one trade is module TradeLifecycle's; here a     *)
(* handler opens or closes trades, and what matters is which thread is in  *)
(* one, what it read before it got there, and whether it holds the lock.   *)
(***************************************************************************)
EXTENDS Integers, FiniteSets

CONSTANTS
  Pairs,              \* the whitelist
  Ids,                \* bound: trades of one pair are told apart by these
  Clients,            \* threads that run requests
  Worker, Nobody,
  NoTrade,            \* what a request that concerns no trade holds
  Requests,           \* the requests the operator makes
  MaxOpenTrades,      \* max_open_trades
  InitialState,       \* initial_state, "none" if the configuration has none
  PositionAdjustment  \* position_adjustment_enable

AllRequests == {"start", "stop", "pause", "reload_config", "forceenter", "forceexit",
                "cancel_open_order", "delete", "reload_trade"}

BotStates == {"STOPPED", "RUNNING", "PAUSED", "RELOAD_CONFIG"}

ASSUME ControlAssumption ==
  /\ MaxOpenTrades \in Nat
  /\ InitialState \in {"STOPPED", "RUNNING", "PAUSED", "none"}
  /\ PositionAdjustment \in BOOLEAN
  /\ Requests \subseteq AllRequests
  /\ IsFiniteSet(Clients) /\ Worker \notin Clients /\ Nobody \notin Clients \cup {Worker}
  /\ NoTrade \notin [pair : Pairs, id : Ids]

VARIABLES
  state,   \* FreqtradeBot.state
  lock,    \* the thread that holds _exit_lock
  worker,  \* the worker thread
  client,  \* the request each client runs
  trades,  \* the open trades
  halted,  \* an OperationalException stopped the bot, and no request since asked for more
  new      \* this bot object has not been through startup

vars == <<state, lock, worker, client, trades, halted, new>>

Trade == [pair : Pairs, id : Ids]

WorkerAt == {"construct", "ready", "read", "startup", "stopped", "refresh", "wait",
             "manage", "enter", "cleanup", "join"}

ClientAt == {"idle", "pauseStopped", "lookup", "wantEntry", "entering", "wantExit", "exiting",
             "deleting"} \cup AllRequests

Idle == [at |-> "idle", trade |-> NoTrade]

\* The type of the state.
TypeOK ==
  /\ state \in BotStates
  /\ lock \in Clients \cup {Worker, Nobody}
  /\ worker \in [at : WorkerAt, old : BotStates \cup {"none"}, todo : SUBSET Pairs]
  /\ client \in [Clients -> [at : ClientAt, trade : Trade \cup {NoTrade}]]
  /\ trades \in SUBSET Trade
  /\ halted \in BOOLEAN /\ new \in BOOLEAN
-----------------------------------------------------------------------------
(* The worker *)

Goto(l)  == worker' = [worker EXCEPT !.at = l]
PairsOf(s) == {t.pair : t \in s}

\* An id for a new trade: no open trade has it, and no request holds it.
Fresh(t) == t \notin trades /\ \A c \in Clients : client[c].trade # t

\* get_free_open_trades
FreeSlot == Cardinality(trades) < MaxOpenTrades

\* FreqtradeBot.__init__ up to RPCManager: from here on requests are served.
Construct ==
  /\ worker.at = "construct"
  /\ state' = "STOPPED" /\ Goto("ready")
  /\ lock' = Nobody /\ new' = TRUE /\ halted' = FALSE
  /\ UNCHANGED <<client, trades>>

Initial == IF InitialState = "none" THEN "STOPPED" ELSE InitialState

\* The rest of __init__, which sets the initial state.
SetInitialState ==
  /\ worker.at = "ready"
  /\ state' = Initial /\ Goto("read")
  /\ UNCHANGED <<lock, client, trades, halted, new>>

Started(s) == s \in {"RUNNING", "PAUSED"}

\* Mutant: startup runs in the first iteration only.
StartsUpOnce(old) == old = "none"

\* When a started bot is one that has to start up.
StartsUp(old) == ~Started(old)

\* Mutant: a reload is handled like a stop.
RunForgetsReload(s) == IF Started(s) THEN "refresh" ELSE "stopped"

\* What _worker does in the state it read.
Run(s) ==
  IF s = "RELOAD_CONFIG" THEN "cleanup"
  ELSE IF Started(s) THEN "refresh" ELSE "stopped"

\* _worker reads the state once; run passes the state it returned as old_state.
ReadState ==
  /\ worker.at = "read"
  /\ worker' = [worker EXCEPT !.old = state,
                              !.at = IF Started(state) /\ StartsUp(worker.old)
                                     THEN "startup" ELSE Run(state)]
  /\ UNCHANGED <<state, lock, client, trades, halted, new>>

\* startup, and cancel_all_open_orders of process_stopped and of cleanup, close
\* or delete trades without the lock.
Unlocked(l, next) ==
  /\ worker.at = l
  /\ Goto(next)
  /\ trades' \in SUBSET trades
  /\ new' = (new /\ l # "startup")
  /\ UNCHANGED <<state, lock, client, halted>>

Startup        == Unlocked("startup", "refresh")
ProcessStopped == Unlocked("stopped", "read")
Cleanup        == Unlocked("cleanup", "join")

\* rpc.cleanup joins the threads of the clients; then a new bot is built, with
\* a lock of its own.
Join ==
  /\ worker.at = "join"
  /\ \A c \in Clients : client[c] = Idle
  /\ Goto("construct")
  /\ UNCHANGED <<state, lock, client, trades, halted, new>>

\* process up to the lock.  For the fees of open trades it takes the lock for
\* a while, and update_trade_state may close them.
Refresh ==
  /\ worker.at = "refresh"
  /\ Goto("wait")
  /\ \/ trades' = trades
     \/ lock \in {Nobody, Worker} /\ trades' \in SUBSET trades
  /\ UNCHANGED <<state, lock, client, halted, new>>

Acquire ==
  /\ worker.at = "wait" /\ lock \in {Nobody, Worker}
  /\ lock' = Worker /\ Goto("manage")
  /\ UNCHANGED <<state, client, trades, halted, new>>

\* manage_open_orders, exit_positions, process_open_trade_positions
CloseTrade(t) ==
  /\ worker.at = "manage"
  /\ trades' = trades \ {t}
  /\ UNCHANGED <<state, lock, worker, client, halted, new>>

\* Mutant: pairs with an open trade stay in the whitelist.
WholeWhitelist == Pairs

\* enter_positions: pairs with an open trade are taken out once.
Whitelist == Pairs \ PairsOf(trades)

\* Release the lock, sleep, and start over.
EndIteration ==
  /\ lock' = Nobody
  /\ worker' = [worker EXCEPT !.at = "read", !.todo = {}]

\* Mutant: a paused bot enters too.
EntersPaused == Started(state) /\ FreeSlot

\* When process goes on to enter_positions.
Enters == state = "RUNNING" /\ FreeSlot

EnterPositions ==
  /\ worker.at = "manage"
  /\ IF Enters
     THEN worker' = [worker EXCEPT !.at = "enter", !.todo = Whitelist] /\ lock' = lock
     ELSE EndIteration
  /\ UNCHANGED <<state, client, trades, halted, new>>

\* Mutant: the slots are counted before the loop only.
CreateTradeUnchecked(p) ==
  /\ worker.at = "enter" /\ p \in worker.todo
  /\ worker' = [worker EXCEPT !.todo = worker.todo \ {p}]
  /\ \E t \in Trade : t.pair = p /\ Fresh(t) /\ trades' = trades \cup {t}
  /\ UNCHANGED <<state, lock, client, halted, new>>

\* create_trade: no signal, no free slot, a lock, or a failed order: no trade.
CreateTrade(p) ==
  /\ worker.at = "enter" /\ p \in worker.todo
  /\ worker' = [worker EXCEPT !.todo = worker.todo \ {p}]
  /\ \/ trades' = trades
     \/ FreeSlot /\ \E t \in Trade : t.pair = p /\ Fresh(t) /\ trades' = trades \cup {t}
  /\ UNCHANGED <<state, lock, client, halted, new>>

EndProcess ==
  /\ worker.at = "enter" /\ worker.todo = {}
  /\ EndIteration
  /\ UNCHANGED <<state, client, trades, halted, new>>

\* Mutant: the lock is not given back.
LeaveLocked == Goto("read") /\ lock' = lock

\* The way out of process when it raises: the with statement releases the lock.
Leave == IF lock = Worker THEN EndIteration ELSE Goto("read") /\ lock' = lock

\* A TemporaryError is retried, an OperationalException stops the bot.
Raise ==
  /\ worker.at \in {"refresh", "manage", "enter"}
  /\ Leave
  /\ \/ UNCHANGED <<state, halted>>
     \/ state' = "STOPPED" /\ halted' = TRUE
  /\ UNCHANGED <<client, trades, new>>
-----------------------------------------------------------------------------
(* Requests *)

Serving == worker.at \notin {"construct", "join"}

Step(c, l)  == client' = [client EXCEPT ![c].at = l]
Reply(c)    == client' = [client EXCEPT ![c] = Idle]
Calm        == UNCHANGED <<worker, halted, new>>

Request(c, r) ==
  /\ Serving /\ client[c] = Idle
  /\ Step(c, r)
  /\ UNCHANGED <<state, lock, trades>> /\ Calm

\* _rpc_start, _rpc_stop, _rpc_reload_config: one assignment.
SetState(c) ==
  /\ \/ client[c].at = "start" /\ state' = "RUNNING"
     \/ client[c].at = "stop" /\ state' = "STOPPED"
     \/ client[c].at = "reload_config" /\ state' = "RELOAD_CONFIG"
  /\ halted' = FALSE
  /\ Reply(c)
  /\ UNCHANGED <<lock, worker, trades, new>>

\* _rpc_pause: two tests, one after the other.
Pause(c) ==
  /\ client[c].at = "pause"
  /\ state' = IF state = "RUNNING" THEN "PAUSED" ELSE state
  /\ halted' = FALSE
  /\ Step(c, "pauseStopped")
  /\ UNCHANGED <<lock, worker, trades, new>>

PauseStopped(c) ==
  /\ client[c].at = "pauseStopped"
  /\ state' = IF state = "STOPPED" THEN "PAUSED" ELSE state
  /\ Reply(c)
  /\ UNCHANGED <<lock, trades>> /\ Calm

\* _force_entry_validations
ForceEntry(c) ==
  /\ client[c].at = "forceenter"
  /\ IF state = "RUNNING" THEN Step(c, "lookup") ELSE Reply(c)
  /\ UNCHANGED <<state, lock, trades>> /\ Calm

\* Mutant: the number of open trades is not looked at.
LookupUnlimited(c) ==
  /\ client[c].at = "lookup"
  /\ \/ Reply(c)
     \/ \E t \in Trade : Fresh(t) /\ client' = [client EXCEPT ![c] = [at |-> "wantEntry", trade |-> t]]
  /\ UNCHANGED <<state, lock, trades>> /\ Calm

\* _rpc_force_entry looks at the trades of the pair, or counts all open ones,
\* and takes the lock only then.
Lookup(c) ==
  /\ client[c].at = "lookup"
  /\ \/ Reply(c)
     \/ \E t \in Trade :
          /\ \/ t \in trades /\ PositionAdjustment
             \/ t.pair \notin PairsOf(trades) /\ Fresh(t) /\ FreeSlot
          /\ client' = [client EXCEPT ![c] = [at |-> "wantEntry", trade |-> t]]
  /\ UNCHANGED <<state, lock, trades>> /\ Calm

\* _rpc_force_exit and _rpc_cancel_open_order look at the state before they
\* wait for the lock, _rpc_delete does not.
CheckRunning(c) ==
  /\ client[c].at \in {"forceexit", "cancel_open_order"}
  /\ IF state = "STOPPED" THEN Reply(c) ELSE Step(c, "wantExit")
  /\ UNCHANGED <<state, lock, trades>> /\ Calm

Locking == {<<"wantEntry", "entering">>, <<"wantExit", "exiting">>, <<"delete", "deleting">>}

TakeLock(c) ==
  /\ lock = Nobody
  /\ \E l \in Locking : client[c].at = l[1] /\ Step(c, l[2])
  /\ lock' = c
  /\ UNCHANGED <<state, trades>> /\ Calm

\* Mutant: a forced entry keeps the lock.
EnterLocked(c) ==
  /\ client[c].at = "entering"
  /\ trades' \in {trades, trades \cup {client[c].trade}}
  /\ lock' = lock /\ Reply(c)
  /\ UNCHANGED state /\ Calm

\* execute_entry; for a trade it found it sets is_open, whatever became of it.
Enter(c) ==
  /\ client[c].at = "entering"
  /\ trades' \in {trades, trades \cup {client[c].trade}}
  /\ lock' = Nobody /\ Reply(c)
  /\ UNCHANGED state /\ Calm

\* __exec_force_exit, handle_cancel_order, Trade.delete: a trade may close, and
\* several where "all" are exited.
Exit(c) ==
  /\ \/ client[c].at = "exiting" /\ trades' \in SUBSET trades
     \/ client[c].at = "deleting" /\ (trades' = trades \/ \E t \in trades : trades' = trades \ {t})
  /\ lock' = Nobody /\ Reply(c)
  /\ UNCHANGED state /\ Calm

\* _rpc_reload_trade_from_exchange: no lock; the trade may close.
ReloadTrade(c) ==
  /\ client[c].at = "reload_trade"
  /\ \/ trades' = trades
     \/ \E t \in trades : trades' = trades \ {t}
  /\ Reply(c)
  /\ UNCHANGED <<state, lock>> /\ Calm
-----------------------------------------------------------------------------
Init ==
  /\ state = "STOPPED"
  /\ lock = Nobody
  /\ worker = [at |-> "construct", old |-> "none", todo |-> {}]
  /\ client = [c \in Clients |-> Idle]
  /\ trades = {}
  /\ halted = FALSE /\ new = TRUE

Work ==
  \/ Construct \/ SetInitialState \/ ReadState \/ Startup \/ ProcessStopped
  \/ Cleanup \/ Join \/ Refresh \/ Acquire \/ EnterPositions \/ EndProcess \/ Raise
  \/ \E p \in Pairs : CreateTrade(p)
  \/ \E t \in trades : CloseTrade(t)

Serve(c) ==
  \/ SetState(c) \/ Pause(c) \/ PauseStopped(c) \/ ForceEntry(c) \/ Lookup(c)
  \/ CheckRunning(c) \/ TakeLock(c) \/ Enter(c) \/ Exit(c) \/ ReloadTrade(c)

Next == Work \/ \E c \in Clients : Serve(c) \/ \E r \in Requests : Request(c, r)

Spec == Init /\ [][Next]_vars

\* Every thread keeps running; a thread that waits for the lock gets it.
FairSpec ==
  /\ Spec
  /\ WF_vars(Work) /\ SF_vars(Acquire)
  /\ \A c \in Clients : WF_vars(Serve(c)) /\ SF_vars(TakeLock(c))
-----------------------------------------------------------------------------
(* Properties *)

Slots == INSTANCE TradeSlots WITH
  Trades <- Trade, Pair <- [t \in Trade |-> t.pair]

\* However the iterations of the worker, forced exits, deletions, reloads and
\* the handlers that run without the lock interleave, what they do to the open
\* trades is to open one the limit and the pair allow, or to close some: the
\* whitelist that enter_positions reads once stays good for its whole loop.
KeepsSlots == Slots!Spec

\* max_open_trades holds: free slots are counted again for each pair.
WithinLimit == Slots!WithinLimit

\* There is one open trade per pair.
OnePerPair == Slots!OnePerPair

\* Forced entries look at the limit before they wait for the lock, so each
\* request thread can overshoot it by one trade, and no more than that.
OvershootBounded == Cardinality(trades) <= MaxOpenTrades + Cardinality(Clients)

\* The worker of a bot that was just built, by the first start or by a reload, has
\* run startup (which brings its open orders up to date) before it trades.  A request
\* may be served before.
StartsUpFirst == new => worker.at \notin {"refresh", "wait", "manage", "enter"}

\* A bot that an OperationalException stopped stays so until it is asked to
\* go on: "Issue `/start` if you think it is safe to restart."
StaysHalted == halted => state = "STOPPED"

\* Once a pause is answered, no trade is opened while the bot is paused: "no
\* more entries will occur from now."
NoEntryWhilePaused ==
  [][state = "PAUSED" /\ (\A c \in Clients : client[c].at # "pauseStopped")
     => trades' \subseteq trades]_vars

\* A bot that stays paused opens no more trades from some moment on.
PausedBecomesQuiet ==
  <>[](state = "PAUSED") => <>[][trades' \subseteq trades]_trades

\* The initial state of the configuration overwrites no request: the comment
\* before RPCManager wants it to be set when requests are first served.
RequestsKept ==
  [][worker.at = "ready" /\ worker'.at = "read" => state \in {"STOPPED", state'}]_vars

Handlers ==
  {c \in Clients : client[c].at \in {"entering", "exiting", "deleting", "reload_trade"}}

\* While process is in its locked part, no other thread is in a handler that
\* changes trades: "All trade mutations within a single process cycle must be
\* atomic".
ProcessAlone == worker.at \in {"manage", "enter"} => Handlers = {}

\* A request for a reload, made once the initial state is set, leads to a new bot,
\* if no other request takes its place and no error stops the bot: the handlers it
\* interrupts end, and so do the requests that cleanup waits for.
ReloadHappens ==
  state = "RELOAD_CONFIG" /\ worker.at # "ready" ~> worker.at = "construct" \/ state # "RELOAD_CONFIG"

\* A request for a reload leads to a new bot: "Reloading config ..."
ReloadAlwaysHappens == state = "RELOAD_CONFIG" ~> worker.at = "construct"

\* The worker never hangs: not on the lock, nor on the request threads that a
\* reload waits for while they wait for the lock.
WorkerGoesOn == []<>(worker.at = "read")

\* Every request is answered, those that wait for the lock too.
RequestsAnswered == \A c \in Clients : client[c] # Idle ~> client[c] = Idle
=============================================================================
