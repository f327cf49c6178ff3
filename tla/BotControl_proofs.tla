-------------------------- MODULE BotControl_proofs --------------------------
(***************************************************************************)
(* Proofs about BotControl for any whitelist, any number of request        *)
(* threads and any limit: the type invariant; that a bot nobody forces     *)
(* into trades implements TradeSlots; and from that alone, that it keeps   *)
(* max_open_trades and one trade per pair.                                 *)
(***************************************************************************)
EXTENDS BotControl, FiniteSetTheorems, TLAPS

\* The requests of the clients are those the configuration lets them make.
ClientType == [at : ClientAt, trade : Trade \cup {NoTrade}]

LEMMA IdleType == Idle \in ClientType
  BY DEF Idle, ClientType, ClientAt

\* Moving a client on keeps the type of all of them.
LEMMA StepType ==
  ASSUME TypeOK, NEW c \in Clients, NEW l \in ClientAt, Step(c, l)
  PROVE  client' \in [Clients -> ClientType]
  BY DEF TypeOK, Step, ClientType

LEMMA ReplyType ==
  ASSUME TypeOK, NEW c \in Clients, Reply(c)
  PROVE  client' \in [Clients -> ClientType]
  BY IdleType DEF TypeOK, Reply, ClientType

LEMMA GotoType ==
  ASSUME TypeOK, NEW l \in WorkerAt, Goto(l)
  PROVE  worker' \in [at : WorkerAt, old : BotStates \cup {"none"}, todo : SUBSET Pairs]
  BY DEF TypeOK, Goto

WorkerType == [at : WorkerAt, old : BotStates \cup {"none"}, todo : SUBSET Pairs]

\* The worker's steps keep the types.
LEMMA WorkTypes ==
  ASSUME TypeOK, Work
  PROVE  TypeOK'
<1> USE DEF TypeOK, WorkerType
<1>1. CASE Construct
  BY <1>1, GotoType DEF Construct, WorkerAt, BotStates
<1>2. CASE SetInitialState
  <2>1. Initial \in BotStates
    BY ControlAssumption DEF Initial, BotStates
  <2> QED BY <1>2, <2>1, GotoType DEF SetInitialState, WorkerAt
<1>3. CASE ReadState
  <2>1. Run(state) \in WorkerAt
    BY DEF Run, WorkerAt
  <2> QED BY <1>3, <2>1 DEF ReadState, WorkerAt
<1>4. CASE Startup \/ ProcessStopped \/ Cleanup
  BY <1>4, GotoType DEF Startup, ProcessStopped, Cleanup, Unlocked, WorkerAt
<1>5. CASE Join
  BY <1>5, GotoType DEF Join, WorkerAt
<1>6. CASE Refresh
  BY <1>6, GotoType DEF Refresh, WorkerAt
<1>7. CASE Acquire
  BY <1>7, GotoType DEF Acquire, WorkerAt
<1>8. CASE EnterPositions
  <2>1. Whitelist \in SUBSET Pairs
    BY DEF Whitelist
  <2> QED BY <1>8, <2>1 DEF EnterPositions, EndIteration, WorkerAt
<1>9. CASE EndProcess
  BY <1>9 DEF EndProcess, EndIteration, WorkerAt
<1>10. CASE Raise
  BY <1>10, GotoType DEF Raise, Leave, EndIteration, WorkerAt, BotStates
<1>11. ASSUME NEW p \in Pairs, CreateTrade(p) PROVE TypeOK'
  BY <1>11 DEF CreateTrade
<1>12. ASSUME NEW t \in trades, CloseTrade(t) PROVE TypeOK'
  BY <1>12 DEF CloseTrade
<1> QED
  BY <1>1, <1>2, <1>3, <1>4, <1>5, <1>6, <1>7, <1>8, <1>9, <1>10, <1>11, <1>12 DEF Work

\* A forced entry that got past the lookup holds the trade it is about.
HoldsTrade ==
  \A c \in Clients : client[c].at \in {"wantEntry", "entering"} => client[c].trade \in Trade

\* The steps of a request keep the types.
LEMMA ServeTypes ==
  ASSUME TypeOK, HoldsTrade, NEW c \in Clients, Serve(c)
  PROVE  TypeOK'
<1> USE DEF TypeOK, Calm
<1>1. CASE SetState(c)
  BY <1>1, ReplyType DEF SetState, ClientType, BotStates
<1>2. CASE Pause(c)
  BY <1>2, StepType DEF Pause, ClientType, ClientAt, BotStates
<1>3. CASE PauseStopped(c)
  BY <1>3, ReplyType DEF PauseStopped, ClientType, BotStates
<1>4. CASE ForceEntry(c)
  BY <1>4, ReplyType, StepType DEF ForceEntry, ClientType, ClientAt
<1>5. CASE Lookup(c)
  BY <1>5, ReplyType DEF Lookup, ClientType, ClientAt
<1>6. CASE CheckRunning(c)
  BY <1>6, ReplyType, StepType DEF CheckRunning, ClientType, ClientAt
<1>7. CASE TakeLock(c)
  <2>1. PICK l \in Locking : Step(c, l[2])
    BY <1>7 DEF TakeLock
  <2>2. l[2] \in ClientAt
    BY DEF Locking, ClientAt
  <2> QED BY <1>7, <2>1, <2>2, StepType DEF TakeLock, ClientType
<1>8. CASE Enter(c)
  <2>1. client[c].trade \in Trade
    BY <1>8 DEF Enter, HoldsTrade
  <2> QED BY <1>8, <2>1, ReplyType DEF Enter, ClientType
<1>9. CASE Exit(c)
  BY <1>9, ReplyType DEF Exit, ClientType
<1>10. CASE ReloadTrade(c)
  BY <1>10, ReplyType DEF ReloadTrade, ClientType
<1> QED
  BY <1>1, <1>2, <1>3, <1>4, <1>5, <1>6, <1>7, <1>8, <1>9, <1>10 DEF Serve

LEMMA RequestTypes ==
  ASSUME TypeOK, NEW c \in Clients, NEW r \in Requests, Request(c, r)
  PROVE  TypeOK'
<1>1. r \in ClientAt
  BY ControlAssumption DEF ClientAt
<1> QED BY <1>1, StepType DEF Request, Calm, TypeOK, ClientType

LEMMA HoldsTradeKept ==
  ASSUME TypeOK, HoldsTrade, [Next]_vars
  PROVE  HoldsTrade'
<1> SUFFICES ASSUME NEW d \in Clients, client'[d].at \in {"wantEntry", "entering"}
             PROVE  client'[d].trade \in Trade
  BY DEF HoldsTrade
<1> USE DEF HoldsTrade, TypeOK, Idle
<1>1. CASE UNCHANGED client
  BY <1>1
<1>2. ASSUME NEW c \in Clients, NEW r \in Requests, Request(c, r)
      PROVE  client'[d].trade \in Trade
  BY <1>2, ControlAssumption DEF Request, Step, AllRequests
<1>3. ASSUME NEW c \in Clients, Serve(c)
      PROVE  client'[d].trade \in Trade
  <2> USE DEF Step, Reply
  <2>1. CASE SetState(c) \/ Pause(c) \/ PauseStopped(c) \/ ForceEntry(c) \/ CheckRunning(c)
    BY <2>1 DEF SetState, Pause, PauseStopped, ForceEntry, CheckRunning
  <2>2. CASE Lookup(c)
    BY <2>2 DEF Lookup
  <2>3. CASE TakeLock(c)
    BY <2>3 DEF TakeLock, Locking
  <2>4. CASE Enter(c) \/ Exit(c) \/ ReloadTrade(c)
    BY <2>4 DEF Enter, Exit, ReloadTrade
  <2> QED BY <1>3, <2>1, <2>2, <2>3, <2>4 DEF Serve
<1>4. Work => UNCHANGED client
  BY DEF Work, Construct, SetInitialState, ReadState, Startup, ProcessStopped, Cleanup,
         Unlocked, Join, Refresh, Acquire, EnterPositions, EndProcess, Raise, CreateTrade,
         CloseTrade
<1> QED BY <1>1, <1>2, <1>3, <1>4 DEF Next, vars

\* The types of BotControl's variables hold throughout: the state machine of the
\* worker has no state but those _worker knows, and a request only ever holds a
\* trade that can exist.
THEOREM ControlTyped == Spec => [](TypeOK /\ HoldsTrade)
<1>1. Init => TypeOK /\ HoldsTrade
  <2> SUFFICES ASSUME Init PROVE TypeOK /\ HoldsTrade
    OBVIOUS
  <2>1. client \in [Clients -> ClientType]
    BY IdleType DEF Init
  <2>2. \A c \in Clients : client[c].at = "idle"
    BY DEF Init, Idle
  <2> QED BY <2>1, <2>2 DEF Init, TypeOK, HoldsTrade, ClientType, WorkerAt, BotStates
<1>2. TypeOK /\ HoldsTrade /\ [Next]_vars => TypeOK' /\ HoldsTrade'
  <2> SUFFICES ASSUME TypeOK, HoldsTrade, [Next]_vars PROVE TypeOK'
    BY HoldsTradeKept
  <2>1. CASE UNCHANGED vars
    BY <2>1 DEF vars, TypeOK
  <2> QED BY <2>1, WorkTypes, ServeTypes, RequestTypes DEF Next
<1> QED BY <1>1, <1>2, PTL DEF Spec

-----------------------------------------------------------------------------
(* Without forced entries, BotControl implements TradeSlots.               *)

\* No request is one to open a trade.
NothingForced ==
  \A c \in Clients : client[c].at \notin {"forceenter", "lookup", "wantEntry", "entering"}

\* The pairs enter_positions has still to go through have no open trade.
WhitelistFree ==
  worker.at = "enter" => worker.todo \cap PairsOf(trades) = {}

LEMMA NothingForcedKept ==
  ASSUME "forceenter" \notin Requests, TypeOK, NothingForced, [Next]_vars
  PROVE  NothingForced'
<1> SUFFICES ASSUME NEW d \in Clients
             PROVE  client'[d].at \notin {"forceenter", "lookup", "wantEntry", "entering"}
  BY DEF NothingForced
<1> USE DEF NothingForced, TypeOK, Idle
<1>1. CASE UNCHANGED client
  BY <1>1
<1>2. ASSUME NEW c \in Clients, NEW r \in Requests, Request(c, r)
      PROVE  client'[d].at \notin {"forceenter", "lookup", "wantEntry", "entering"}
  BY <1>2, ControlAssumption DEF Request, Step, AllRequests
<1>3. ASSUME NEW c \in Clients, Serve(c)
      PROVE  client'[d].at \notin {"forceenter", "lookup", "wantEntry", "entering"}
  <2> USE DEF Step, Reply
  <2>1. CASE SetState(c) \/ Pause(c) \/ PauseStopped(c) \/ CheckRunning(c)
    BY <2>1 DEF SetState, Pause, PauseStopped, CheckRunning
  <2>2. CASE ForceEntry(c) \/ Lookup(c) \/ Enter(c)
    BY <2>2 DEF ForceEntry, Lookup, Enter
  <2>3. CASE TakeLock(c)
    BY <2>3 DEF TakeLock, Locking
  <2>4. CASE Exit(c) \/ ReloadTrade(c)
    BY <2>4 DEF Exit, ReloadTrade
  <2> QED BY <1>3, <2>1, <2>2, <2>3, <2>4 DEF Serve
<1>4. Work => UNCHANGED client
  BY DEF Work, Construct, SetInitialState, ReadState, Startup, ProcessStopped, Cleanup,
         Unlocked, Join, Refresh, Acquire, EnterPositions, EndProcess, Raise, CreateTrade,
         CloseTrade
<1> QED BY <1>1, <1>2, <1>3, <1>4 DEF Next, vars

\* A request opens no trade, and leaves the worker alone.
LEMMA RequestsOnlyClose ==
  ASSUME NothingForced, NEW c \in Clients, Serve(c)
  PROVE  trades' \subseteq trades /\ worker' = worker
<1> USE DEF NothingForced, Calm
<1>1. ~ForceEntry(c) /\ ~Lookup(c) /\ ~Enter(c)
  BY DEF ForceEntry, Lookup, Enter
<1>2. CASE SetState(c) \/ Pause(c) \/ PauseStopped(c) \/ CheckRunning(c) \/ TakeLock(c)
  BY <1>2 DEF SetState, Pause, PauseStopped, CheckRunning, TakeLock
<1>3. CASE Exit(c) \/ ReloadTrade(c)
  BY <1>3 DEF Exit, ReloadTrade
<1> QED BY <1>1, <1>2, <1>3 DEF Serve

\* The worker opens trades in create_trade only.
LEMMA WorkerOpens ==
  ASSUME TypeOK, Work
  PROVE  \/ trades' \subseteq trades
         \/ \E p \in Pairs : CreateTrade(p)
  BY DEF Work, Construct, SetInitialState, ReadState, Startup, ProcessStopped, Cleanup,
         Unlocked, Join, Refresh, Acquire, EnterPositions, EndProcess, Raise, CloseTrade

LEMMA WhitelistFreeKept ==
  ASSUME TypeOK, NothingForced, WhitelistFree, [Next]_vars
  PROVE  WhitelistFree'
<1> USE DEF WhitelistFree, PairsOf
<1>1. CASE trades' \subseteq trades /\ worker' = worker
  BY <1>1
<1>2. ASSUME NEW c \in Clients, Serve(c) PROVE WhitelistFree'
  BY <1>1, <1>2, RequestsOnlyClose
<1>3. ASSUME NEW c \in Clients, NEW r \in Requests, Request(c, r) PROVE WhitelistFree'
  BY <1>1, <1>3 DEF Request, Calm
<1>4. ASSUME Work PROVE WhitelistFree'
  <2>1. CASE EnterPositions
    BY <2>1 DEF EnterPositions, EndIteration, Whitelist, TypeOK
  <2>2. ASSUME NEW p \in Pairs, CreateTrade(p) PROVE WhitelistFree'
    <3>1. worker'.at = "enter" /\ worker'.todo = worker.todo \ {p}
      BY <2>2 DEF CreateTrade, TypeOK
    <3>2. \A t \in trades' : t \in trades \/ t.pair = p
      BY <2>2 DEF CreateTrade
    <3> QED BY <2>2, <3>1, <3>2 DEF CreateTrade
  <2>3. ASSUME NEW t \in trades, CloseTrade(t) PROVE WhitelistFree'
    BY <1>1, <2>3 DEF CloseTrade
  <2>4. CASE \/ Construct \/ SetInitialState \/ ReadState \/ Startup \/ ProcessStopped
             \/ Cleanup \/ Join \/ Refresh \/ Acquire \/ EndProcess \/ Raise
    <3>1. worker'.at # "enter"
      BY <2>4, TypeOK DEF TypeOK, Construct, SetInitialState, ReadState, Startup,
         ProcessStopped, Cleanup, Unlocked, Join, Refresh, Acquire, EndProcess, Raise,
         Leave, EndIteration, Goto, Run
    <3> QED BY <3>1
  <2> QED BY <1>4, <2>1, <2>2, <2>3, <2>4 DEF Work
<1> QED BY <1>1, <1>2, <1>3, <1>4 DEF Next, vars

\* TradeSlots counts as BotControl does.
LEMMA SameCardinality == \A S : Slots!Cardinality(S) = Cardinality(S)
  BY Zenon DEF Cardinality, Slots!Cardinality

\* Every step is one of TradeSlots, or a stutter.
LEMMA StepsAreSlots ==
  ASSUME TypeOK, NothingForced, WhitelistFree, [Next]_vars
  PROVE  [Slots!Next]_trades
<1>1. CASE trades' \subseteq trades
  BY <1>1 DEF Slots!Next, Slots!Close
<1>2. ASSUME NEW p \in Pairs, CreateTrade(p) PROVE [Slots!Next]_trades
  <2>1. CASE trades' = trades
    BY <2>1
  <2>2. ASSUME NEW t \in Trade, t.pair = p, FreeSlot, trades' = trades \cup {t}
        PROVE  Slots!Open(t)
    <3>1. \A u \in trades : u.pair # p
      BY <1>2 DEF CreateTrade, WhitelistFree, PairsOf
    <3>2. trades \subseteq Trade
      BY DEF TypeOK
    <3> QED BY <2>2, <3>1, <3>2, SameCardinality DEF Slots!Open, FreeSlot
  <2> QED BY <1>2, <2>1, <2>2 DEF CreateTrade, Slots!Next
<1>3. ASSUME NEW c \in Clients, Serve(c) PROVE [Slots!Next]_trades
  BY <1>1, <1>3, RequestsOnlyClose
<1>4. ASSUME NEW c \in Clients, NEW r \in Requests, Request(c, r)
      PROVE  [Slots!Next]_trades
  BY <1>4 DEF Request
<1>5. CASE Work
  BY <1>1, <1>2, <1>5, WorkerOpens
<1> QED BY <1>3, <1>4, <1>5 DEF Next, vars

\* With no forced entries, whatever the threads do and whenever the bot is
\* stopped, paused or reloaded, the open trades only change as TradeSlots
\* allows: a trade is opened when its pair has none and a slot is free.
THEOREM SlotsImplemented ==
  ASSUME "forceenter" \notin Requests
  PROVE  Spec => KeepsSlots
<1>1. Init => Slots!Init /\ NothingForced /\ WhitelistFree
  BY DEF Init, Slots!Init, NothingForced, WhitelistFree, Idle
<1>2. TypeOK /\ NothingForced /\ WhitelistFree /\ [Next]_vars
      => NothingForced' /\ WhitelistFree' /\ [Slots!Next]_trades
  BY NothingForcedKept, WhitelistFreeKept, StepsAreSlots
<1> QED BY <1>1, <1>2, ControlTyped, PTL DEF Spec, KeepsSlots, Slots!Spec

\* What TradeSlots keeps: finitely many open trades, within the limit, one per
\* pair.
SlotsSafe == IsFiniteSet(trades) /\ WithinLimit /\ OnePerPair

LEMMA SlotsSafeKept ==
  ASSUME SlotsSafe, [Slots!Next]_trades
  PROVE  SlotsSafe'
<1> USE DEF SlotsSafe, WithinLimit, OnePerPair, Slots!WithinLimit, Slots!OnePerPair
<1>1. CASE trades' \in SUBSET trades
  <2>1. IsFiniteSet(trades') /\ Cardinality(trades') <= Cardinality(trades)
    BY <1>1, FS_Subset
  <2>2. Cardinality(trades) \in Nat /\ Cardinality(trades') \in Nat
    BY <2>1, FS_CardinalityType
  <2>3. WithinLimit'
    BY <2>1, <2>2, SameCardinality, ControlAssumption
  <2> QED BY <1>1, <2>1, <2>3
<1>2. ASSUME NEW t \in Trade, Slots!Open(t) PROVE SlotsSafe'
  <2>1. trades' = trades \cup {t}
    BY <1>2 DEF Slots!Open
  <2>2. /\ IsFiniteSet(trades')
        /\ \/ Cardinality(trades') = Cardinality(trades)
           \/ Cardinality(trades') = Cardinality(trades) + 1
    BY <2>1, FS_AddElement
  <2>3. Cardinality(trades) \in Nat /\ Cardinality(trades) < MaxOpenTrades
    BY <1>2, FS_CardinalityType, SameCardinality DEF Slots!Open
  <2>4. WithinLimit'
    BY <2>2, <2>3, SameCardinality, ControlAssumption
  <2>5. OnePerPair'
    BY <1>2, <2>1 DEF Slots!Open
  <2> QED BY <2>2, <2>4, <2>5
<1> QED BY <1>1, <1>2 DEF Slots!Next, Slots!Close

LEMMA SlotsStaySafe ==
  ASSUME "forceenter" \notin Requests
  PROVE  Spec => []SlotsSafe
<1>1. Slots!Init => SlotsSafe
  BY FS_EmptySet, SameCardinality, ControlAssumption
     DEF Slots!Init, SlotsSafe, WithinLimit, OnePerPair, Slots!WithinLimit, Slots!OnePerPair
<1>2. SlotsSafe /\ [Slots!Next]_trades => SlotsSafe'
  BY SlotsSafeKept
<1> QED BY <1>1, <1>2, SlotsImplemented, PTL DEF KeepsSlots, Slots!Spec

\* With no forced entries the bot never has more trades than max_open_trades:
\* free slots are counted again for each pair, and nobody else opens trades.
THEOREM LimitHolds ==
  ASSUME "forceenter" \notin Requests
  PROVE  Spec => []WithinLimit
<1>1. SlotsSafe => WithinLimit
  BY DEF SlotsSafe
<1> QED BY <1>1, SlotsStaySafe, PTL

\* With no forced entries the bot never has two open trades of one pair, although
\* enter_positions looks only once at which pairs have one.
THEOREM PairsTradedOnce ==
  ASSUME "forceenter" \notin Requests
  PROVE  Spec => []OnePerPair
<1>1. SlotsSafe => OnePerPair
  BY DEF SlotsSafe
<1> QED BY <1>1, SlotsStaySafe, PTL

-----------------------------------------------------------------------------
(* A new bot starts up before it trades.                                   *)

\* Where the worker may be before the bot has been through startup, and what it
\* saw last on its way to a new bot: a stopped one, so that the next state that is
\* a started one leads to startup.
NotStarted ==
  /\ new => worker.at \in {"construct", "ready", "read", "startup", "stopped", "cleanup", "join"}
  /\ worker.at \in {"construct", "ready", "stopped", "cleanup", "join"} => ~Started(worker.old)
  /\ new /\ worker.at = "read" => ~Started(worker.old)

LEMMA NotStartedByWork ==
  ASSUME TypeOK, NotStarted, Work
  PROVE  NotStarted'
<1> USE DEF TypeOK, NotStarted, Started, Goto
<1>1. CASE Construct \/ SetInitialState \/ Join
  BY <1>1 DEF Construct, SetInitialState, Join
<1>2. CASE ReadState
  BY <1>2 DEF ReadState, Run, StartsUp, BotStates
<1>3. CASE Startup \/ ProcessStopped \/ Cleanup
  BY <1>3 DEF Startup, ProcessStopped, Cleanup, Unlocked
<1>4. CASE Refresh \/ Acquire
  BY <1>4 DEF Refresh, Acquire
<1>5. CASE EnterPositions \/ EndProcess
  <2>1. new' = FALSE
    BY <1>5 DEF EnterPositions, EndProcess
  <2>2. worker'.at \in {"enter", "read"}
    BY <1>5 DEF EnterPositions, EndProcess, EndIteration
  <2> QED BY <2>1, <2>2
<1>6. CASE Raise
  BY <1>6 DEF Raise, Leave, EndIteration
<1>7. ASSUME NEW p \in Pairs, CreateTrade(p) PROVE NotStarted'
  BY <1>7 DEF CreateTrade
<1>8. ASSUME NEW t \in trades, CloseTrade(t) PROVE NotStarted'
  BY <1>8 DEF CloseTrade
<1> QED BY <1>1, <1>2, <1>3, <1>4, <1>5, <1>6, <1>7, <1>8 DEF Work

\* Requests leave the worker where it is.
LEMMA RequestsLeaveWorker ==
  ASSUME NEW c \in Clients, Serve(c) \/ \E r \in Requests : Request(c, r)
  PROVE  worker' = worker /\ new' = new
  BY DEF Serve, Request, SetState, Pause, PauseStopped, ForceEntry, Lookup, CheckRunning,
         TakeLock, Enter, Exit, ReloadTrade, Calm

\* Whatever is asked of the bot and whenever it is reloaded, its worker has been
\* through startup, which brings its open orders up to date, before it trades: a reload
\* leaves RELOAD_CONFIG as the state seen last, and that is no started one.
THEOREM StartupComesFirst == Spec => []StartsUpFirst
<1>1. Init => NotStarted
  BY DEF Init, NotStarted, Started
<1>2. TypeOK /\ NotStarted /\ [Next]_vars => NotStarted'
  <2> SUFFICES ASSUME TypeOK, NotStarted, [Next]_vars PROVE NotStarted'
    OBVIOUS
  <2>1. CASE worker' = worker /\ new' = new
    BY <2>1 DEF NotStarted
  <2> QED BY <2>1, NotStartedByWork, RequestsLeaveWorker DEF Next, vars
<1>3. NotStarted => StartsUpFirst
  BY DEF NotStarted, StartsUpFirst
<1> QED BY <1>1, <1>2, <1>3, ControlTyped, PTL DEF Spec

-----------------------------------------------------------------------------
(* By how much forced entries overshoot the limit.                         *)

\* The clients that have decided on a trade and not yet entered it, and the trades
\* they have decided on.
Decided == {c \in Clients : client[c].at \in {"wantEntry", "entering"}}
DecidedTrades == {client[c].trade : c \in Decided}

\* The open trades and those that are about to be: a trade that is closed while a
\* client has decided on it may come back, so it stays counted.
OpenOrDecided == trades \cup DecidedTrades

Overshoot == /\ IsFiniteSet(trades)
             /\ Cardinality(OpenOrDecided) <= MaxOpenTrades + Cardinality(Clients)

LEMMA DecidedFinite ==
  /\ IsFiniteSet(Clients) /\ Cardinality(Clients) \in Nat
  /\ IsFiniteSet(DecidedTrades) /\ Cardinality(DecidedTrades) <= Cardinality(Clients)
<1>1. IsFiniteSet(Clients) /\ Cardinality(Clients) \in Nat
  BY ControlAssumption, FS_CardinalityType
<1>2. IsFiniteSet(Decided) /\ Cardinality(Decided) <= Cardinality(Clients)
  BY <1>1, FS_Subset DEF Decided
<1> DEFINE f == [c \in Decided |-> client[c].trade]
<1>3. f \in Surjection(Decided, DecidedTrades)
  BY DEF Surjection, DecidedTrades
<1>4. IsFiniteSet(DecidedTrades) /\ Cardinality(DecidedTrades) <= Cardinality(Decided)
  BY <1>2, <1>3, FS_Surjection
<1>5. Cardinality(Decided) \in Nat /\ Cardinality(DecidedTrades) \in Nat
  BY <1>2, <1>4, FS_CardinalityType
<1> QED BY <1>1, <1>2, <1>4, <1>5

\* The bound follows from there being no more open trades than the limit.
LEMMA UnionBounded ==
  ASSUME NEW S, NEW D, IsFiniteSet(S), IsFiniteSet(D),
         Cardinality(S) <= MaxOpenTrades, Cardinality(D) <= Cardinality(Clients)
  PROVE  Cardinality(S \cup D) <= MaxOpenTrades + Cardinality(Clients)
<1>1. Cardinality(S \cup D) = Cardinality(S) + Cardinality(D) - Cardinality(S \cap D)
  BY FS_Union
<1>2. IsFiniteSet(S \cap D)
  BY FS_Subset
<1>3. /\ Cardinality(S) \in Nat /\ Cardinality(D) \in Nat
      /\ Cardinality(S \cap D) \in Nat
  BY <1>2, FS_CardinalityType
<1> QED BY <1>1, <1>3, DecidedFinite, ControlAssumption

\* Steps that open nothing and decide on nothing keep it.
LEMMA OvershootShrinks ==
  ASSUME Overshoot, IsFiniteSet(trades'), OpenOrDecided' \subseteq OpenOrDecided
  PROVE  Overshoot'
<1>1. IsFiniteSet(OpenOrDecided)
  BY DecidedFinite, FS_Union DEF Overshoot, OpenOrDecided
<1>2. IsFiniteSet(OpenOrDecided') /\ Cardinality(OpenOrDecided') <= Cardinality(OpenOrDecided)
  BY <1>1, FS_Subset
<1>3. Cardinality(OpenOrDecided') \in Nat /\ Cardinality(OpenOrDecided) \in Nat
  BY <1>1, <1>2, FS_CardinalityType
<1> QED BY <1>2, <1>3, DecidedFinite, ControlAssumption DEF Overshoot

\* A trade is opened only below the limit, or by a client that has decided on it.
LEMMA OvershootByWork ==
  ASSUME TypeOK, Overshoot, Work
  PROVE  Overshoot'
<1>1. UNCHANGED client
  BY DEF Work, Construct, SetInitialState, ReadState, Startup, ProcessStopped, Cleanup,
         Unlocked, Join, Refresh, Acquire, EnterPositions, EndProcess, Raise, CreateTrade,
         CloseTrade
<1>2. DecidedTrades' = DecidedTrades
  BY <1>1 DEF DecidedTrades, Decided
<1>3. CASE trades' \subseteq trades
  <2>1. IsFiniteSet(trades')
    BY <1>3, FS_Subset DEF Overshoot
  <2> QED BY <1>2, <1>3, <2>1, OvershootShrinks DEF OpenOrDecided
<1>4. ASSUME NEW t \in Trade, FreeSlot, trades' = trades \cup {t}
      PROVE  Overshoot'
  <2>1. /\ IsFiniteSet(trades')
        /\ \/ Cardinality(trades') = Cardinality(trades)
           \/ Cardinality(trades') = Cardinality(trades) + 1
    BY <1>4, FS_AddElement DEF Overshoot
  <2>2. Cardinality(trades) \in Nat
    BY FS_CardinalityType DEF Overshoot
  <2>3. Cardinality(trades') <= MaxOpenTrades
    BY <1>4, <2>1, <2>2, ControlAssumption DEF FreeSlot
  <2> QED BY <1>2, <2>1, <2>3, DecidedFinite, UnionBounded DEF Overshoot, OpenOrDecided
<1> QED BY <1>3, <1>4, WorkerOpens DEF CreateTrade

\* What a request does to the trades and the decisions.
LEMMA DecidesOrEnters ==
  ASSUME TypeOK, NEW c \in Clients, Serve(c)
  PROVE  \/ /\ trades' \subseteq trades
            /\ DecidedTrades' \subseteq DecidedTrades
         \/ /\ trades' = trades
            /\ \E t \in trades : DecidedTrades' \subseteq DecidedTrades \cup {t}
         \/ trades' = trades /\ FreeSlot
         \/ /\ trades' \subseteq trades \cup DecidedTrades
            /\ DecidedTrades' \subseteq DecidedTrades
            /\ Enter(c)
<1> USE DEF TypeOK, DecidedTrades, Decided, Step, Reply, Idle
<1>1. CASE SetState(c) \/ Pause(c) \/ PauseStopped(c) \/ ForceEntry(c) \/ CheckRunning(c)
  BY <1>1 DEF SetState, Pause, PauseStopped, ForceEntry, CheckRunning
<1>2. CASE Lookup(c)
  BY <1>2 DEF Lookup
<1>3. CASE TakeLock(c)
  BY <1>3 DEF TakeLock, Locking
<1>4. CASE Enter(c)
  BY <1>4 DEF Enter
<1>5. CASE Exit(c) \/ ReloadTrade(c)
  BY <1>5 DEF Exit, ReloadTrade
<1> QED BY <1>1, <1>2, <1>3, <1>4, <1>5 DEF Serve

LEMMA OvershootByRequests ==
  ASSUME TypeOK, Overshoot, NEW c \in Clients, Serve(c)
  PROVE  Overshoot'
<1>1. trades' \subseteq trades \cup DecidedTrades
  BY DecidesOrEnters
<1>2. IsFiniteSet(trades')
  <2>1. IsFiniteSet(trades \cup DecidedTrades)
    BY DecidedFinite, FS_Union DEF Overshoot
  <2> QED BY <1>1, <2>1, FS_Subset
<1>3. CASE OpenOrDecided' \subseteq OpenOrDecided
  BY <1>2, <1>3, OvershootShrinks
<1>4. CASE trades' = trades /\ FreeSlot
  <2>1. IsFiniteSet(DecidedTrades') /\ Cardinality(DecidedTrades') <= Cardinality(Clients)
    <3>1. IsFiniteSet(Decided') /\ Cardinality(Decided') <= Cardinality(Clients)
      BY DecidedFinite, FS_Subset DEF Decided
    <3> DEFINE f == [d \in Decided' |-> client'[d].trade]
    <3>2. f \in Surjection(Decided', DecidedTrades')
      BY DEF Surjection, DecidedTrades
    <3>3. /\ IsFiniteSet(DecidedTrades')
          /\ Cardinality(DecidedTrades') <= Cardinality(Decided')
      BY <3>1, <3>2, FS_Surjection
    <3>4. Cardinality(Decided') \in Nat /\ Cardinality(DecidedTrades') \in Nat
      BY <3>1, <3>3, FS_CardinalityType
    <3> QED BY <3>1, <3>3, <3>4, DecidedFinite
  <2>2. Cardinality(trades') <= MaxOpenTrades
    BY <1>4, FS_CardinalityType, ControlAssumption DEF FreeSlot, Overshoot
  <2> QED BY <1>2, <2>1, <2>2, UnionBounded DEF Overshoot, OpenOrDecided
<1> QED BY <1>3, <1>4, DecidesOrEnters DEF OpenOrDecided

LEMMA OvershootAtStart ==
  ASSUME Init
  PROVE  Overshoot
<1>1. trades = {} /\ DecidedTrades = {}
  BY DEF Init, Idle, DecidedTrades, Decided
<1>2. OpenOrDecided = {}
  BY <1>1 DEF OpenOrDecided
<1> QED BY <1>1, <1>2, FS_EmptySet, DecidedFinite, ControlAssumption DEF Overshoot

\* However many threads force entries, having looked at the limit before they waited
\* for the lock, the open trades pass the limit by one for each of them at most: a
\* thread decides on one trade at a time, below the limit.
THEOREM OvershootIsBounded == Spec => []OvershootBounded
<1>1. Init => Overshoot
  BY OvershootAtStart
<1>2. TypeOK /\ Overshoot /\ [Next]_vars => Overshoot'
  <2> SUFFICES ASSUME TypeOK, Overshoot, [Next]_vars PROVE Overshoot'
    OBVIOUS
  <2>1. CASE UNCHANGED vars
    BY <2>1 DEF vars, Overshoot, OpenOrDecided, DecidedTrades, Decided
  <2>2. ASSUME NEW c \in Clients, NEW r \in Requests, Request(c, r)
        PROVE  Overshoot'
    <3>1. trades' = trades /\ DecidedTrades' \subseteq DecidedTrades
      BY <2>2, ControlAssumption
         DEF Request, Step, TypeOK, AllRequests, DecidedTrades, Decided
    <3> QED BY <3>1, OvershootShrinks DEF Overshoot, OpenOrDecided
  <2> QED BY <2>1, <2>2, OvershootByWork, OvershootByRequests DEF Next
<1>3. Overshoot => OvershootBounded
  <2> SUFFICES ASSUME Overshoot PROVE OvershootBounded
    OBVIOUS
  <2>1. IsFiniteSet(OpenOrDecided) /\ trades \subseteq OpenOrDecided
    BY DecidedFinite, FS_Union DEF Overshoot, OpenOrDecided
  <2>2. Cardinality(trades) <= Cardinality(OpenOrDecided)
    BY <2>1, FS_Subset
  <2>3. Cardinality(trades) \in Nat /\ Cardinality(OpenOrDecided) \in Nat
    BY <2>1, FS_CardinalityType DEF Overshoot
  <2> QED BY <2>2, <2>3, DecidedFinite, ControlAssumption DEF Overshoot, OvershootBounded
<1> QED BY <1>1, <1>2, <1>3, ControlTyped, PTL DEF Spec
=============================================================================
