--------------------------- MODULE TradeLifecycle ---------------------------
(***************************************************************************)
(* The life of one spot trade: the orders the bot places for it, the rows  *)
(* it keeps about them in its database, and the exchange that fills and    *)
(* cancels those orders on its own.                                        *)
(*                                                                         *)
(* One handler works on the trade at a time: process and most requests run *)
(* under FreqtradeBot._exit_lock (module BotControl has the exceptions).   *)
(* But a handler calls the exchange several times, and between two calls   *)
(* the exchange moves on, or the process dies.  A handler is therefore a   *)
(* chain of steps, one per exchange call, and `task` is the handler in     *)
(* progress: where it is (at), where the sub-procedure it called returns   *)
(* to (then), and its local variables.                                     *)
(*                                                                         *)
(* A database row is the last snapshot of the order the bot has seen       *)
(* (Order.update_from_ccxt_object copies it, ft_is_open is "status not in  *)
(* NON_OPEN_EXCHANGE_STATES"), so rows[o] and ex[o] are records of the     *)
(* same form and differ exactly when the bot's view is stale.  Prices and  *)
(* fees are left out; amounts are small integers.                          *)
(***************************************************************************)
EXTENDS Integers, FiniteSets, Functions

CONSTANTS
  MaxOrders,          \* bound: orders ever placed for this trade
  Stake,              \* amount of an entry order
  MinAmount,          \* get_min_pair_stake_amount, as an amount
  PlacedAs,           \* what create_order may answer at once
  Missing,            \* states of orders that fetch_order does not find
  StoplossOnExchange, \* order_types["stoploss_on_exchange"]
  PositionAdjustment, \* position_adjustment_enable
  AdjustOrderPrice,   \* the strategy overrides adjust_order_price
  ManualReload,       \* the operator uses /reload_trade
  ExitTimeoutCount,   \* unfilledtimeout.exit_timeout_count
  MaxFaults           \* bound: crashes and lost replies in a behaviour

NonOpen == {"closed", "canceled", "expired"}   \* NON_OPEN_EXCHANGE_STATES
Orders  == 1..MaxOrders

ASSUME TradeAssumption ==
  /\ MaxOrders \in Nat /\ Stake \in Nat \ {0} /\ MinAmount \in Nat
  /\ ExitTimeoutCount \in Nat /\ MaxFaults \in Nat
  /\ PlacedAs \subseteq {"open"} \cup NonOpen
  /\ Missing \subseteq {"open"} \cup NonOpen
  /\ {StoplossOnExchange, PositionAdjustment, AdjustOrderPrice, ManualReload}
        \subseteq BOOLEAN

VARIABLES
  ex,      \* the exchange: every order it accepted for this trade
  rows,    \* the Order rows of the session
  trade,   \* the Trade row: "none", "open", "closed", "deleted"
  amount,  \* trade.amount
  db,      \* rows, trade and amount as of the last commit
  task,    \* the handler in progress
  unknown, \* orders whose row was lost to a crash or a lost reply
  faults   \* crashes and lost replies so far

vars == <<ex, rows, trade, amount, db, task, unknown, faults>>

Order == {r \in [side   : {"none", "entry", "exit", "stoploss"},
                  amount : Nat,
                  filled : Nat,
                  status : {"none", "open"} \cup NonOpen] : r.filled <= r.amount}

NoOrder == [side |-> "none", amount |-> 0, filled |-> 0, status |-> "none"]

Recording == {"recordEntry", "recordExit", "recordStop"}

Labels == {"idle", "commit", "cancel", "cancelOpen", "managed", "replaced",
           "force", "stops", "checkAmount", "placeEntry", "placeExit",
           "placeStop", "fetchStops", "refind", "adopt", "startup"} \cup Recording

Task == [at   : Labels,            \* the next step
         then : Labels,            \* where a sub-procedure returns
         after: Labels,            \* where a loop over open orders returns
         o    : Orders \cup {0},   \* the order the handler is about
         snap : Order,             \* the order dict it holds
         todo : SUBSET Orders,     \* orders a loop has still to visit
         stops: SUBSET Orders,     \* stoploss orders still to cancel
         seen : SUBSET Orders,     \* stoploss orders fetched
         size : Nat,               \* amount to place; 0: the whole position
         mode : {"initial", "pos_adjust", "replace"},
         new  : BOOLEAN,           \* a new price was supplied
         repl : BOOLEAN,           \* the argument `replacing`
         res  : BOOLEAN]           \* what the cancel handler returned

Idle == [at |-> "idle", then |-> "idle", after |-> "idle", o |-> 0, snap |-> NoOrder, todo |-> {},
         stops |-> {}, seen |-> {}, size |-> 0, mode |-> "initial",
         new |-> FALSE, repl |-> FALSE, res |-> FALSE]

Done == [Idle EXCEPT !.at = "commit"]  \* the handler returns to its caller
At(l) == [task EXCEPT !.at = l]

States == {"none", "open", "closed", "deleted"}

\* The type of the state.
TypeOK ==
  /\ ex \in [Orders -> Order]
  /\ rows \in [Orders -> Order] /\ trade \in States /\ amount \in Nat
  /\ db \in [rows : [Orders -> Order], trade : States, amount : Nat]
  /\ task \in Task
  /\ unknown \subseteq Orders
  /\ faults \in 0..MaxFaults
-----------------------------------------------------------------------------
(* The rows *)

OpenOrders(r) == {o \in Orders : r[o].status = "open" /\ r[o].side # "stoploss"}
OpenStops(r)  == {o \in Orders : r[o].status = "open" /\ r[o].side = "stoploss"}
Open(r)       == {o \in Orders : r[o].status = "open"}

\* What an order adds to the position.
Signed(x) == IF x.side = "entry" THEN x.filled ELSE -x.filled

\* Mutant: an exit counts only if it was filled completely.
CountedClosedOnly(x) ==
  IF x.status = "closed" \/ (x.side = "entry" /\ x.status \in NonOpen) THEN Signed(x) ELSE 0

\* recalc_trade_from_orders: open rows do not count, however much they filled.
Counted(x) == IF x.status \in NonOpen THEN Signed(x) ELSE 0

Recalc(r) == SumFunction([o \in Orders |-> Counted(r[o])])

\* nr_of_successful_entries
SuccessfulEntries(r) ==
  {o \in Orders : r[o].side = "entry" /\ r[o].status \in NonOpen /\ r[o].filled > 0}

CanceledExits(r) ==
  {o \in Orders : r[o].side = "exit" /\ r[o].status \in {"canceled", "expired"}}

CanceledEmpty(snap) == snap.status \in NonOpen /\ snap.filled = 0

\* Mutant: any filled exit closes the trade.
ClosesOnAnyFill(a, snap, sending) == snap.side # "entry" /\ snap.filled > 0

\* Trade.update_trade after Trade.update_order: `sending` is send_msg, and
\* `not send_msg` is passed as `recalculating`.
Closes(a, snap, sending) ==
  /\ snap.side # "entry"
  /\ snap.filled = a \/ (sending /\ snap.filled > a)

\* recalc_trade_from_orders leaves the old amount when nothing is left.
Recalculated(r, a) ==
  LET left == Recalc(r) IN IF left \in Nat \ {0} THEN left ELSE a

Updated(r, t, a, o, snap, sending) ==
  LET r1 == [r EXCEPT ![o] = snap]
  IN IF snap.status = "open"
     THEN [rows |-> r1, trade |-> t, amount |-> a]
     ELSE [rows   |-> r1,
           trade  |-> IF Closes(a, snap, sending) THEN "closed" ELSE t,
           amount |-> Recalculated(r1, IF snap.side = "entry" THEN snap.filled ELSE a)]

\* _update_trade_after_fill: which stoploss orders it cancels.
StopsToCancel(u, snap, sending) ==
  IF /\ snap.status \in NonOpen
     /\ (snap.side = "entry" /\ sending) \/ u.trade = "closed"
  THEN OpenStops(u.rows) ELSE {}

Committed(r, t, a) == [rows |-> r, trade |-> t, amount |-> a]

Save(r, t, a) ==
  /\ rows' = r /\ trade' = t /\ amount' = a
  /\ db' = Committed(r, t, a)

\* The handler goes on at k once these stoploss orders are cancelled.
StopsFirst(k, stops) ==
  IF stops = {} THEN k
  ELSE [k EXCEPT !.at = "stops", !.stops = k.stops \cup stops,
                 !.then = IF k.at = "stops" THEN k.then ELSE k.at]

\* update_trade_state: the row is updated, the trade recalculated and
\* committed, and the handler goes on at k once the stoploss orders that have
\* to go are cancelled.  An order cancelled without a fill changes its row
\* only, and nothing is committed.
UpdateTradeState(o, snap, sending, k) ==
  \/ /\ CanceledEmpty(snap)
     /\ rows' = [rows EXCEPT ![o] = snap]
     /\ task' = k
     /\ UNCHANGED <<trade, amount, db>>
  \/ /\ ~CanceledEmpty(snap)
     /\ LET u     == Updated(rows, trade, amount, o, snap, sending)
            stops == StopsToCancel(u, snap, sending)
        IN /\ Save(u.rows, u.trade, u.amount)
           /\ task' = StopsFirst(k, stops)

\* Trade.delete removes the rows of the trade with it.
DeleteTrade ==
  /\ Save([o \in Orders |-> NoOrder], "deleted", amount)
  /\ task' = Done
-----------------------------------------------------------------------------
(* The exchange *)

Held == SumFunction([o \in Orders |-> Signed(ex[o])])

LiveSells == {o \in Orders : ex[o].status = "open" /\ ex[o].side \in {"exit", "stoploss"}}

\* Live sell orders block the assets they would sell.
Free == Held - SumFunctionOnSet([o \in Orders |-> ex[o].amount - ex[o].filled], LiveSells)

\* Mutant: a canceled order is reported without its fills.
SnapshotUnfilled(o) ==
  [ex[o] EXCEPT !.side = IF rows[o].status = "none" THEN "exit" ELSE rows[o].side,
                !.filled = IF ex[o].status = "canceled" THEN 0 ELSE @]

\* The row's ft_order_side is fixed when the row is made; the order dict of a
\* stoploss order says "sell".
Snapshot(o) == [ex[o] EXCEPT !.side = IF rows[o].status = "none"
                                      THEN IF @ = "entry" THEN "entry" ELSE "exit"
                                      ELSE rows[o].side]

CancelOnExchange(o) ==
  [ex EXCEPT ![o].status = IF @ = "open" THEN "canceled" ELSE @]

\* What fetch_order tells of an order, if it finds it.
Found(o) == ex[o].status \notin Missing

\* The exchange fills part or all of a live order.  fetch_orders, which
\* handle_onexchange_order works from, is one instant: nothing moves in it.
Fill(o, n) ==
  /\ task.at # "adopt"
  /\ ex[o].status = "open"
  /\ n \in 1..(ex[o].amount - ex[o].filled)
  /\ ex' = [ex EXCEPT ![o].filled = @ + n,
                      ![o].status = IF ex[o].filled + n = ex[o].amount
                                    THEN "closed" ELSE "open"]
  /\ UNCHANGED <<rows, trade, amount, db, task, unknown, faults>>

\* The exchange, or the operator on its web page, cancels a live order.
ExchangeCancel(o) ==
  /\ task.at # "adopt"
  /\ ex[o].status = "open"
  /\ ex' = CancelOnExchange(o)
  /\ UNCHANGED <<rows, trade, amount, db, task, unknown, faults>>

\* create_order: the exchange accepts an order of this side and amount, and
\* answers with its first state; the handler goes on at k with the answer.
Placed(side, a, k) ==
  \E o \in Orders :
    /\ ex[o].status = "none"
    /\ \A p \in 1..(o - 1) : ex[p].status # "none"
    /\ a > 0
    /\ \E s \in (IF side = "stoploss" THEN {"open"} ELSE PlacedAs), f \in 0..a :
         /\ s = "open" => f = 0
         /\ s = "closed" => f = a
         /\ s \in {"canceled", "expired"} => f < a
         /\ LET new == [side |-> side, amount |-> a, filled |-> f, status |-> s]
            IN /\ ex' = [ex EXCEPT ![o] = new]
               /\ task' = [k EXCEPT !.o = o, !.snap = new]
    /\ UNCHANGED <<rows, trade, amount, db, unknown, faults>>
-----------------------------------------------------------------------------
(* Entries *)

Bot      == UNCHANGED <<rows, trade, amount, db>>
Outside  == UNCHANGED <<ex, unknown, faults>>
JustGo(k) == task' = k /\ Bot /\ Outside

\* create_trade -> execute_entry
CreateTrade ==
  /\ task = Idle
  /\ trade = "none"
  /\ Placed("entry", Stake, [task EXCEPT !.at = "recordEntry"])

\* execute_entry before create_order: other open orders are cancelled first.
EntryFlow(k) ==
  IF OpenOrders(rows) = {} THEN [k EXCEPT !.at = "placeEntry"]
  ELSE [k EXCEPT !.at = "cancelOpen", !.after = "placeEntry",
                 !.todo = OpenOrders(rows), !.repl = TRUE]

\* check_and_call_adjust_trade_position with a positive stake.  (With a similar
\* open order nothing happens.)
AdjustEntry ==
  /\ task = Idle
  /\ PositionAdjustment /\ trade = "open" /\ amount > 0
  /\ JustGo(EntryFlow([task EXCEPT !.size = Stake, !.mode = "pos_adjust"]))

\* replace_order_failed
ReplaceOrderFailed ==
  IF SuccessfulEntries(rows) = {} THEN DeleteTrade ELSE task' = Done /\ Bot

\* create_order in execute_entry: accepted, or refused.
PlaceEntry ==
  /\ task.at = "placeEntry"
  /\ Placed("entry", task.size, At("recordEntry"))

RefuseEntry ==
  /\ task.at = "placeEntry"
  /\ IF task.mode = "replace" THEN ReplaceOrderFailed ELSE task' = Done /\ Bot
  /\ Outside

\* Mutant: the fill of a cancelled entry is not looked at.
CanceledEntryBlind(o, snap, repl, k) ==
  IF Open(rows) \ {o} = {} /\ SuccessfulEntries(rows) = {} /\ ~repl THEN DeleteTrade
  ELSE UpdateTradeState(o, snap, TRUE, [k EXCEPT !.res = snap.filled = 0])

\* Mutant: the trade is kept when its only order was cancelled.
CanceledEntryKept(o, snap, repl, k) ==
  UpdateTradeState(o, snap, TRUE, [k EXCEPT !.res = snap.filled = 0])

\* handle_cancel_enter, once the order is known to be no longer open.
CanceledEntry(o, snap, repl, k) ==
  IF snap.filled # 0 THEN UpdateTradeState(o, snap, TRUE, [k EXCEPT !.res = FALSE])
  ELSE IF Open(rows) \ {o} = {} /\ SuccessfulEntries(rows) = {} /\ ~repl THEN DeleteTrade
  ELSE UpdateTradeState(o, snap, TRUE, [k EXCEPT !.res = TRUE])

\* execute_entry after create_order.  An expired order without a fill leaves
\* no row.  Otherwise the trade is opened (again, if it was closed meanwhile)
\* and the row committed; an order that is no longer open is processed at once.
RecordEntry ==
  /\ task.at = "recordEntry"
  /\ LET o == task.o
         s == task.snap
     IN \/ /\ s.status = "expired" /\ s.filled = 0
           /\ IF task.mode = "replace" THEN ReplaceOrderFailed ELSE task' = Done /\ Bot
        \/ /\ s.status = "open"
           /\ Save([rows EXCEPT ![o] = s], "open", Recalculated(rows, amount))
           /\ task' = Done
        \/ /\ s.status = "canceled" /\ s.filled = 0
           /\ IF Open(rows) = {} /\ SuccessfulEntries(rows) = {} /\ task.mode # "replace"
              THEN DeleteTrade
              ELSE Save([rows EXCEPT ![o] = s], "open", Recalculated(rows, amount)) /\ task' = Done
        \/ /\ s.status \in NonOpen /\ s.filled > 0
           /\ LET u     == Updated(rows, "open", amount, o, s, TRUE)
                  stops == StopsToCancel(u, s, TRUE)
              IN /\ Save(u.rows, u.trade, u.amount)
                 /\ task' = StopsFirst(Done, stops)
  /\ Outside
-----------------------------------------------------------------------------
(* Open orders: reconcile, cancel on timeout, replace at a new price *)

\* Mutant: orders cancelled after a partial fill are skipped.
ManageUnfilledOrder(o) ==
  /\ task = Idle
  /\ trade = "open" /\ o \in OpenOrders(rows) /\ Found(o)
  /\ LET s == Snapshot(o)
     IN /\ s.status \in {"open", "closed"}
        /\ UpdateTradeState(o, s, TRUE, Done)
  /\ Outside

\* One order of manage_open_orders.  A failed fetch skips the order.
ManageOpenOrder(o) ==
  /\ task = Idle
  /\ trade = "open" /\ o \in OpenOrders(rows) /\ Found(o)
  /\ LET s == Snapshot(o)
         k == [task EXCEPT !.o = o, !.snap = s, !.at = "cancel"]
     IN \/ /\ s.status = "open"
           /\ \/ UpdateTradeState(o, s, TRUE, Done)
              \/ UpdateTradeState(o, s, TRUE, [k EXCEPT !.then = "managed"])
              \/ /\ AdjustOrderPrice
                 /\ \E new \in BOOLEAN :
                      UpdateTradeState(o, s, TRUE, [k EXCEPT !.then = "replaced",
                                                            !.new = new, !.repl = new])
        \/ /\ CanceledEmpty(s)
           /\ IF s.side = "entry" THEN CanceledEntry(o, s, FALSE, Done)
              ELSE UpdateTradeState(o, s, TRUE, Done)
        \/ /\ s.status \in NonOpen /\ ~CanceledEmpty(s)
           /\ UpdateTradeState(o, s, TRUE, Done)
  /\ Outside

\* cancel_order_with_result makes up an answer when the cancelled order can
\* not be fetched: canceled, nothing filled; what remains is left as it was.
Fabricated(o) == [rows[o] EXCEPT !.status = "canceled", !.filled = 0,
                                 !.amount = rows[o].amount - rows[o].filled]

\* handle_cancel_enter and handle_cancel_exit refuse to leave a remainder too
\* small to be sold.
Unexitable(s) ==
  /\ s.filled > 0
  /\ IF s.side = "entry" THEN s.filled < MinAmount ELSE amount - s.filled < MinAmount

Return(b) == [At(task.then) EXCEPT !.res = b]

RefuseCancel ==
  /\ task.at = "cancel"
  /\ task.snap.status = "open" /\ Unexitable(task.snap)
  /\ JustGo(Return(FALSE))

\* Mutant: an entry that could not be cancelled counts as cancelled.
HandleCanceledAnyway(o, s) ==
  IF s.side # "entry" THEN UpdateTradeState(o, s, TRUE, Return(TRUE))
  ELSE CanceledEntry(o, s, task.repl, At(task.then))

\* What the handlers do with the answer: an entry that is still open is left
\* for the next iteration, an exit is reported as cancelled whatever it says.
HandleCanceled(o, s) ==
  IF s.side # "entry" THEN UpdateTradeState(o, s, TRUE, Return(TRUE))
  ELSE IF s.status = "open" THEN task' = Return(FALSE) /\ Bot
  ELSE CanceledEntry(o, s, task.repl, At(task.then))

\* The order the handler was called with is no longer open: no cancel call.
AlreadyCanceled ==
  /\ task.at = "cancel"
  /\ task.snap.status \in NonOpen
  /\ IF task.snap.side = "entry" THEN CanceledEntry(task.o, task.snap, task.repl, At(task.then))
     ELSE UpdateTradeState(task.o, task.snap, TRUE, Return(FALSE))
  /\ Outside

\* cancel_order_with_result: the exchange cancels the order or answers that it
\* can not, and the order is fetched.
CancelOrder ==
  /\ task.at = "cancel"
  /\ task.snap.status = "open" /\ ~Unexitable(task.snap)
  /\ LET o == task.o
     IN \/ /\ ex' = CancelOnExchange(o)
           /\ HandleCanceled(o, [ex'[o] EXCEPT !.side = rows[o].side])
        \/ /\ Found(o)
           /\ ex' = ex
           /\ HandleCanceled(o, Snapshot(o))
        \/ /\ ex' = CancelOnExchange(o)
           /\ ex'[o].status \in Missing
           /\ HandleCanceled(o, Fabricated(o))
  /\ UNCHANGED <<unknown, faults>>

\* The tail of handle_cancel_order: too many exits timed out, so what is left
\* of this one is sold at the market.  A remainder of 0 reads as "everything".
Emergency ==
  /\ ExitTimeoutCount > 0
  /\ rows[task.o].side = "exit" /\ task.res /\ ~task.repl
  /\ Cardinality(CanceledExits(rows)) >= ExitTimeoutCount

\* Mutant: swapped operands.
RemainingSwapped(o) == rows[o].filled - rows[o].amount

Remaining(o) == rows[o].amount - rows[o].filled

\* execute_trade_exit: stoploss orders are cancelled before anything else.
ExitFlow(a) ==
  LET k == [Idle EXCEPT !.size = a, !.mode = task.mode]
  IN StopsFirst([k EXCEPT !.at = "checkAmount"], OpenStops(rows))

Managed ==
  /\ task.at = "managed"
  /\ JustGo(IF Emergency THEN ExitFlow(Remaining(task.o)) ELSE Done)

\* handle_replace_order after the cancel.  Without a new price nothing is
\* placed; nor if another open order is similar to the new one.
Replaced ==
  /\ task.at = "replaced"
  /\ \/ Emergency /\ task' = ExitFlow(Remaining(task.o)) /\ Bot
     \/ ~task.res /\ ReplaceOrderFailed
     \/ ~Emergency /\ task.res /\ (~task.new \/ OpenOrders(rows) # {}) /\ task' = Done /\ Bot
     \/ /\ task.res /\ task.new
        /\ task' = IF rows[task.o].side = "entry"
                   THEN EntryFlow([Idle EXCEPT !.size = Remaining(task.o), !.mode = "replace"])
                   ELSE ExitFlow(Remaining(task.o))
        /\ Bot
  /\ Outside

\* cancel_open_orders_of_trade: fetch each order that was open when the loop
\* began, skip it if that fails, cancel it otherwise.
CancelNextOpen(o) ==
  /\ task.at = "cancelOpen" /\ o \in task.todo
  /\ LET rest == [task EXCEPT !.todo = task.todo \ {o}]
     IN JustGo(IF Found(o)
               THEN [rest EXCEPT !.at = "cancel", !.then = "cancelOpen",
                                 !.o = o, !.snap = Snapshot(o)]
               ELSE rest)

CancelledOpen ==
  /\ task.at = "cancelOpen" /\ task.todo = {}
  /\ JustGo(At(task.after))

\* cancel_all_open_orders, when the bot is stopped.
CancelAllOpenOrders ==
  /\ task = Idle
  /\ trade = "open" /\ OpenOrders(rows) # {}
  /\ JustGo([task EXCEPT !.at = "cancelOpen", !.after = "commit", !.todo = OpenOrders(rows)])

\* One order of _rpc_cancel_open_order.
RpcCancelOpenOrder(o) ==
  /\ task = Idle
  /\ trade = "open" /\ o \in OpenOrders(rows) /\ Found(o)
  /\ JustGo([task EXCEPT !.at = "cancel", !.then = "managed", !.o = o, !.snap = Snapshot(o)])
-----------------------------------------------------------------------------
(* Exits *)

\* handle_trade -> execute_trade_exit of the whole position
ExitSignal ==
  /\ task = Idle
  /\ trade = "open" /\ amount > 0
  /\ JustGo(ExitFlow(0))

\* check_and_call_adjust_trade_position with a negative stake: at most the
\* whole amount, and no remainder that is too small.
AdjustExit ==
  /\ task = Idle
  /\ PositionAdjustment /\ trade = "open" /\ amount > 0
  /\ \E a \in 1..amount :
       /\ a = amount \/ amount - a >= MinAmount
       /\ JustGo(ExitFlow(a))

\* __exec_force_exit: cancel what is open; exit unless an entry was fully
\* cancelled or an order is still open.
ForceExit ==
  /\ task = Idle
  /\ trade = "open"
  /\ JustGo([task EXCEPT !.at = "force", !.todo = OpenOrders(rows)])

ForceNext(o) ==
  /\ task.at = "force" /\ o \in task.todo
  /\ JustGo(IF Found(o)
            THEN [task EXCEPT !.at = "cancel", !.then = "force", !.o = o, !.todo = task.todo \ {o},
                              !.seen = task.seen \cup (IF task.res THEN {task.o} ELSE {}),
                              !.snap = Snapshot(o)]
            ELSE Done)

ForceExitNow ==
  /\ task.at = "force" /\ task.todo = {}
  /\ LET cancelled == task.seen \cup (IF task.res THEN {task.o} ELSE {})
     IN JustGo(IF \/ \E o \in cancelled : rows[o].side = "entry"
                  \/ OpenOrders(rows) # {}
               THEN Done ELSE ExitFlow(0))

\* _safe_exit_amount, confirm_trade_exit, handle_similar_open_order.  The
\* amount is fixed here, before any open order is cancelled.
CheckExitAmount ==
  /\ task.at = "checkAmount"
  /\ LET want == IF task.size = 0 THEN amount ELSE task.size
         k    == [task EXCEPT !.size = want]
     IN \/ /\ Held < want \/ task.size = 0
              \/ \E o \in OpenOrders(rows) : rows[o].side = "exit" /\ rows[o].amount = want
           /\ JustGo(Done)
        \/ /\ Held >= want
           /\ JustGo(IF OpenOrders(rows) = {}
                     THEN [k EXCEPT !.at = "placeExit"]
                     ELSE [k EXCEPT !.at = "cancelOpen", !.after = "placeExit",
                                    !.todo = OpenOrders(rows), !.repl = TRUE])

\* create_order in execute_trade_exit.  Not enough free: InsufficientFunds.
PlaceExit ==
  /\ task.at = "placeExit"
  /\ Free >= task.size
  /\ Placed("exit", task.size, At("recordExit"))

RefuseExit ==
  /\ task.at = "placeExit"
  /\ JustGo(IF Free < task.size THEN [Idle EXCEPT !.at = "refind", !.todo = Open(rows)]
            ELSE Done)

\* A market exit may be filled at once; only then is the trade updated.
RecordExit ==
  /\ task.at = "recordExit"
  /\ LET o == task.o
         s == task.snap
     IN IF s.status \in {"closed", "expired"}
        THEN UpdateTradeState(o, s, TRUE, Done)
        ELSE Save([rows EXCEPT ![o] = s], trade, amount) /\ task' = Done
  /\ Outside

\* handle_insufficient_funds: fetch every open order of the trade.
Refind(o) ==
  /\ task.at = "refind" /\ o \in task.todo
  /\ LET rest == [task EXCEPT !.todo = task.todo \ {o}]
     IN IF Found(o) THEN UpdateTradeState(o, Snapshot(o), TRUE, rest)
        ELSE task' = rest /\ Bot
  /\ Outside

Refound ==
  /\ task.at = "refind" /\ task.todo = {}
  /\ JustGo(Done)
-----------------------------------------------------------------------------
(* The stoploss on exchange *)

\* Mutant: a failed cancel is repeated until it succeeds.
CancelStopAgain(o) ==
  /\ task.at = "stops" /\ o \in task.stops
  /\ LET rest == [task EXCEPT !.at = IF task.stops = {o} THEN task.then ELSE "stops",
                              !.stops = task.stops \ {o}]
     IN /\ ex[o].status = "open"
        /\ ex' = CancelOnExchange(o)
        /\ UpdateTradeState(o, [ex'[o] EXCEPT !.side = "stoploss"], TRUE, rest)
  /\ UNCHANGED <<unknown, faults>>

\* cancel_stoploss_on_exchange, one order.  A failed cancel is logged and the
\* loop goes on.  The answer made up for an order that is not found keeps the
\* row's fill.  The update may close the trade, which cancels the others.
CancelStop(o) ==
  /\ task.at = "stops" /\ o \in task.stops
  /\ LET rest == [task EXCEPT !.at = IF task.stops = {o} THEN task.then ELSE "stops",
                              !.stops = task.stops \ {o}]
     IN \/ /\ ex[o].status = "open"
           /\ ex' = CancelOnExchange(o)
           /\ \/ UpdateTradeState(o, [ex'[o] EXCEPT !.side = "stoploss"], TRUE, rest)
              \/ /\ "canceled" \in Missing
                 /\ UpdateTradeState(o, [rows[o] EXCEPT !.status = "canceled"], TRUE, rest)
        \/ ex' = ex /\ task' = rest /\ Bot
  /\ UNCHANGED <<unknown, faults>>

\* handle_stoploss_on_exchange fetches the open stoploss orders first.
ManageStoploss ==
  /\ task = Idle
  /\ StoplossOnExchange /\ trade = "open"
  /\ OpenStops(rows) # {} \/ (amount > 0 /\ OpenOrders(rows) = {})
  /\ JustGo([task EXCEPT !.at = "fetchStops", !.todo = OpenStops(rows)])

\* A stoploss order that was filled ends the handler.
FetchStop(o) ==
  /\ task.at = "fetchStops" /\ o \in task.todo
  /\ LET rest == [task EXCEPT !.todo = task.todo \ {o}]
         s    == Snapshot(o)
     IN IF ~Found(o) THEN task' = rest /\ Bot
        ELSE UpdateTradeState(o, s, TRUE,
               IF s.status = "closed" THEN Done ELSE [rest EXCEPT !.seen = rest.seen \cup {o}])
  /\ Outside

\* Place one if none was fetched or all are canceled; move it up if the
\* stoploss trails.
FetchedStops ==
  /\ task.at = "fetchStops" /\ task.todo = {}
  /\ LET active == {o \in task.seen : rows[o].status # "canceled"}
     IN \/ active # {} /\ JustGo(Done)
        \/ /\ trade # "open" \/ amount = 0 \/ OpenOrders(rows) # {}
           /\ JustGo(Done)
        \/ /\ trade = "open" /\ amount > 0 /\ OpenOrders(rows) = {}
           /\ JustGo(StopsFirst([Idle EXCEPT !.at = "placeStop"],
                                IF active = {} THEN {} ELSE OpenStops(rows)))

\* create_stoploss_order: accepted; too little free: InsufficientFunds; refused
\* as invalid: emergency exit; any other error: logged.
PlaceStop ==
  /\ task.at = "placeStop"
  /\ trade = "open" /\ Free >= amount
  /\ Placed("stoploss", amount, At("recordStop"))

RefuseStop ==
  /\ task.at = "placeStop"
  /\ \/ JustGo(Done)
     \/ /\ trade = "open" /\ Free < amount
        /\ JustGo([Idle EXCEPT !.at = "refind", !.todo = Open(rows)])
     \/ /\ trade = "open" /\ Free >= amount
        /\ JustGo(ExitFlow(0))

\* The row is added to the session and not committed here.
RecordStop ==
  /\ task.at = "recordStop"
  /\ rows' = [rows EXCEPT ![task.o] = task.snap]
  /\ task' = Done
  /\ UNCHANGED <<trade, amount, db>> /\ Outside

\* The next commit of the caller (process, or the RPC handler).
Commit ==
  /\ task.at = "commit"
  /\ db' = Committed(rows, trade, amount)
  /\ task' = Idle
  /\ UNCHANGED <<rows, trade, amount>> /\ Outside
-----------------------------------------------------------------------------
(* Rebuilding a trade from the orders on the exchange; faults; restart *)

\* handle_onexchange_order, because the position can not be sold from the
\* wallet, or because the operator asks for it.
ReloadTrade ==
  /\ task = Idle
  /\ \/ ManualReload /\ trade \in {"open", "closed"}
     \/ /\ trade = "open" /\ Open(rows) = {}
        /\ SuccessfulEntries(rows) # {}
        /\ Held < amount
  /\ JustGo([task EXCEPT !.at = "adopt", !.size = amount,
                         !.todo = {o \in Orders : ex[o].status # "none"}])

\* One order of its loop, oldest first; an unknown one gets a row.  The update
\* runs with send_msg=False.
AdoptOrder(o) ==
  /\ task.at = "adopt" /\ o \in task.todo
  /\ \A p \in task.todo : o <= p
  /\ UpdateTradeState(o, Snapshot(o), FALSE, [task EXCEPT !.todo = task.todo \ {o}])
  /\ unknown' = unknown \ {o}
  /\ UNCHANGED <<ex, faults>>

Adopted ==
  /\ task.at = "adopt" /\ task.todo = {}
  /\ IF /\ trade = "open"
        /\ Held < amount \/ (Held = 0 /\ amount = 0)
        /\ \A o \in Orders : \/ rows[o].status = "none"
                             \/ rows[o].side = "entry" /\ CanceledEmpty(rows[o])
     THEN DeleteTrade
     ELSE /\ task' = StopsFirst(Done, IF trade = "open" /\ amount # task.size
                                      THEN OpenStops(rows) ELSE {})
          /\ Bot
  /\ Outside

\* A cancel call fails with TemporaryError, and the handler ends.  Only
\* handle_replace_order catches it, around the placing of the new entry: an exit
\* is replaced after something was bought, when replace_order_failed only logs.
Abort ==
  /\ task.at \in {"cancel", "stops"}
  /\ IF task.mode = "replace" THEN ReplaceOrderFailed ELSE task' = Done /\ Bot
  /\ Outside

\* create_order timed out although the exchange took the order.
LostReply ==
  /\ task.at \in Recording /\ faults < MaxFaults
  /\ faults' = faults + 1
  /\ unknown' = unknown \cup {task.o}
  /\ ex' = ex
  /\ IF task.at = "recordEntry" /\ task.mode = "replace" THEN ReplaceOrderFailed
     ELSE task' = Done /\ Bot

\* The process dies.  What was not committed is lost; after the restart
\* startup_update_open_orders goes through every open row of the database.
Lost == {o \in Orders : rows[o].status # "none" /\ db.rows[o].status = "none"}
          \cup (IF task.at \in Recording THEN {task.o} ELSE {})

Crash ==
  /\ faults < MaxFaults
  /\ faults' = faults + 1
  /\ unknown' = unknown \cup Lost
  /\ rows' = db.rows /\ trade' = db.trade /\ amount' = db.amount
  /\ task' = [Idle EXCEPT !.at = "startup", !.todo = Open(db.rows)]
  /\ UNCHANGED <<ex, db>>

\* startup_update_open_orders.  An order that is not found counts as cancelled
\* (the test for "older than 5 days" holds for every order).
StartupUpdate(o) ==
  /\ task.at = "startup" /\ o \in task.todo
  /\ LET rest == [task EXCEPT !.todo = task.todo \ {o}]
         gone == [rows[o] EXCEPT !.status = "canceled"]
     IN \/ Found(o) /\ UpdateTradeState(o, Snapshot(o), TRUE, rest)
        \/ /\ ~Found(o)
           /\ IF gone.side = "entry" THEN CanceledEntry(o, gone, FALSE, rest)
              ELSE UpdateTradeState(o, gone, TRUE, rest)
        \/ task' = rest /\ Bot
  /\ Outside

Started ==
  /\ task.at = "startup" /\ task.todo = {}
  /\ JustGo(Done)
-----------------------------------------------------------------------------
Init ==
  /\ ex = [o \in Orders |-> NoOrder]
  /\ rows = [o \in Orders |-> NoOrder]
  /\ trade = "none"
  /\ amount = 0
  /\ db = Committed(rows, trade, amount)
  /\ task = Idle
  /\ unknown = {}
  /\ faults = 0

Market == \E o \in Orders : ExchangeCancel(o) \/ \E n \in 1..ex[o].amount : Fill(o, n)

\* What the bot decides to do next.
Begin ==
  \/ CreateTrade \/ AdjustEntry \/ CancelAllOpenOrders
  \/ ExitSignal \/ AdjustExit \/ ForceExit \/ ManageStoploss \/ ReloadTrade
  \/ \E o \in Orders : ManageOpenOrder(o) \/ RpcCancelOpenOrder(o)

\* What it then has to do.
Continue ==
  \/ PlaceEntry \/ RefuseEntry \/ RecordEntry
  \/ RefuseCancel \/ AlreadyCanceled \/ CancelOrder \/ Managed \/ Replaced
  \/ CancelledOpen \/ ForceExitNow \/ CheckExitAmount
  \/ PlaceExit \/ RefuseExit \/ RecordExit \/ Refound
  \/ FetchedStops \/ PlaceStop \/ RefuseStop \/ RecordStop
  \/ Adopted \/ Started \/ Commit
  \/ \E o \in Orders :
       \/ CancelNextOpen(o) \/ ForceNext(o) \/ CancelStop(o) \/ FetchStop(o)
       \/ Refind(o) \/ AdoptOrder(o) \/ StartupUpdate(o)

Next == Market \/ Begin \/ Continue \/ Abort \/ LostReply \/ Crash

Spec == Init /\ [][Next]_vars

\* The bot's thread keeps stepping while it holds the lock; process() visits
\* every open order and every stoploss once per iteration, whatever else the
\* operator and the strategy do in between.
FairSpec ==
  /\ Spec
  /\ WF_vars(Continue)
  /\ \A o \in Orders : SF_vars(ManageOpenOrder(o))
  /\ SF_vars(ManageStoploss)
-----------------------------------------------------------------------------
(* Safety *)

\* Every order that is live on the exchange has an open row, so that the next
\* iteration or the next start finds it; except the one being recorded, and
\* those whose row a crash or a lost reply took.
KnownOrders ==
  \A o \in Orders : ex[o].status = "open" =>
    \/ rows[o].status = "open"
    \/ o \in unknown
    \/ task.at \in Recording /\ task.o = o

\* Between two handlers, when every row says what the exchange says and no
\* order is unknown, an open trade's amount is what is held ...
Reconciled == \A o \in Orders : rows[o].status # "open" /\ rows[o] = ex[o]

OpenTradeBalances ==
  task = Idle /\ Reconciled /\ unknown = {} /\ trade = "open" => amount = Held

\* ... and a closed trade holds nothing.
ClosedTradeHoldsNothing ==
  task = Idle /\ Reconciled /\ unknown = {} /\ trade = "closed" => Held = 0

\* A trade is deleted only when nothing was bought for it.
DeletedTradeHoldsNothing ==
  trade = "deleted" /\ unknown = {} =>
    \A o \in Orders : ex[o].filled = 0 /\ ex[o].status # "open"

\* Without position adjustments at most one order buys for the trade at any time:
\* an entry is replaced only once it is cancelled.
SingleEntryOrder ==
  unknown = {} =>
    Cardinality({o \in Orders : ex[o].status = "open" /\ ex[o].side = "entry"}) <= 1

\* An open trade that holds nothing and does not try to buy.  It occupies a slot
\* for ever, as no handler does anything about it.
EmptyTrade == task = Idle /\ trade = "open" /\ amount = 0 /\ OpenOrders(rows) = {}

\* As long as the bot runs and hears every answer, its handlers leave no empty
\* trade behind: a trade goes when its last entry goes unfilled.
NoEmptyTrade == faults = 0 => ~EmptyTrade

\* A restart leaves none behind either.
RestartLeavesNoEmptyTrade == unknown = {} => ~EmptyTrade

\* A trade is closed only when no order of it is open.
ClosedTradeHasNoOpenOrders ==
  task = Idle /\ trade = "closed" => OpenOrders(rows) = {}

\* A closed trade is history: it is not opened again.
ClosedTradeStaysClosed == [][trade = "closed" => trade' = "closed"]_vars

\* An exit that replaces another sells what the replaced order left unsold; if
\* that order was filled meanwhile, nothing is placed.
ReplacementSellsRemaining ==
  [][task.at = "replaced" /\ task'.at \in {"stops", "checkAmount"}
       => Remaining(task.o) > 0]_vars

\* What the bot once knew to be filled stays filled: no handler applies an
\* order dict that is older than the row.
FillsNeverForgotten ==
  [][\A o \in Orders : rows'[o].status # "none" => rows'[o].filled >= rows[o].filled]_vars

(* Liveness *)

\* A handler ends, so the lock is given back.
HandlerEnds == task # Idle ~> task = Idle

\* An order that is no longer live is found out while the trade is open.
OrderReconciled ==
  \A o \in Orders :
    (o \in OpenOrders(rows) /\ ex[o].status # "open" /\ trade = "open")
      ~> (rows[o].status # "open" \/ trade # "open")
=============================================================================
