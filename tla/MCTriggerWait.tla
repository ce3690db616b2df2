---------------------------- MODULE MCTriggerWait ---------------------------
(* A small instance of TriggerWait: prices of 10^-3 on a grid of at most   *)
(* two significant digits and two decimals, slippage in tenths.            *)
EXTENDS TriggerWait

Level(px) == [px |-> px, sz |-> 1]
Book(bid, ask, ahead) ==
    [own |-> TRUE, bids |-> <<Level(bid)>>, asks |-> <<Level(ask)>>, ahead |-> ahead]

(* Around the steps of the grid: leading zeros, one, ten, and a wide one. *)
GoodBooks ==
    {Book(10, 20, 0), Book(90, 110, 0), Book(980, 990, 0), Book(1000, 1000, -1),
     Book(900, 2300, 1), Book(9600, 9900, 0), Book(11000, 99000, 0)}

(* Too old, ahead of its time, of another market, one-sided, crossed, with *)
(* a level of nothing, and out of order on either side.                    *)
BadBooks ==
    {Book(980, 990, -2), Book(980, 990, -4), Book(980, 990, 2),
     [Book(980, 990, 0) EXCEPT !.own = FALSE],
     [Book(980, 990, 0) EXCEPT !.bids = <<>>], [Book(980, 990, 0) EXCEPT !.asks = <<>>],
     Book(1000, 990, 0),
     [Book(980, 990, 0) EXCEPT !.asks = <<Level(990), [px |-> 1000, sz |-> 0]>>],
     [Book(980, 990, 0) EXCEPT !.bids = <<Level(980), Level(990)>>],
     [Book(980, 990, 0) EXCEPT !.asks = <<Level(990), Level(980)>>]}

MCBooks == GoodBooks \cup BadBooks
MCPlans == [side : {"long", "short"}, bps : {0, 3}, szDecimals : {0, 1, 3}]
=============================================================================
