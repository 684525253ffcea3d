-------------------------------- MODULE MCSpeedTests --------------------------------
(* SpeedTests on small instances. The statistics are those ConfigBuilder writes for a
   plain profile 1, for profile 2 whose group has 1 as its front proxy, and for the chain
   3 of 1 and 2. *)
EXTENDS SpeedTests

C == INSTANCE ConfigBuilder
World == [prof |-> [i \in 1..3 |-> [gid |-> IF i = 2 THEN 2 ELSE 1, chain |-> i = 3, list |-> IF i = 3 THEN <<1, 2>> ELSE <<>>,
                                    kind |-> "in", fails |-> FALSE, domain |-> FALSE]],
          front |-> <<None, 1>>, test |-> TRUE, vpn |-> FALSE]
Leaves(i, t) == [id |-> i, tag |-> t]
MCProxy == <<"proxy", None>>
MCStats == <<<<Leaves(1, MCProxy)>>,
             <<Leaves(2, MCProxy), Leaves(1, <<"g", 1>>), Leaves(2, MCProxy)>>,
             <<Leaves(2, MCProxy), Leaves(1, <<"g", 1>>), Leaves(3, MCProxy)>>>>
ASSUME StatsAreBuilt == MCStats = [i \in 1..3 |-> C!BuildChain(World, i).stats]

Case(list, threads, kinds, unfit, most) ==
  [list |-> list, threads |-> threads, kinds |-> kinds, unfit |-> unfit] @@ most
MCCases ==
  {Case(<<1, 2>>, 2, {"full", "open"}, {}, [runs |-> {}, starts |-> 0, bytes |-> 0, pools |-> 2, stops |-> 1, deletes |-> 0]),
   Case(<<1, 2>>, 2, {"url"}, {2}, [runs |-> {}, starts |-> 0, bytes |-> 0, pools |-> 2, stops |-> 0, deletes |-> 1]),
   Case(<<3>>, 1, {"url"}, {}, [runs |-> {1}, starts |-> 1, bytes |-> 1, pools |-> 1, stops |-> 0, deletes |-> 0]),
   Case(<<1>>, 1, {"url"}, {}, [runs |-> {1}, starts |-> 1, bytes |-> 1, pools |-> 1, stops |-> 0, deletes |-> 0]),
   Case(<<3>>, 1, {}, {}, [runs |-> {2, 3}, starts |-> 2, bytes |-> 1, pools |-> 0, stops |-> 0, deletes |-> 0]),
   Case(<<3>>, 1, {}, {}, [runs |-> {2, 3}, starts |-> 1, bytes |-> 1, pools |-> 0, stops |-> 0, deletes |-> 1])}
=============================================================================
