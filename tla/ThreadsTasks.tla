---------------------------- MODULE ThreadsTasks ----------------------------
(***************************************************************************)
(* The two threads tasks main may run (threads_task/source): the shared    *)
(* counter, taken in under its own names, and the shops.                   *)
(***************************************************************************)
EXTENDS SharedCounter

CONSTANTS SHOP_NUMBER, CUSTOMER_NUMBER, SUPPLIER_NUMBER, Loads, Demands, MaxLoads   \* see Shop

ASSUME SomeOfEach ==
    SHOP_NUMBER \in Nat \ {0} /\ CUSTOMER_NUMBER \in Nat \ {0} /\ SUPPLIER_NUMBER \in Nat \ {0}
ASSUME AmountsNat == Loads \subseteq Nat /\ 0 \in Loads /\ Demands \subseteq Nat
ASSUME MaxLoadsNat == MaxLoads \in Nat

VARIABLES
    task,
    locked, shop_stocks, demands, supplier_caps, customers_satisfied, cpc, shop,
    spc, id, visit, pc, joined, drawn, initial, supplied, loads

Shop == INSTANCE Shop WITH next <- joined

shops == <<locked, shop_stocks, demands, supplier_caps, customers_satisfied, cpc, shop,
           spc, id, visit, pc, joined, drawn, initial, supplied, loads>>

-----------------------------------------------------------------------------
TasksInit == task \in {"threads_task_1", "shop_task"} /\ Init /\ Shop!Init

RunCounter == task = "threads_task_1" /\ Next /\ UNCHANGED <<task, shops>>
RunShop    == task = "shop_task" /\ Shop!Next /\ UNCHANGED <<task, vars>>

TasksNext == RunCounter \/ RunShop

TasksSpec == TasksInit /\ [][TasksNext]_<<task, vars, shops>>

-----------------------------------------------------------------------------
(* Each property is one of Shop, where its comment says what it is about;  *)
(* NoneGained is SharedCounter's.                                          *)

(* No interleaving of buyers and suppliers loses goods or sells them twice.*)
GoodsConserved == Shop!GoodsConserved

(* A customer who left with a demand bought nothing at all.                *)
UnsatisfiedNeverBought == Shop!UnsatisfiedNeverBought

(* Once the customers have left, the suppliers stop and the task ends.     *)
TaskEnds == Shop!TaskEnds
=============================================================================
