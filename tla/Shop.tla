-------------------------------- MODULE Shop --------------------------------
(***************************************************************************)
(* The shops (shop.c): customers buy and suppliers supply under the mutex  *)
(* of each shop, while the main thread creates them, joins them, and tells *)
(* the suppliers when to stop.  A thread gets its demand or its first load *)
(* only after it was created.  A step is one access to what threads share. *)
(***************************************************************************)
EXTENDS Integers, Functions

CONSTANTS
    SHOP_NUMBER, CUSTOMER_NUMBER, SUPPLIER_NUMBER,
    Loads,       \* what random() % 1000 may give a shop or a supplier
    Demands,     \* what random() % 10000 may give a customer
    MaxLoads     \* bound: how often a supplier may draw a load for itself

Shops     == 0..(SHOP_NUMBER - 1)
Customers == 0..(CUSTOMER_NUMBER - 1)
Suppliers == 0..(SUPPLIER_NUMBER - 1)

VARIABLES
    locked,              \* is the mutex of a shop taken
    shop_stocks, demands, supplier_caps, customers_satisfied,
    cpc, shop,           \* customers: where each is, the shop it chose
    spc, id, visit,      \* suppliers: where each is, its id, its shop
    pc, next,            \* main thread: what it does, with which thread
    drawn,               \* history: the demand each customer was given
    initial, supplied,   \* history: the shops' first stock, all put in since
    loads                \* loads drawn so far

customers == <<cpc, shop>>
suppliers == <<spc, id, visit, supplied, loads>>
main == <<pc, next, drawn, initial, customers_satisfied>>
vars == <<locked, shop_stocks, demands, supplier_caps, customers, suppliers, main>>

Lock(i)   == ~locked[i] /\ locked' = [locked EXCEPT ![i] = TRUE]
Unlock(i) == locked' = [locked EXCEPT ![i] = FALSE]

-----------------------------------------------------------------------------
(* A customer.                                                             *)

Customer(c, from, to) == pc # "crashed" /\ cpc[c] = from /\ cpc' = [cpc EXCEPT ![c] = to]

(* Mutant: a customer leaves when a shop was empty.                        *)
LookAtDemandOnce(c) ==
    /\ \/ /\ demands[c] > 0 /\ Customer(c, "loop", "lock")
          /\ \E i \in Shops : shop' = [shop EXCEPT ![c] = i]
       \/ (demands[c] <= 0 \/ demands[c] # drawn[c]) /\ Customer(c, "loop", "left")
          /\ UNCHANGED shop
    /\ UNCHANGED <<locked, shop_stocks, demands, supplier_caps, suppliers, main>>

LookAtDemand(c) ==
    /\ \/ /\ demands[c] > 0 /\ Customer(c, "loop", "lock")
          /\ \E i \in Shops : shop' = [shop EXCEPT ![c] = i]
       \/ demands[c] <= 0 /\ Customer(c, "loop", "left") /\ UNCHANGED shop
    /\ UNCHANGED <<locked, shop_stocks, demands, supplier_caps, suppliers, main>>

EnterShop(c) ==
    /\ Customer(c, "lock", "buy") /\ Lock(shop[c])
    /\ UNCHANGED <<shop_stocks, demands, supplier_caps, shop, suppliers, main>>

Buy(c) ==
    /\ Customer(c, "buy", "clear")
    /\ demands' = [demands EXCEPT ![c] = @ - shop_stocks[shop[c]]]
    /\ UNCHANGED <<locked, shop_stocks, supplier_caps, shop, suppliers, main>>

ClearStock(c) ==
    /\ Customer(c, "clear", "unlock")
    /\ shop_stocks' = [shop_stocks EXCEPT ![shop[c]] = 0]
    /\ UNCHANGED <<locked, demands, supplier_caps, shop, suppliers, main>>

LeaveShop(c) ==
    /\ Customer(c, "unlock", "loop") /\ Unlock(shop[c])
    /\ UNCHANGED <<shop_stocks, demands, supplier_caps, shop, suppliers, main>>

CustomerStep(c) ==
    LookAtDemand(c) \/ EnterShop(c) \/ Buy(c) \/ ClearStock(c) \/ LeaveShop(c)

-----------------------------------------------------------------------------
(* A supplier.                                                             *)

Supplier(s, from, to) == pc # "crashed" /\ spc[s] = from /\ spc' = [spc EXCEPT ![s] = to]

(* supplier_ids is never written: the id found there may be any number,    *)
(* and past the end of supplier_caps what happens is undefined.            *)
ReadId(s) ==
    /\ Supplier(s, "id", "loop")
    /\ \/ (\E n \in Suppliers : id' = [id EXCEPT ![s] = n]) /\ UNCHANGED pc
       \/ pc' = "crashed" /\ UNCHANGED id
    /\ UNCHANGED <<locked, shop_stocks, demands, supplier_caps, customers, visit, supplied,
                   loads, next, drawn, initial, customers_satisfied>>

(* Mutant: the flag was read once and for all, before it was set.          *)
LookAtCustomersOnce(s) ==
    /\ Supplier(s, "loop", "lock")
    /\ \E i \in Shops : visit' = [visit EXCEPT ![s] = i]
    /\ UNCHANGED <<locked, shop_stocks, demands, supplier_caps, customers, id, supplied,
                   loads, main>>

LookAtCustomers(s) ==
    /\ \/ /\ customers_satisfied = 0 /\ Supplier(s, "loop", "lock")
          /\ \E i \in Shops : visit' = [visit EXCEPT ![s] = i]
       \/ customers_satisfied # 0 /\ Supplier(s, "loop", "left") /\ UNCHANGED visit
    /\ UNCHANGED <<locked, shop_stocks, demands, supplier_caps, customers, id, supplied,
                   loads, main>>

(* Mutant: the shop is supplied without its mutex.                         *)
SupplierEnterUnlocked(s) ==
    /\ Supplier(s, "lock", "supply") /\ UNCHANGED locked
    /\ UNCHANGED <<shop_stocks, demands, supplier_caps, customers, id, visit, supplied,
                   loads, main>>

SupplierEnter(s) ==
    /\ Supplier(s, "lock", "supply") /\ Lock(visit[s])
    /\ UNCHANGED <<shop_stocks, demands, supplier_caps, customers, id, visit, supplied,
                   loads, main>>

Supply(s) ==
    /\ Supplier(s, "supply", "load")
    /\ shop_stocks' = [shop_stocks EXCEPT ![visit[s]] = @ + supplier_caps[id[s]]]
    /\ supplied' = supplied + supplier_caps[id[s]]
    /\ UNCHANGED <<locked, demands, supplier_caps, customers, id, visit, loads, main>>

(* Once MaxLoads loads have been drawn all further ones are 0.             *)
Load(s) ==
    /\ Supplier(s, "load", "unlock")
    /\ \E a \in Loads :
          /\ loads >= MaxLoads => a = 0
          /\ supplier_caps' = [supplier_caps EXCEPT ![id[s]] = a]
    /\ loads' = IF loads < MaxLoads THEN loads + 1 ELSE loads
    /\ UNCHANGED <<locked, shop_stocks, demands, customers, id, visit, supplied, main>>

SupplierLeave(s) ==
    /\ Supplier(s, "unlock", "loop") /\ Unlock(visit[s])
    /\ UNCHANGED <<shop_stocks, demands, supplier_caps, customers, id, visit, supplied,
                   loads, main>>

SupplierStep(s) ==
    \/ ReadId(s) \/ LookAtCustomers(s) \/ SupplierEnter(s) \/ Supply(s) \/ Load(s)
    \/ SupplierLeave(s)

-----------------------------------------------------------------------------
(* The main thread.                                                        *)

Main(from, to) == pc = from /\ pc' = to

CreateCustomer ==
    /\ Main("create", "demand")
    /\ cpc' = [cpc EXCEPT ![next] = "loop"]
    /\ UNCHANGED <<locked, shop_stocks, demands, supplier_caps, shop, suppliers, next,
                   drawn, initial, customers_satisfied>>

DrawDemand ==
    /\ pc = "demand"
    /\ \E a \in Demands : /\ demands' = [demands EXCEPT ![next] = a]
                          /\ drawn' = [drawn EXCEPT ![next] = a]
    /\ IF next + 1 < CUSTOMER_NUMBER THEN pc' = "create" /\ next' = next + 1
                                     ELSE pc' = "supplier" /\ next' = 0
    /\ UNCHANGED <<locked, shop_stocks, supplier_caps, customers, suppliers, initial,
                   customers_satisfied>>

CreateSupplier ==
    /\ Main("supplier", "cap")
    /\ spc' = [spc EXCEPT ![next] = "id"]
    /\ UNCHANGED <<locked, shop_stocks, demands, supplier_caps, customers, id, visit,
                   supplied, loads, next, drawn, initial, customers_satisfied>>

DrawCap ==
    /\ pc = "cap"
    /\ \E a \in Loads : supplier_caps' = [supplier_caps EXCEPT ![next] = a]
    /\ IF next + 1 < SUPPLIER_NUMBER THEN pc' = "supplier" /\ next' = next + 1
                                     ELSE pc' = "join" /\ next' = 0
    /\ UNCHANGED <<locked, shop_stocks, demands, customers, suppliers, drawn, initial,
                   customers_satisfied>>

JoinCustomer ==
    /\ pc = "join" /\ next < CUSTOMER_NUMBER /\ cpc[next] = "left"
    /\ next' = next + 1
    /\ customers_satisfied' = IF next = CUSTOMER_NUMBER - 1 THEN 1 ELSE customers_satisfied
    /\ UNCHANGED <<locked, shop_stocks, demands, supplier_caps, customers, suppliers, pc,
                   drawn, initial>>

JoinSupplier ==
    /\ pc = "join" /\ next >= CUSTOMER_NUMBER /\ spc[next - CUSTOMER_NUMBER] = "left"
    /\ next' = next + 1
    /\ pc' = IF next' = CUSTOMER_NUMBER + SUPPLIER_NUMBER THEN "joined" ELSE "join"
    /\ UNCHANGED <<locked, shop_stocks, demands, supplier_caps, customers, suppliers,
                   drawn, initial, customers_satisfied>>

MainStep ==
    CreateCustomer \/ DrawDemand \/ CreateSupplier \/ DrawCap \/ JoinCustomer \/ JoinSupplier

-----------------------------------------------------------------------------
Total(f) == FoldFunction(+, 0, f)

Init ==
    /\ locked = [i \in Shops |-> FALSE]
    /\ shop_stocks \in [Shops -> Loads]
    /\ demands = [c \in Customers |-> 0]
    /\ supplier_caps = [s \in Suppliers |-> 0]
    /\ customers_satisfied = 0
    /\ cpc = [c \in Customers |-> "none"] /\ shop = [c \in Customers |-> 0]
    /\ spc = [s \in Suppliers |-> "none"]
    /\ id = [s \in Suppliers |-> 0] /\ visit = [s \in Suppliers |-> 0]
    /\ pc = "create" /\ next = 0
    /\ drawn = [c \in Customers |-> 0]
    /\ initial = Total(shop_stocks) /\ supplied = 0
    /\ loads = 0

Next ==
    \/ MainStep
    \/ \E c \in Customers : CustomerStep(c)
    \/ \E s \in Suppliers : SupplierStep(s)

Spec == Init /\ [][Next]_vars

(* Every thread goes on running, and a mutex that is free again and again  *)
(* is taken in the end.                                                    *)
RoutinesFair ==
    /\ \A c \in Customers : WF_vars(CustomerStep(c)) /\ SF_vars(EnterShop(c))
    /\ \A s \in Suppliers : WF_vars(SupplierStep(s)) /\ SF_vars(SupplierEnter(s))

-----------------------------------------------------------------------------
(* What the shops began with and were supplied with is what they hold and  *)
(* what was bought: no interleaving of buyers and suppliers loses goods or *)
(* sells them twice, though a demand is given while its customer runs.     *)
InHand(c) == IF cpc[c] = "clear" THEN shop_stocks[shop[c]] ELSE 0
GoodsConserved ==
    initial + supplied
        = Total(shop_stocks) + Total([c \in Customers |-> drawn[c] - demands[c] - InHand(c)])

(* A customer who left with a demand left before it was given the demand:  *)
(* it bought nothing at all.                                               *)
UnsatisfiedNeverBought ==
    \A c \in Customers : cpc[c] = "left" /\ demands[c] > 0 => demands[c] = drawn[c]

(* Nobody waits for what nobody will do: whoever finds a mutex taken waits *)
(* for somebody inside that shop, and the main thread waits for a supplier *)
(* only when the suppliers have been told to stop.                         *)
LockedFromInside(i) ==
    locked[i] => \/ \E c \in Customers : shop[c] = i /\ cpc[c] \in {"buy", "clear", "unlock"}
                 \/ \E s \in Suppliers : visit[s] = i /\ spc[s] \in {"supply", "load", "unlock"}
JoinsSomebody ==
    pc = "join" /\ next >= CUSTOMER_NUMBER =>
        next < CUSTOMER_NUMBER + SUPPLIER_NUMBER /\ customers_satisfied = 1

(* Once the customers have left, the suppliers stop and the task ends.     *)
TaskEnds ==
    /\ (\A c \in Customers : cpc[c] = "left") ~> pc \in {"joined", "crashed"}
    /\ [](JoinsSomebody /\ \A i \in Shops : LockedFromInside(i))
=============================================================================
