SPECIFICATION FairSpec
CONSTANTS
    ThreadAmount = 5
    Adds = 3
    SHOP_NUMBER = 2
    CUSTOMER_NUMBER = 2
    SUPPLIER_NUMBER = 1
    Loads = {0, 2}
    Demands = {3}
    MaxLoads = 1
    MaxLines = 6
    Nothing = Nothing
    BufSize = 3
    Texts = {t1, t2}
    NULL = NULL
    MaxMessages = 8
INVARIANTS
    GoodsConserved
    UnsatisfiedNeverBought
    NoneGained
    NeverTorn
    Ring
    SentAsStored
PROPERTIES
    TaskEnds
    HandoverSpec
    LineIsTaken
CHECK_DEADLOCK FALSE
