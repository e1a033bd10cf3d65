\* One order and a fault of any kind at any moment, after which messages are lost,
\* repeated or overtaken.
SPECIFICATION Spec
CONSTANTS
    Orders = {o1}
    MaxFaults = 1
    None = None
INVARIANTS
    CompletedIsDelivered
    CompensatedIsRefunded
    RefundsAnswerShortage
    MoneyIsConserved
\* The system stops when every message is handled and no order is left to place.
CHECK_DEADLOCK FALSE
