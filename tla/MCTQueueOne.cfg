\* max_transaction_blocks = 1, which create_tqueue accepts.
SPECIFICATION Spec
CONSTANTS
    Producers = {p1}
    Consumers = {c1}
    Values = {v1, v2}
    None = None
    Capacity = 1
    MaxTicket = 3
PROPERTIES ImplementsFifo
