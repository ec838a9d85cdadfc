\* The transaction queue's shape: two producers, one consumer.
SPECIFICATION FairSpec
CONSTANTS
    Producers = {p1, p2}
    Consumers = {c1}
    Values = {v1}
    None = None
    Capacity = 2
    MaxTicket = 4
PROPERTIES EveryTicketPopped
