CONSTANTS
    r1 = r1
    r2 = r2
    ann = ann
    bob = bob
    Inbound = {1, 2}
    Client = {ann, bob}
    Request = {r1, r2}
    Story <- MCStory
    MaxFaults = 1
    NoRow = NoRow
SPECIFICATION FairSpec
INVARIANTS MarkedUntilDelivered CountedOnce
PROPERTIES Converges
