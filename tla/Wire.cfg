SPECIFICATION Spec
CONSTANTS
    Edge <- MCEdge
    MessageId <- MCMessageId
    TextLengths = {1, 128, 900}
    MaxEntries = 2
INVARIANTS ReadAsMeant SizeExact  EntriesArrive DeliveredAsPut
