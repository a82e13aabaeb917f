\* An update is carried out and its reply is late.
SPECIFICATION Spec
CONSTANTS
    x1 = x1
    x2 = x2
    x3 = x3
    m = m
    device = device
    bundle = bundle
    FlowIds <- MCFlowIds
    Slots <- MCSlots
    Channels <- MCChannels
    Sources = {x1, x2, x3}
    Origin <- MCOrigin
    Bundles = {}
    SlotInBundle <- MCSlotInBundle
    NoSource = NoSource
    MaxAsked = 2
    MaxFailures = 1
    MaxTimeouts = 0
    MaxBacklog = 0
    Races = {"lostReply"}
INVARIANT HearsItsSource
