\* Two channels, two sources of a device and one of a bundle, one command, one
\* failure and one silent flow.
SPECIFICATION Spec
CONSTANTS
    x1 = x1
    x2 = x2
    x3 = x3
    m = m
    device = device
    bundle = bundle
    FlowIds <- MCFlowIds
    Slots <- MCSlots
    Channels <- MCChannels
    Sources = {x1, x2, m}
    Origin <- MCOrigin
    Bundles = {bundle}
    SlotInBundle <- MCSlotInBundle
    NoSource = NoSource
    MaxAsked = 1
    MaxFailures = 1
    MaxTimeouts = 1
    MaxBacklog = 0
    Races = {}
INVARIANTS
    SinksFollowSubscriptions
    SingleWriter
    NoLockIsPoisoned
    HearsItsSource
