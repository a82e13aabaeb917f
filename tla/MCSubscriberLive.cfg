\* Liveness: a channel is unsubscribed or subscribed again, a failure, and a flow
\* that falls silent.
SPECIFICATION FairSpec
CONSTANTS
    x1 = x1
    x2 = x2
    x3 = x3
    m = m
    device = device
    bundle = bundle
    FlowIds <- MCFlowIds
    Slots <- MCSlots
    Channels <- MCChannels
    Sources = {x1, m}
    Origin <- MCOrigin
    Bundles = {bundle}
    SlotInBundle <- MCSlotInBundle
    NoSource = NoSource
    MaxAsked = 1
    MaxFailures = 1
    MaxTimeouts = 1
    MaxBacklog = 0
    Races = {}
PROPERTY SubscriptionIsServed
