SPECIFICATION FairSpec
CONSTANTS
    alice = alice
    bob = bob
    mallory = mallory
    DM = DM
    Nobody = Nobody
    NoChannel = NoChannel
    Messages <- TwoMessages
    Traffic <- MCTraffic
    Channels <- Channels012
    People <- MCPeople
    Enabled <- Channels01
    AdminChannels <- AdminChannel
    AllowedOn <- StopOnZero
    AdminKeys <- MCAdmins
    BlockedKeys = {}
    BlockedPrefixes <- Mallory
    DmEnabled = TRUE
    Periodic <- BothTasks
INVARIANTS TypeOK NothingLost TasksEndFirst OnlyAuthorisedStop SaidIsPermitted
PROPERTIES StopTakesEffect
