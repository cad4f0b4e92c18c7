SPECIFICATION Spec
CONSTANTS
    alice = alice
    smith = smith
    moscow = moscow
    ab12 = ab12
    hello = hello
    DM = DM
    None = None
    Absent = Absent
    Junk = Junk
    NotANumber = NotANumber
    Endless = Endless
    MinusEndless = MinusEndless
    Names <- MCNames
    Order <- MCOrder
    Probe = 2
    Cap = 4
    MaxHops = 32
    RawConfigs <- MCRawConfigs
    Channels <- Slots014
    Packets <- MCPackets
    Messages <- MCMessages
    HexPrefixes <- Ab12
    NodeLines <- MCNodeLines
    NotFound <- MCNotFound
    Devices <- MCDevices
    MaxBytes = 16
INVARIANTS  EnabledChannelsAreNamed CommandAfterColon PingTellsItsPacket NodePartsArrive
