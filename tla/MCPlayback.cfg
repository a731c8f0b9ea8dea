SPECIFICATION Spec

CONSTANTS
    None = None
    NoPacket = NoPacket
    InfoBits = 3
    PacketIds = {1, 2, 3}
    Files <- MCFiles
    Targets = {0, 1, 2, 3}
    MaxSeeks = 2
    Chunks <- MCChunks

INVARIANTS
    ParsersAgree
    SeekLandsOnLatest
    ShowsItsChain
    StereoIsTwoMonos

PROPERTIES
    ChannelSpec
    PlaybackEnds

CHECK_DEADLOCK FALSE
