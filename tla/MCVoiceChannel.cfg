SPECIFICATION FairSpec
CONSTANTS
    Speakers = {tts, outbound}
    None = None
    MaxOpen = 2
INVARIANTS
    PlaybackAlive
    OnePlayback
    ReadsOpenCapture
    NothingLeftOpen
PROPERTIES
    CallsReturn
