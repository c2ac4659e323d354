\* Any answer of the host, up to four payloads.
CONSTANTS
    Error = Error
    MaxPayloads = 4
SPECIFICATION FairSpec
INVARIANTS TypeOK ReleasedBeforeEnd
PROPERTIES BodySpec ReaderSeesEnd StreamReleased
CHECK_DEADLOCK FALSE
