SPECIFICATION ChainSpec
CONSTANTS
    Readable <- SomeReadable
    Writable <- SomeWritable
    MaxCall = 3
INVARIANTS
    NoStrayWrite
PROPERTIES
    ActsAsFlat
