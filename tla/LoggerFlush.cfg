SPECIFICATION Spec
CONSTANTS
    file = file
    Readers = {file}
    Threads = {thread1}
    ReaderOf <- MCReaderOf
    Writers = {writer1}
    Size = 8
    MaxLen = 2
    Lengths = {1, 2, 3}
    Events = TRUE
    FlushAnyTime = TRUE
PROPERTY
    ReadsOneEntry
