SPECIFICATION Spec
CONSTANTS
    Crc <- MCCrc
    Greetings <- SomeGreetings
    Requests <- SomeRequests
    ReadSizes <- ShortReads
    Setups <- SomeSetups
    AuthRnds <- SomeAuthRnds
    DataRnds <- SomeDataRnds
    Answers <- SomeAnswers
    Payloads <- SomePayloads
INVARIANTS
    NoIPv4IsAnError
CHECK_DEADLOCK FALSE
