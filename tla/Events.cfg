\* Every event-logging instruction, and an indexer that lags behind.
SPECIFICATION EventSpec
CONSTANTS
  alice = alice
  bob = bob
  Cell <- MCCell
  Compressed = {}
  Key <- MCKey
  OnCurve <- MCKey
  KeyLen <- MCKeyLen
  Subject <- MCSubject
  Signer <- MCSigner
  Nonce = {1}
  Fragment = {"default", "m1"}
  ValidFragment = {"default", "m1"}
  ServiceValue = {"web"}
  ValidServiceValue = {"web"}
  External = {}
  ValidExternal = {}
  MethodInput <- MCMethodInput
  BufferInput <- MCBufferInput
  ChunkInput <- MCChunkInput
  FlagInput <- MCFlagInput
  ControllerInput <- MCControllerInput
  OtherInput <- NoList
  MaxVerificationMethods = 2
  MaxServices = 1
  MaxNativeControllers = 1
  MaxOtherControllers = 0
  MaxVersion = 4
  MaxEvents = 5
INVARIANTS
  LogTellsAll
  IndexIsCurrent
PROPERTIES
  IndexCatchesUp
CHECK_DEADLOCK FALSE
