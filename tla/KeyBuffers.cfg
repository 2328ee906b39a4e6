\* Two DIDs and two uploaders: what can happen between opening and finishing?
SPECIFICATION BufferSpec
CONSTANTS
  alice = alice
  bob = bob
  Cell <- MCCell
  Compressed = {}
  Key <- MCKey
  OnCurve <- MCKey
  KeyLen <- MCKeyLen
  Subject <- MCSubject
  Signer <- MCKey
  Nonce = {1}
  Fragment = {"default", "m1", "m2"}
  ValidFragment = {"default", "m1", "m2"}
  ServiceValue = {}
  ValidServiceValue = {}
  External = {}
  ValidExternal = {}
  MethodInput <- MCMethodInput
  BufferInput <- MCBufferInput
  ChunkInput <- MCChunkInput
  FlagInput = {}
  ControllerInput <- MCControllerInput
  OtherInput <- NoList
  MaxVerificationMethods = 2
  MaxServices = 0
  MaxNativeControllers = 1
  MaxOtherControllers = 0
  MaxVersion = 1
INVARIANTS
  BufferTypeOK
  LimitsHold
  KeysWhole
PROPERTIES
  StagedIsKept
  BufferFinishesInItsDid
  UploadIsAnAdd
CHECK_DEADLOCK FALSE
