\* Two uploads of one authority, one after the other, over a faulty network.
SPECIFICATION UploadSpec
CONSTANTS
  alice = alice
  bob = bob
  Cell <- MCCell
  Compressed = {}
  Key <- MCKey
  OnCurve <- MCKey
  KeyLen <- MCKeyLen
  Subject <- MCSubject
  Signer <- MCKey
  Nonce = {}
  Fragment = {"default", "m1", "m2", "bob"}
  ValidFragment = {"default", "m1", "m2", "bob"}
  ServiceValue = {}
  ValidServiceValue = {}
  External = {}
  ValidExternal = {}
  MethodInput <- MCMethodInput
  BufferInput <- MCBufferInput
  ChunkInput <- MCChunkInput
  Upload <- Hers
  KeyChunkLen = 2
  Founded <- MCFounded
  FlagInput = {}
  ControllerInput <- NoList
  OtherInput <- NoList
  MaxVerificationMethods = 3
  MaxServices = 0
  MaxNativeControllers = 0
  MaxOtherControllers = 0
  MaxVersion = 1
INVARIANTS
  WrittenIsPrefix
  ResumeIsTaken
PROPERTIES
  ProgressIsKept
  UploadsEnd
  AbandonedCloses
CHECK_DEADLOCK FALSE
