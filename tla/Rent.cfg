\* A key's DID, an owned one and uploads, while gifts arrive and the rent changes.
SPECIFICATION RentSpec
CONSTANTS
  alice = alice
  bob = bob
  Cell = {alice, bob}
  Compressed = {}
  Key <- MCKey
  OnCurve <- MCKey
  KeyLen <- MCKeyLen
  Subject <- AliceAndOwned
  Signer <- Alice
  Nonce = {1}
  Fragment = {"default", "m1", "s1"}
  ValidFragment = {"default", "m1", "s1"}
  ServiceValue = {"web", "mail", "chat"}
  ValidServiceValue = {"web", "chat"}
  External = {"x"}
  ValidExternal = {"x"}
  MethodInput <- MCMethodInput
  BufferInput <- MCBufferInput
  ChunkInput <- MCChunkInput
  FlagInput <- MCFlagInput
  ControllerInput <- NoList
  OtherInput <- MCOtherInput
  MaxVerificationMethods = 2
  MaxServices = 1
  MaxNativeControllers = 0
  MaxOtherControllers = 1
  MaxVersion = 1
  FragmentLen <- MCFragmentLen
  ValueLen <- MCValueLen
  ExternalLen <- MCExternalLen
  Payer = {payer}
  Wealth = 1000
  Rate = {1, 2}
  Gift = {150}
  GiftBound = 400
INVARIANTS
  Conserved
  CreationOpen
PROPERTIES
  ResizesStayExempt
  ResizesSettle
  ClosedIsEmpty
CHECK_DEADLOCK FALSE
