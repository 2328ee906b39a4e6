\* As Rent.cfg, with one DID: does every instruction settle the balance?
SPECIFICATION RentSpec
CONSTANTS
  alice = alice
  bob = bob
  Cell = {alice, bob}
  Compressed = {}
  Key <- MCKey
  OnCurve <- MCKey
  KeyLen <- MCKeyLen
  Subject <- Alice
  Signer <- Alice
  Nonce = {1}
  Fragment = {"default", "m1", "s1"}
  ValidFragment = {"default", "m1", "s1"}
  ServiceValue = {"web", "mail", "chat"}
  ValidServiceValue = {"web", "chat"}
  External = {"x"}
  ValidExternal = {"x"}
  MethodInput <- MCMethodInput
  BufferInput <- MCBufferInput
  ChunkInput <- MCChunkInput
  FlagInput <- MCFlagInput
  ControllerInput <- NoList
  OtherInput <- MCOtherInput
  MaxVerificationMethods = 2
  MaxServices = 1
  MaxNativeControllers = 0
  MaxOtherControllers = 1
  MaxVersion = 1
  FragmentLen <- MCFragmentLen
  ValueLen <- MCValueLen
  ExternalLen <- MCExternalLen
  Payer = {payer}
  Wealth = 1000
  Rate = {1, 2}
  Gift = {150}
  GiftBound = 400
PROPERTIES
  EveryInstructionSettles
CHECK_DEADLOCK FALSE
