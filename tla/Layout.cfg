\* One account edited in place by every instruction, in every order.
SPECIFICATION LayoutSpec
CONSTANTS
  Cell <- MCCell
  Compressed = {}
  Key <- MCKey
  OnCurve <- MCOnCurve
  KeyLen <- MCKeyLen
  Subject <- MCSubject
  Nonce = {5}
  Signer <- MCSigner
  Fragment = {"default", "m1", "m2", "m3"}
  ValidFragment = {"default", "m1", "m2", "m3"}
  Spelling <- MCSpelling
  Address <- MCAddress
  AddressLen = 3
  ServiceValue <- MCServiceValue
  ValidServiceValue <- MCServiceValue
  External <- MCExternal
  ValidExternal <- MCExternal
  MethodInput <- MCMethodInput
  FlagInput <- MCFlagInput
  ControllerInput <- MCControllerInput
  OtherInput <- MCOtherInput
  MaxVerificationMethods = 3
  MaxServices = 2
  MaxNativeControllers = 2
  MaxOtherControllers = 2
  MaxVersion = 2
INVARIANTS
  ExactlySerialized
  LengthIsSpace
PROPERTIES
  BytesAreDocuments
  PlacesKept
CHECK_DEADLOCK FALSE
