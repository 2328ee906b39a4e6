\* Three DIDs that may control one another: who has power over whom?
SPECIFICATION Spec
CONSTANTS
  alice = alice
  bob = bob
  prog = prog
  ghost = ghost
  point = point
  Cell <- MCCell
  Compressed <- MCCompressed
  Key <- MCKey
  OnCurve <- MCOnCurve
  KeyLen <- MCKeyLen
  ServiceValue = {"web", "mail", "white space"}
  ValidServiceValue = {"web", "mail"}
  External = {"did:web:x", "did:ion:y", "did:bio:z"}
  ValidExternal = {"did:web:x", "did:ion:y"}
  ValidFragment = {"default", "m1", "m2"}
  Fragment = {"default", "m1", "m2", "bad name"}
  Subject <- ThreeDids
  Signer <- MCSigner
  Nonce = {1}
  MethodInput <- OneMethod
  FlagInput = {}
  ControllerInput <- SubjectPairs
  OtherInput <- NoControllers
  MaxVerificationMethods = 2
  MaxServices = 0
  MaxNativeControllers = 1
  MaxOtherControllers = 0
  MaxVersion = 1
PROPERTIES
  ControlSpec
  TombstoneForever
CHECK_DEADLOCK FALSE
