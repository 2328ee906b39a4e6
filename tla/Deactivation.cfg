\* One DID with two authorities, one of them protected.
SPECIFICATION Spec
CONSTANTS
  alice = alice
  bob = bob
  prog = prog
  ghost = ghost
  point = point
  Cell <- MCCell
  Compressed <- MCCompressed
  Key <- MCKey
  OnCurve <- MCOnCurve
  KeyLen <- MCKeyLen
  ServiceValue = {"web", "mail", "white space"}
  ValidServiceValue = {"web", "mail"}
  External = {"did:web:x", "did:ion:y", "did:bio:z"}
  ValidExternal = {"did:web:x", "did:ion:y"}
  ValidFragment = {"default", "m1", "m2"}
  Fragment = {"default", "m1", "m2", "bad name"}
  Subject <- OwnedByProg
  Signer <- MCSigner
  Nonce = {1}
  MethodInput <- ProtectionMethods
  FlagInput <- AuthorityFlags
  ControllerInput <- NoControllers
  OtherInput <- NoControllers
  MaxVerificationMethods = 3
  MaxServices = 0
  MaxNativeControllers = 0
  MaxOtherControllers = 0
  MaxVersion = 4
PROPERTY
  ProtectedGoesUnderOwnKey
CHECK_DEADLOCK FALSE
