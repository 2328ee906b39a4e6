\* One DID: fragments shared by methods and services, key types, limits.
SPECIFICATION Spec
CONSTANTS
  alice = alice
  bob = bob
  prog = prog
  ghost = ghost
  point = point
  Cell <- MCCell
  Compressed <- MCCompressed
  Key <- MCKey
  OnCurve <- MCOnCurve
  KeyLen <- MCKeyLen
  ServiceValue = {"web", "mail", "white space"}
  ValidServiceValue = {"web", "mail"}
  External = {"did:web:x", "did:ion:y", "did:bio:z"}
  ValidExternal = {"did:web:x", "did:ion:y"}
  ValidFragment = {"default", "m1", "m2", "m3"}
  Fragment = {"default", "m1", "m2", "m3", "bad name"}
  Subject <- AliceAndGhost
  Signer <- Wallets
  Nonce = {1}
  MethodInput <- ServiceMethods
  FlagInput <- AllFlags
  ControllerInput <- SubjectPairs
  OtherInput <- ExternalPairs
  MaxVerificationMethods = 2
  MaxServices = 2
  MaxNativeControllers = 2
  MaxOtherControllers = 1
  MaxVersion = 3
INVARIANTS
  ProtectedKeepsAuthority
  FragmentsUnique
  LimitsHold
  ControllersWellFormed
PROPERTIES
  VersionCounts
CHECK_DEADLOCK FALSE
