CONSTANTS
  Keys <- MCKeys
  Order <- MCOrder
  Md5Keys <- MCMd5Keys
  Archives <- MCArchives
  NoLength <- MCNoLength
SPECIFICATION Spec
INVARIANTS TypeOK VerifiedIntact
PROPERTIES EventuallyFetched
