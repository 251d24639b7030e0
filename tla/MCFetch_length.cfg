CONSTANTS
  Keys <- MCKeys
  Order <- MCOrder
  Md5Keys <- MCMd5Keys
  Archives <- MCArchives
  NoLength <- MCNoLengthRepo
SPECIFICATION Spec
INVARIANT ContentLengthOptional
