CONSTANTS
  s1 = s1
  s2 = s2
  s3 = s3
  SSRCs <- MCSSRCs
  Addresses <- MCAddresses
  MaxChanges = 1
SYMMETRY MCSymmetry
SPECIFICATION Spec
INVARIANTS
  CountsAgree
  OwnKept
  OneHost
PROPERTIES
  LeaversSayBye
