SPECIFICATION ApiSpec
CONSTANTS
  root = root
  x = x
  y = y
  z = z
  a = a
  b = b
  i = i
  j = j
  k = k
  l = l
  gone = gone
  g = g
  noURI = noURI
  nil = nil
  Dimensions <- MCDimensions
  Nodes <- MCNodes
  Root = root
  Ids <- MCIds
  URIs <- MCURIs
  Groups <- MCGroups
  Exports <- MCExports
  Requests <- MCRequests
  NoURI = noURI
  None = nil
  MaxLevel = 4
INVARIANTS
  URIsLeadBack
  AliasURIs
  MenuIsReachable
  TransportsAgree
  ErrorsAreSeen
  
