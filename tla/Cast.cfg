\* Once MaxCards are made, a run that would make another one fails.
SPECIFICATION Spec
CONSTANTS
  Names = {n1, n2, n3}
  NoName = NoName
  MaxCards = 3
  MaxAliases = 1
  MaxClaims = 2
SYMMETRY Symmetry
INVARIANTS Inv NamesakesToldApart
PROPERTIES NewIsUnknown ClaimsShowTheName
