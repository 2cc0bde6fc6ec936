CONSTANTS
  a1 = a1
  a2 = a2
  b1 = b1
  alpha = alpha
  beta = beta
  shared = shared
  u1 = u1
  Docs = {a1, a2, b1}
  NameOf <- TwoNames
  Beginnings <- CutDocs
  FileOf <- OneFile
  Version <- Versions
  Valid = {a1, a2, b1}
  Handwritten = {a1}
  Duplicates <- BothDuplicates
  Users = {u1}
  MaxBegun = 2
  MaxBoots = 2
  MaxMishaps = 1
CHECK_DEADLOCK FALSE
SPECIFICATION Spec
INVARIANTS RowsAreStored OneActiveVersion FilesMatchHistory PromoterSurvives
