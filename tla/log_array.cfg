SPECIFICATION Spec
CONSTANTS
  MaxTerm = 2
  MaxIndex = 3
  d1 = d1
  Term <- Terms
  Data = {d1}
  Junk = Junk
  InitialCapacity = 1
  Index <- Indexes
  Chunks <- OneOrThree
  MaxCapacity = 4
INVARIANT TypeOK
INVARIANT IndexFieldRight
INVARIANT LookupsAgree
PROPERTY ImplementsLog
