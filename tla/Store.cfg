SPECIFICATION StoreSpec
CONSTANTS
  Sections = {copy, contract}
  Contract = contract
  Values = {v1, v2}
  Empty = Empty
  Clients = {c1, c2}
  Patchable = {copy}
  NoClient = NoClient
  MaxVersion = 3
SYMMETRY Interchangeable
INVARIANTS StoreTypeOK SnapshotChain HonestAnswers
PROPERTIES ContractWriteOnce Implements
