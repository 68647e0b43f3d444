SPECIFICATION Spec
CONSTANTS
  Req = {r1, r2}
  alice = alice
  bob = bob
  word = word
  p1 = p1
  p2 = p2
  p3 = p3
  prompt = prompt
  model = model
  Value <- MCValue
  EntityType <- MCEntityType
  Id <- MCId
  TypeOf <- MCTypeOf
  ShortId <- MCShortId
  Place <- MCPlace
  Leaf <- MCLeaf
  LeafOf <- MCLeafOf
  ProtocolLeaf <- MCProtocolLeaf
  Word <- MCWord
  Structured <- MCStructured
  Requests <- MCRequests
  Responses <- MCResponses
  TtlHours = 1
  Hour = 3
  Half = 8
  Lifetime = 1
  MaxTime = 3
SYMMETRY Symmetry
INVARIANTS TypeOK StructuredNeverForwarded ReplyFaithful OwnRowsOutlive RestoredWithinLifetime
