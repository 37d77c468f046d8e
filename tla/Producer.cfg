SPECIFICATION Spec
CONSTANTS
  BUF = 3
  Items = {1, 2}
INVARIANTS
  TypeOK
  BufferExact
  TopThere
  ShownThere
PROPERTIES
  ProducerServed
  ConsumerServed
