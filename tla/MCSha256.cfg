\* Up to two blocks and a little more, split around the sizes where the padding
\* needs a second block and where a block is full.
CONSTANTS
  Chunk = {8, 55, 64}
  MaxLength = 128
SPECIFICATION Spec
INVARIANTS TypeOK HashIsOfWhole NothingLost
