\* The same parts: does the driver ever choose an encoding that it cannot write?
SPECIFICATION AllSpec
CONSTANTS
  Base = 4
  PayloadSize = 6
  ChunkSize = 3
  ChanCap = 1
  FrameCap = 1
  Versions = {0, 1}
  Lengths = {0, 1, 5}
  MaxPackets = 3
  Writable <- TheWritable
  MaxLength = 12
  MaxCells = 2
  MaxCommands = 3
  MaxFrames = 3
  Size = 8
  HUFFMAN_ENCODE_LENGTH = 1
  ByteBits = 8
  MaxRun = 5
  U16 = 12
  MaxMissed = 1
  NoShape = NoShape
INVARIANT
  EncodingKnown
CHECK_DEADLOCK FALSE
