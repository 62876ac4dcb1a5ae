\* Three packets: empty, short, and as long as they may be; reads of up to three bytes; one packet
\* may be of another version.  Three commands of none, one or two cells, of which two are too long.
\* Three pictures of two rows, of text read three tokens at a time.
\* Frames of eight values; a tree node is a byte, and a run counts to five.
SPECIFICATION AllSpec
CONSTANTS
  Base = 4
  PayloadSize = 6
  ChunkSize = 3
  ChanCap = 1
  FrameCap = 1
  Versions = {0, 1}
  Lengths = {0, 1, 5}
  MaxPackets = 3
  Writable <- TheWritable
  MaxLength = 12
  MaxCells = 2
  MaxCommands = 3
  MaxFrames = 3
  Size = 8
  HUFFMAN_ENCODE_LENGTH = 1
  ByteBits = 8
  MaxRun = 5
  U16 = 12
  MaxMissed = 1
  NoShape = NoShape
INVARIANTS
  PageInStep
  EncodingsRight
PROPERTIES
  KeepsPipe
\* Everything is received in the end; a frame that is not compressed ends the driver.
CHECK_DEADLOCK FALSE
