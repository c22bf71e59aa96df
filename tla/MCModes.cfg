CONSTANTS
  W = 2
  Xor <- XorBit
  Encrypt <- EncryptBits
  Decrypt <- DecryptBits
  Keys = {1}
  BadKeys = {2}
  MemSize = 28
  Memories <- MemoryPatterns
  Pointers = {0, 1, 3, 5, 7, 17}
  Sizes = {12, 16, 20, 32, 40, 48}
  TextWords = 64
  Pads = {0, 1, 2, 3, 4, 5, 6, 7, 8, 9, 10, 11, 12, 13, 14, 15, 16, 17, 255}
SPECIFICATION JointSpec
INVARIANTS ModesAndWeek2TypeOK CbcDecrypts CtrDecrypts WritesStayInside
  PrintedTextIsThePlaintext PaddingOutcome
CHECK_DEADLOCK FALSE
