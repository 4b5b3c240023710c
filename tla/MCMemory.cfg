\* Memory of five frames of eight bytes, the first the kernel's and one the
\* bitmap's: slabs of three and of two objects, spans of one and of two pages.
\* Page tables in 20 frames, of which others have up to four: enough for two
\* processes and an exec, or too few at every step of it.
CONSTANTS
  PAGE_SIZE = 8
  BITS_PER_BYTE = 2
  BOOT_MAPPED_LIMIT = 40
  KernelEnd = 5
  MemBytes = 40
  Maps <- AllMaps
  HDR_SIZE = 2
  class_size <- TwoClasses
  Sizes = {2, 3, 4, 7}
  MaxObjects = 4
  Proc = {p1, p2}
  NFrames = 20
  MaxTaken = 4
  Nothing = Nothing
  Fault = Fault
  NoSlot = NoSlot
SPECIFICATION MCSpec
INVARIANTS
  FramesSound
  SearchesFind
  AllocationsSound
  FramesExact
  LoadedAsWritten
  ArgsArrive
PROPERTY IsAddressSpaces
\* Loading a program comes to an end.
CHECK_DEADLOCK FALSE
