CONSTANTS
  Blocks <- AllBlocks
  Contexts <- ContextsOf
  ByteBits = 2
  AndByte <- MCAndByte
  OrByte <- MCOrByte
  XorByte <- MCXorByte
  JccBlock = 80
  CMPAddress = 84
  Trials = 2
  Memory <- MCMemory
  Kernel <- MCKernel
SPECIFICATION Spec
INVARIANTS InStep FlagsRight AbortsOnlyOn16Bits
