CONSTANT Encodings <- AllEncodings
SPECIFICATION Spec
INVARIANTS LengthWhenTranslated DecodesAs TransfersEndBlock FitsBuffer
