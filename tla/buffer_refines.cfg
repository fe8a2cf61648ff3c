\* Two byte values and a value-initialised cell; kCheapPrepend and
\* kInitialSize scaled to 2, extrabuf to 3, so that reads take one or two
\* iovecs and appends both move and grow the vector.
SPECIFICATION Spec
CONSTANTS
    a = a
    b = b
    z = z
    Bytes <- MCBytes
    Zero = z
    CheapPrepend = 2
    InitialSize = 2
    ExtraBuf = 3
    MaxLen = 3
    MaxContent = 4
INVARIANT TypeOK
PROPERTY Refines
