SPECIFICATION AcerSpec
CONSTANTS
    Base = 4
    MaxLag = 2
    SampleBytes = 2
    BlockSizes = {1, 6}
    Caps = {2, 7}
    Views <- MCViews
    Mirror <- MCMirror
    Xor <- MCXor
    Glyph <- MCGlyph
    Unglyph <- MCUnglyph
    PackedLength <- MCPackedLength
    Inputs <- MCInputs
    Alter <- MCAlter
INVARIANTS
    WrittenIsAccepted
    OmegaCommits
    AcceptedAsEncoded
