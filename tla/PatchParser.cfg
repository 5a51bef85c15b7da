\* Payloads of up to 3 lines of any kind, blocks of up to 4 lines, pairs of blocks.
CONSTANT Patches <- MCPatches
SPECIFICATION Spec
INVARIANT TypeOK
INVARIANT LinesKeepOrder
INVARIANT ParsesAsGrammar
