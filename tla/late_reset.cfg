\* As in parts.cfg.
CONSTANTS
    Images = {f, g}
    Bitstream = blank
    NWords = 2
    MaxPresses = 3
SPECIFICATION ServerSpec
INVARIANT NeverMixed
