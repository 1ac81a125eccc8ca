------------------------------ MODULE Rotation ------------------------------
(***************************************************************************)
(* The rotation by 45 degrees: rotate45 in software/dvs_rotate/main.c, on  *)
(* packed words of 32 bits with shifts of signed numbers, and its mirror   *)
(* in harness/host/dvs_rotate_view.py, on coordinates.                     *)
(***************************************************************************)
EXTENDS Integers

CONSTANT HighBits          \* what time stamp and polarity may be in a word

ASSUME RotationAssumption == HighBits \subseteq Nat

WIDTH == 126
HEIGHT == 112
CX == WIDTH \div 2
CY == HEIGHT \div 2

VARIABLES event, result    \* the word read, the word written; -1 before it

turning == <<event, result>>

Pack(high, y, x) == high * 2^14 + y * 2^7 + x

unpack(w) == [x |-> w % 2^7, y |-> (w \div 2^7) % 2^7]

\* Faulty: towards zero, as a division would.  (Faulty variants precede the
\* definition they vary; only the mutation runs use them.)
HalfTruncated(v) == IF v < 0 THEN -((-v) \div 2) ELSE v \div 2

\* >> of a signed number keeps the sign and rounds down.
Half(v) == v \div 2

clampi(v, lo, hi) == IF v < lo THEN lo ELSE IF v > hi THEN hi ELSE v

rotate45(w) ==
    LET tx == unpack(w).x - CX
        ty == unpack(w).y - CY
        nx == clampi(Half(tx - ty) + CX, 0, WIDTH - 1)
        ny == clampi(Half(tx + ty) + CY, 0, HEIGHT - 1)
    IN  Pack(w \div 2^14, ny, nx)

\* numpy: the shift is a floor, clip the limits.
mirrored(x, y) ==
    LET Floor(v) == (v - (v % 2)) \div 2
        AtLeastZero(v) == IF v >= 0 THEN v ELSE 0
        Clip(v, hi) == IF hi <= AtLeastZero(v) THEN hi ELSE AtLeastZero(v)
    IN  [x |-> Clip(Floor((x - CX) - (y - CY)) + CX, WIDTH - 1),
         y |-> Clip(Floor((x - CX) + (y - CY)) + CY, HEIGHT - 1)]

-----------------------------------------------------------------------------
RotationInit == /\ \E h \in HighBits, y, x \in 0 .. 2^7 - 1 : event = Pack(h, y, x)
                /\ result = -1

Rotate == /\ result = -1
          /\ result' = rotate45(event)
          /\ UNCHANGED event

-----------------------------------------------------------------------------
(***************************************************************************)
(* Chip and host rotate every word alike, those outside of the sensor      *)
(* included; time stamp and polarity pass through; and the result is       *)
(* inside the sensor, so that no event takes another one's address         *)
(* (dvs_rotate/main.c:17-20).                                              *)
(***************************************************************************)
RotationsAgree ==
    result # -1 => /\ unpack(result) = mirrored(unpack(event).x, unpack(event).y)
                   /\ result \div 2^14 = event \div 2^14
                   /\ unpack(result).x < WIDTH /\ unpack(result).y < HEIGHT
=============================================================================
