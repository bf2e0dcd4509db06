------------------------------ MODULE C64Plot ------------------------------
(***************************************************************************)
(* The C64 version (main.asm): the loop over the screen and plot, which    *)
(* computes the address of a pixel in a bitmap of 8 by 8 cells with 8-bit  *)
(* additions whose carries are in part used and in part cleared.           *)
(* Calculating the color of a pixel is left out.                           *)
(***************************************************************************)
EXTENDS Integers

VARIABLES
    col, row,       \* x and y, bytes
    address,        \* gfx_ref of the pixel plotted last
    bits,           \* how far left plot shifted the color
    plotted         \* history: <<x, y>> of that pixel, or << >>

plotVars == <<col, row, address, bits, plotted>>

PlotInit == col = 0 /\ row = 0 /\ address = 0 /\ bits = 0 /\ plotted = <<>>

-----------------------------------------------------------------------------

XEnd == 160
ScreenLines == 200

Byte(n) == n % 256
Carry(n) == n \div 256

\* hi byte: y >> 3, and 2 more, $20, and bit 7 of x; a carry into the second
\* and third addition would count, but there is none.
HiByte(x, y) ==
    LET third == y \div 8
        sum == third + third \div 4
        based == 32 + Byte(sum) + Carry(sum)
        rolled == (x \div 128) * 256 + Carry(based) IN
    Byte(Byte(rolled) + Byte(based) + Carry(rolled))

\* lo byte without the line in the cell: (y & $f8) << 3, and << 5, and
\* (x & $fc) << 1, with the carry of the last addition.
LoSum(x, y) ==
    LET third == Byte(((y \div 8) * 8) * 8)
        fifth == Byte(third * 4)
        cell == Byte(((x \div 4) * 4) * 2) IN
    cell + Byte(third + fifth)

\* Mutant of HiCarry: the overflow is not added to hi.
NoHiCarry(x, y) == 0

HiCarry(x, y) == Carry(LoSum(x, y))

LoByte(x, y) == Byte(Byte(LoSum(x, y)) + (y % 8))

AddressOf(x, y) == Byte(HiByte(x, y) + HiCarry(x, y)) * 256 + LoByte(x, y)

\* asl twice for every pixel from this one to the last of the byte.
BitsOf(x) == 2 * (3 - (x % 4))

\* plot, and inc x.  At the end of a line y is incremented, but the accumulator
\* compared with 200 is what the ROM routine that stores yf left in it, the
\* exponent of yf, which is never 200: lines are counted modulo 256 for ever.
PlotNext ==
    /\ address' = AddressOf(col, row)
    /\ bits' = BitsOf(col)
    /\ plotted' = <<col, row>>
    /\ \/ col + 1 # XEnd /\ col' = col + 1 /\ UNCHANGED row
       \/ col + 1 = XEnd /\ col' = 0 /\ row' = Byte(row + 1)

PlotSpec == PlotInit /\ [][PlotNext]_plotVars

-----------------------------------------------------------------------------
(* Properties.                                                             *)

PlotTypeOK ==
    /\ col \in 0 .. XEnd - 1 /\ row \in 0..255
    /\ address \in Nat /\ address < 65536 /\ bits \in {0, 2, 4, 6}

\* In the lines the screen has, the bytes and their carries give the address
\* the comment at plot states, inside the 8000 bytes of the bitmap.
PlotAddress ==
    plotted # <<>> /\ plotted[2] < ScreenLines =>
        LET x == plotted[1]
            y == plotted[2] IN
        /\ address = 8192 + ((y \div 8) * 8) * 40 + ((x \div 4) * 4) * 2 + (y % 8)
        /\ address < 8192 + 8000
        /\ bits = (3 - (x % 4)) * 2
=============================================================================
