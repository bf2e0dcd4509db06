----------------------------- MODULE BlockGrid ------------------------------
(***************************************************************************)
(* How a screen is cut into blocks, the same in all dispatchers, and put   *)
(* together again by the client.  The screen is one array, row after row;  *)
(* what a pixel should get is its own place in it.  Blocks are painted in  *)
(* any order, each first as started and then as completed.                 *)
(***************************************************************************)
EXTENDS Integers, Sequences, FiniteSets

CONSTANTS
    Screens,        \* sizes <<x_size, y_size>> of the screen
    BlockSizes      \* sizes <<block_x_size, block_y_size>> a client may want

ASSUME BlockGridAssumption == Screens \cup BlockSizes \subseteq (Nat \ {0}) \X (Nat \ {0})

NotCalculatedYet == -1
CalculatingNow == -2

VARIABLES
    screenSize,     \* <<x_size, y_size>>
    blockSize,      \* <<block_x_size, block_y_size>>
    grid,           \* the blocks made, or << >> when there is no START
    begun, ended,   \* the blocks whose BLOCK_STARTED, BLOCK_COMPLETED came
    screenData      \* index -> what it shows

gridVars == <<screenSize, blockSize, grid, begun, ended, screenData>>

XSize == screenSize[1]
YSize == screenSize[2]
Indexes == 0 .. XSize * YSize - 1

GridInit ==
    /\ screenSize \in Screens /\ blockSize \in BlockSizes
    /\ grid = <<>> /\ begun = {} /\ ended = {}
    /\ screenData = [i \in Indexes |-> NotCalculatedYet]

-----------------------------------------------------------------------------

\* Mutant of Accepted: start does not look at the sizes.
AnyAccepted == TRUE

\* start() of Backends throws unless the sizes are multiples.
Accepted == YSize % blockSize[2] = 0 /\ XSize % blockSize[1] = 0

\* How often a loop from 0 below size by step is run through.
Rounds(size, step) == (size + step - 1) \div step

\* The two loops of start, y outside and x inside.
GridOf ==
    LET columns == Rounds(XSize, blockSize[1])
        lines == Rounds(YSize, blockSize[2]) IN
    [n \in 1 .. columns * lines |->
        [x_start |-> ((n - 1) % columns) * blockSize[1],
         y_start |-> ((n - 1) \div columns) * blockSize[2]]]

Cut ==
    /\ grid = <<>> /\ Accepted
    /\ grid' = GridOf
    /\ UNCHANGED <<screenSize, blockSize, begun, ended, screenData>>

\* What the workers calculate: pixel n of a block is the one yi lines down and
\* xi pixels right of its start.
BytesOf(b) ==
    [n \in 0 .. blockSize[1] * blockSize[2] - 1 |->
        (b.y_start + (n \div blockSize[1])) * XSize + b.x_start + (n % blockSize[1])]

\* Where Core.onBlockCompleted puts pixel n of a block.
TargetOf(b, n) ==
    b.y_start * XSize + b.x_start + (n \div blockSize[1]) * XSize + (n % blockSize[1])

\* fill_rect
Filled(b) ==
    {(y + b.y_start) * XSize + x + b.x_start :
        x \in 0 .. blockSize[1] - 1, y \in 0 .. blockSize[2] - 1}

BlockBegins(n) ==
    /\ n \notin begun
    /\ begun' = begun \cup {n}
    /\ screenData' = [i \in Indexes \cup Filled(grid[n]) |->
          IF i \in Filled(grid[n]) THEN CalculatingNow ELSE screenData[i]]
    /\ UNCHANGED <<screenSize, blockSize, grid, ended>>

BlockEnds(n) ==
    /\ n \in begun \ ended
    /\ ended' = ended \cup {n}
    /\ LET bytes == BytesOf(grid[n])
           written == [i \in {TargetOf(grid[n], k) : k \in DOMAIN bytes} |->
                          bytes[CHOOSE k \in DOMAIN bytes : TargetOf(grid[n], k) = i]] IN
       screenData' = [i \in DOMAIN screenData \cup DOMAIN written |->
                         IF i \in DOMAIN written THEN written[i] ELSE screenData[i]]
    /\ UNCHANGED <<screenSize, blockSize, grid, begun>>

GridNext ==
    \/ Cut
    \/ \E n \in DOMAIN grid : BlockBegins(n) \/ BlockEnds(n)

GridSpec == GridInit /\ [][GridNext]_gridVars

\* How many blocks the Go and the Java server expect, from left to right.
GoCount == ((YSize \div blockSize[2]) * XSize) \div blockSize[1]
JavaCount == (((XSize \div blockSize[1]) * YSize) \div blockSize[2])

-----------------------------------------------------------------------------
(* Properties.                                                             *)

GridTypeOK ==
    /\ screenSize \in Screens /\ blockSize \in BlockSizes
    /\ begun \subseteq DOMAIN grid /\ ended \subseteq begun
    /\ DOMAIN screenData = Indexes

\* The blocks cover the screen, no block writes over what another has written
\* or beyond the screen, every pixel ends where it belongs, and the servers
\* that count in advance expect as many blocks as there are.
BlocksTile ==
    grid # <<>> =>
        /\ Len(grid) = GoCount /\ Len(grid) = JavaCount
        /\ \A n \in ended : \A i \in Filled(grid[n]) : screenData[i] = i
        /\ ended = DOMAIN grid => \A i \in DOMAIN screenData : screenData[i] = i
=============================================================================
