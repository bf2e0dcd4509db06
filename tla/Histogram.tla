----------------------------- MODULE Histogram ------------------------------
(***************************************************************************)
(* get_statistics of screen.hpp, which the page calls for every frame: it  *)
(* makes a histogram of the depths, looks where most of them end, and      *)
(* makes it again with smaller buckets until they do not get smaller.      *)
(* The bucket size is a float that always holds a whole number.            *)
(***************************************************************************)
EXTENDS Integers, FiniteSets, FiniteSetsExt

CONSTANTS
    MaxDepth,       \* depths are 0..MaxDepth
    MaxPixels,      \* bound: pixels of one depth
    Buckets,        \* 128
    Part, Whole     \* 0.998 is Part / Whole

ASSUME HistogramAssumption ==
    /\ MaxDepth \in Nat /\ MaxPixels \in Nat
    /\ Buckets \in Nat \ {0}
    /\ Part \in Nat /\ Whole \in Nat \ {0} /\ Part <= Whole

\* numeric_limits<float>::max(), more than any bucket size.
Huge == MaxDepth + 2

VARIABLES
    pixels,         \* depth -> number of pixels
    bucketSize,     \* histogram_bucket_size
    maxDepth,       \* the local max_depth
    histogram,      \* bucket -> number of pixels
    finished        \* get_statistics has returned

histogramVars == <<pixels, bucketSize, maxDepth, histogram, finished>>

Calculated == {d \in 0..MaxDepth : pixels[d] > 0}
Least == IF Calculated = {} THEN 0 ELSE Min(Calculated)
CountOf(depths) == MapThenSumSet(LAMBDA d : pixels[d], depths)

HistogramInit ==
    /\ pixels \in [0..MaxDepth -> 0..MaxPixels]
    /\ bucketSize = IF Calculated = {} THEN 0 ELSE Huge
    /\ maxDepth = IF Calculated = {} THEN 0 ELSE Max(Calculated)
    /\ histogram = [i \in 0 .. Buckets - 1 |-> 0]
    /\ finished = (Calculated = {})

-----------------------------------------------------------------------------

NewBucketSize == Max({1, (maxDepth - Least) \div Buckets})

\* Mutant of NoBetter: only a change for the worse ends the loop.
Worse(size) == size > bucketSize

\* "if it did not change or changed for the worse we are done"
NoBetter(size) == size >= bucketSize

BucketOf(size, i) ==
    CountOf({d \in Calculated : (d - Least) \div size = i})

\* The buckets before the one where the limit is reached.
UpToLimit(h) ==
    Min({n \in 0..Buckets :
            \/ n = Buckets
            \/ Whole * MapThenSumSet(LAMBDA i : h[i], 0 .. n - 1) >= Part * CountOf(Calculated)})

\* One round of the loop.
Pass ==
    /\ ~finished
    /\ UNCHANGED pixels
    /\ LET size == NewBucketSize IN
       \/ /\ NoBetter(size)
          /\ finished' = TRUE
          /\ UNCHANGED <<bucketSize, maxDepth, histogram>>
       \/ /\ ~NoBetter(size)
          /\ bucketSize' = size
          /\ histogram' = [i \in 0 .. Buckets - 1 |-> BucketOf(size, i)]
          /\ maxDepth' = Least + UpToLimit(histogram') * size
          /\ UNCHANGED finished

HistogramNext == Pass

\* The loop is run without anything between.
HistogramFairness == WF_histogramVars(Pass)

-----------------------------------------------------------------------------
(* Properties.                                                             *)

\* The buckets hold every pixel once that is not beyond the last of them.
HistogramTypeOK ==
    /\ pixels \in [0..MaxDepth -> 0..MaxPixels]
    /\ bucketSize \in 0..Huge
    /\ maxDepth \in Nat
    /\ finished /\ Calculated # {} =>
          MapThenSumSet(LAMBDA i : histogram[i], 0 .. Buckets - 1)
              = CountOf({d \in Calculated : d < Least + Buckets * bucketSize})

\* The loop ends for every screen: the page would stand still otherwise.
HistogramEnds == <>finished
=============================================================================
