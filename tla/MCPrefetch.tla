---------------------------- MODULE MCPrefetch -----------------------------
(***************************************************************************)
(* TLC instances of Prefetch.  Each file of the small archives is preceded *)
(* by one header byte and the archive ends with one trailer byte.          *)
(***************************************************************************)
EXTENDS Prefetch, FiniteSetsExt

\* Four small files.
SmallSizes == <<1, 2, 1, 1>>
\* Three files the budget of 5 does not hold together, three small ones that fit
\* besides the last of them, an empty one, and one too big to be read ahead.
MixedSizes == <<1, 2, 2, 2, 1, 1, 1, 0, 3>>

\* A file's content begins after its own header and everything in front of it.
StartsOf(sizes) ==
    [i \in DOMAIN sizes |-> i + MapThenSumSet(LAMBDA j : sizes[j], 1 .. i - 1)]

ArchiveSize(sizes) ==
    Len(sizes) + 1 + MapThenSumSet(LAMBDA j : sizes[j], DOMAIN sizes)

SmallStart == StartsOf(SmallSizes)
MixedStart == StartsOf(MixedSizes)

AllWindows(sizes) ==
    {w \in [b : 0 .. ArchiveSize(sizes) - 1, e : 0 .. ArchiveSize(sizes) - 1] : w.b <= w.e}

SmallWindows == AllWindows(SmallSizes)
\* A window that begins or ends in a header cuts no other file, and none
\* differently, than one that begins or ends with the content next to it.
MixedContent == UNION {MixedStart[i] .. MixedStart[i] + MixedSizes[i] - 1 : i \in Positions}
MixedWindows == {w \in [b : MixedContent, e : MixedContent] : w.b <= w.e}
\* The whole archive, and windows that begin or end in a file or between two.
SomeWindows == {w \in SmallWindows : w.b \in {0, 4, 6} /\ w.e \in {3, 4, 7, 9}}

OwnUrls == [i \in Positions |-> i]
\* Files 2 and 3 share a path.
TwinUrls == [i \in Positions |-> IF i = 3 THEN 2 ELSE i]

SumOfSizes == [S \in SUBSET Positions |-> MapThenSumSet(LAMBDA i : Size[i], S)]
=============================================================================
