---------------------------- MODULE DownloadsMC ----------------------------
EXTENDS Downloads, TLC

CONSTANTS a, b, v1, v2

\* A newer revision is asked for of the model whose requests do not overlap.
TwoOfA == (a :> {v1, v2}) @@ (b :> {v1})

BothOfA == (a :> {v1, v2})
=============================================================================
