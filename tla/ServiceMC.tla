----------------------------- MODULE ServiceMC -----------------------------
EXTENDS Service

CONSTANTS w1, w2, loop

\* Any call beside those that hold one lock and take another, and beside the
\* two longest of the event loop.
MCCallsOf == (w1 :> DOMAIN Paths) @@ (w2 :> {"delete", "booking"}) @@ (loop :> {"booking", "find"})
=============================================================================
