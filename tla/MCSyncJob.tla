------------------------------- MODULE MCSyncJob -------------------------------
EXTENDS SyncJob, TLC

CONSTANTS j1, x, y, z, day, morning, evening, late, night

\* A day of three sales: the evening may be cut again.
MCHalves == (day :> {morning, evening}) @@ (evening :> {late, night})
              @@ [r \in {morning, late, night} |-> {}]
MCSoldIn == (day :> {x, y, z}) @@ (morning :> {x}) @@ (evening :> {y, z})
              @@ (late :> {y}) @@ (night :> {z})
MCWriter == Job \X Span
==============================================================================
