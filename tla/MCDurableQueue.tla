--------------------------- MODULE MCDurableQueue ---------------------------
(* Small instances of DurableQueue: how many faults of which kind, and where. *)
EXTENDS DurableQueue, TLC

Faults(c, e, s, o, a, x) ==
  [crash |-> c, error |-> e, stall |-> s, overlap |-> o, age |-> a, expire |-> x]

\*                    crash error stall overl age expire
OneCrash    == Faults( 1,    0,    0,    0,   0,  0 )
TwoCrashes  == Faults( 2,    0,    0,    0,   0,  0 )
OneOverlap  == Faults( 0,    0,    0,    1,   0,  0 )
OneLongWait == Faults( 0,    0,    0,    0,   1,  0 )
CrashRace   == Faults( 1,    0,    0,    1,   0,  0 )
Races       == Faults( 1,    0,    0,    1,   1,  1 )
Mixed       == Faults( 2,    1,    1,    0,   0,  0 )

Anywhere == PCs \cup {"settled", "prune"}
Nowhere  == {}
\* Nowhere near an outcome that is, or is about to be, on record, and not
\* between the two commands of a requeue.
BeforeResult == PCs \ {"lpush", "savebeat"}

Symmetry == Permutations(Jobs) \cup Permutations(Workers)
=============================================================================
