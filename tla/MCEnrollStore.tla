--------------------------- MODULE MCEnrollStore ---------------------------
EXTENDS EnrollStore, TLC
CONSTANTS r1, r2
Sym == Permutations({r1, r2})
\* Nothing is asked of the registry once a process has overwritten what another
\* saved: such a state is checked and not continued.
NotOverwritten == ~clobbered
=============================================================================
