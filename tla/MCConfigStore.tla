---------------------------- MODULE MCConfigStore ----------------------------
EXTENDS ConfigStore, TLC

CONSTANTS i1, i2, i3

MCInodes == {i1, i2, i3}

Symm == Permutations(MCInodes)

\* -scryptn 0 (the default), 9 (below the floor), 10 (the floor) and 64
\* (N overflows to 0).
MCLogNs == {0, 9, 10, 64}

\* -argon2 parameters at the floors and below them.
MCArgon2Params == {<<16 * 1024, 1, 1>>, <<16 * 1024 - 1, 3, 4>>}

\* One value below each floor, and an scrypt N that is no power of two.
MCEditValues ==
  [N |-> {1023, 1536}, R |-> {7}, P |-> {0}, salt |-> {15, 31}, keyLen |-> {31},
   memory |-> {16 * 1024 - 1}, iterations |-> {0}, parallelism |-> {0}]
=============================================================================
