-------------------------------- MODULE MCLocks --------------------------------
EXTENDS Locks

CONSTANTS h1, h2, h3

MCHarts == {h1, h2, h3}
===============================================================================
