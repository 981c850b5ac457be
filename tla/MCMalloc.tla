------------------------------ MODULE MCMalloc ------------------------------
EXTENDS Malloc
Processes == {1, 2}
UpTo7 == {1, 2, 7}
=============================================================================
