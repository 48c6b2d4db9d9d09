------------------------------ MODULE MCCatFile ------------------------------
EXTENDS CatFile

MCProcs == {CatGit}
=============================================================================
