---------------------------- MODULE MCRefMutation ----------------------------
EXTENDS RefMutation
=============================================================================
