------------------------------- MODULE MCBrowse -------------------------------
EXTENDS Browse

CONSTANTS b1, b2, none
=============================================================================
