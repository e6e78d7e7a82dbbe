------------------------------- MODULE MCPortal -------------------------------
EXTENDS Portal

CONSTANTS b1, b2

TwoBrowsers == {b1, b2}
=============================================================================
