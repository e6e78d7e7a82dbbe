-------------------------------- MODULE MCBoot --------------------------------
EXTENDS Boot

\* Every brightness; the edges of the last octet, and a value between.
AllBrightnesses == 0..255
SomeOctets      == {0, 1, 253, 254, 255}
===============================================================================
