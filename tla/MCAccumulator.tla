--------------------------- MODULE MCAccumulator ----------------------------
EXTENDS Accumulator

MCSwitches == {0, 1, 128, 255}
=============================================================================
