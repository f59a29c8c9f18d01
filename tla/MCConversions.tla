--------------------------- MODULE MCConversions ---------------------------
\* Values with one bit at an end of each byte, or all of them, so that a field
\* of the wrong width, order or place shows; both sides of each range of codes;
\* the hours around the change of a time zone's offset, east and west.
EXTENDS Conversions

MCSectors    == {0, 200, 19088743}
MCWords      == {0, 1, 258, 65535}
MCNumbers    == {0, 1, 99, 170}
MCEventWords == {0, 1, 3, 4, 5, 6, 256, 257, 261, 263, 264, 61439, 61440, 65535}
MCTracks     == {0, 1, 7, 99, 100, 255}
MCHours      == {24, 48, 200} \union 84..108
MCZones      == {[change |-> 96, before |-> b, after |-> a] : b \in {1, -5}, a \in {1, 2, -5, -4}}
=============================================================================
