---------------------------- MODULE MCSerialLine ----------------------------
\* TLC instance of SerialLine: a ring and a line buffer of four cells, lines of
\* up to four characters, two listeners, one before and one after the serial
\* process on the list.
EXTENDS SerialLine

CONSTANTS a, b

MCList == << a, "serial", b >>
MCByte == ((1 .. MaxLines) \X (1 .. MaxLineLen)) \cup {END}
=============================================================================
