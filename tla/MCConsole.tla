----------------------------- MODULE MCConsole -----------------------------
EXTENDS Console
CONSTANTS stdout, stderr
MCTexts == {<<LF>>}
\* A device on pin 7 and a slow one on pin 8.
MCAppBaud == 7 :> 38400 @@ 8 :> 9600
=============================================================================
