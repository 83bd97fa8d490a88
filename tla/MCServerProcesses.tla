-------------------------- MODULE MCServerProcesses --------------------------
(* Values for the constants of ServerProcesses.                            *)
EXTENDS ServerProcesses

\* Codes of handlers that wait for the semaphore once, that may lose it, that
\* wait three times and that do not wait, and one nobody has a handler for.
McCodes    == {"LMA", "UNR", "LST", "XYZ"}
KnownCodes == {"LIN", "LST"}
=============================================================================
