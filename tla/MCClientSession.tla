--------------------------- MODULE MCClientSession ---------------------------
(* Values for the constants of ClientSession.                              *)
EXTENDS ClientSession, TLC

CONSTANTS c1, c2, p1, p2

\* A user id of six digits and one with leading zeros.
u1 == 100001
u2 == 99

Number(n)  == Printed(n)
Aid(n)     == Padded(n)
UserWord(u) == [len |-> USER_ID_SIZE, num |-> u]

\* A command with what it needs; the rest of the words are the same in all.
T(op, u, p) ==
    [op |-> op, uid |-> UserWord(u), pw |-> p, aid |-> Aid(7),
     value |-> Number(5), time |-> Number(30), title |-> [len |-> 4, num |-> 1234],
     fname |-> [len |-> 5, num |-> 12345], size |-> 100]

Long == [len |-> 12, num |-> 123456789]

\* The commands of each client are its own: their conversions do not meet.
FirstMenu ==
    {T("LIN", u1, p1), T("LIN", u1, p2), T("LOU", u1, p1),
     T("exit", u1, p1), T("LMA", u1, p1),
     [T("OPA", u1, p1) EXCEPT !.title = Long],
     [T("BID", u1, p1) EXCEPT !.value = Number(261)]}

SecondMenu ==
    {T("LIN", u1, p1), T("UNR", u1, p1), T("LIN", u2, p1),
     [T("OPA", u1, p1) EXCEPT !.size = MAX_FILE_SIZE + 1],
     [T("BID", u1, p1) EXCEPT !.value = Number(150)]}

SessionMenu == c1 :> FirstMenu @@ c2 :> SecondMenu
=============================================================================
