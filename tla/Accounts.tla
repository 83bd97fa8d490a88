------------------------------ MODULE Accounts ------------------------------
(***************************************************************************)
(* Database::LoginUser, Logout and Unregister: the requests LIN, LOU and   *)
(* UNR.  Each action is a part of one of these functions; all of them run  *)
(* between a SemaphoreWait and a SemaphorePost.                            *)
(***************************************************************************)
EXTENDS DatabaseFiles

\* What no step of these functions changes.
otherFiles == <<auctionFiles, hosted, bidded, sem, now, crashes, req,
                locals>>

-----------------------------------------------------------------------------
(* LIN                                                                     *)

LoginUser(r) ==
    /\ pc[r] = "LoginUser"
    /\ LET u == Uid(r) IN
       \/ /\ CheckUserLoggedIn(u)
          /\ Return(r, IF CorrectPassword(r) THEN "OK" ELSE "UserNotLoggedIn")
       \/ /\ ~CheckUserLoggedIn(u)
          /\ ~CheckUserExisted(u)
          /\ Goto(r, "CreateUserDir")
       \/ /\ ~CheckUserLoggedIn(u)
          /\ CheckUserExisted(u) /\ ~CheckUserRegistered(u)
          /\ Goto(r, "CreatePassword")
       \/ /\ ~CheckUserLoggedIn(u)
          /\ CheckUserExisted(u) /\ CheckUserRegistered(u)
          /\ IF CorrectPassword(r) THEN Goto(r, "CreateLogin")
                                   ELSE Return(r, "NOK")
    /\ UNCHANGED <<otherFiles, userDir, pass, login, faults>>

\* The three mkdir calls, one step each.
CreateUserDir(r) ==
    /\ pc[r] = "CreateUserDir"
    /\ \/ /\ userDir[Uid(r)] < 3
          /\ userDir' = [userDir EXCEPT ![Uid(r)] = @ + 1]
          /\ Goto(r, IF userDir[Uid(r)] = 2 THEN "CreatePassword"
                                            ELSE "CreateUserDir")
          /\ Succeed
       \/ /\ Fail
          /\ Return(r, "NOK")
          /\ UNCHANGED userDir
    /\ UNCHANGED <<otherFiles, pass, login>>

CreatePassword(r) ==
    /\ pc[r] = "CreatePassword"
    /\ \/ /\ pass' = [pass EXCEPT ![Uid(r)] = Empty]
          /\ Goto(r, "WritePassword")
          /\ Succeed
       \/ /\ Fail
          /\ Return(r, "NOK")
          /\ UNCHANGED pass
    /\ UNCHANGED <<otherFiles, userDir, login>>

WritePassword(r) ==
    /\ pc[r] = "WritePassword"
    /\ pass' = [pass EXCEPT ![Uid(r)] = req[r].pw]
    /\ pc' = [pc EXCEPT ![r] = "CreateLogin"]
    /\ res' = [res EXCEPT ![r] = "REGISTER"]
    /\ UNCHANGED <<otherFiles, userDir, login, faults, cont, reply>>

\* The login file is never written to: it exists or it does not.  LoginUser
\* answers REGISTER if it has just created the password, OK otherwise.
CreateLogin(r) ==
    /\ pc[r] = "CreateLogin"
    /\ \/ /\ login' = login \cup {Uid(r)}
          /\ Return(r, IF res[r] = "REGISTER" THEN "REGISTER" ELSE "OK")
          /\ Succeed
       \/ /\ Fail
          /\ Return(r, "NOK")
          /\ UNCHANGED login
    /\ UNCHANGED <<otherFiles, userDir, pass>>

-----------------------------------------------------------------------------
(* LOU and UNR                                                             *)

\* Logout: the whole of LOU, and the second of the three critical sections
\* of UNR.  Unregister turns its NOK into one of its own and ignores any
\* other result; an exception passes through it.
Logout(r) ==
    /\ pc[r] = "Logout"
    /\ LET u == Uid(r) IN
       \/ /\ ~CorrectPassword(r)
          /\ Return(r, "NOK")
          /\ UNCHANGED login
       \/ /\ CorrectPassword(r)
          /\ ~CheckUserExisted(u)
          /\ IF Op(r) = "UNR" THEN Reenter(r, "ErasePassword")
                              ELSE Return(r, "UNREGISTERED")
          /\ UNCHANGED login
       \/ /\ CorrectPassword(r)
          /\ CheckUserExisted(u) /\ u \notin login
          /\ Return(r, "UserNotLoggedIn")
          /\ UNCHANGED login
       \/ /\ CorrectPassword(r)
          /\ CheckUserExisted(u) /\ u \in login
          /\ login' = login \ {u}
          /\ IF Op(r) = "UNR" THEN Reenter(r, "ErasePassword")
                              ELSE Return(r, "OK")
    /\ UNCHANGED <<otherFiles, userDir, pass, faults>>

\* Mutant: the call of Logout is missing.
UnregisterLoggedIn(r) ==
    /\ pc[r] = "Unregister"
    /\ IF CorrectPassword(r) THEN Reenter(r, "ErasePassword")
                             ELSE Return(r, "NOK")
    /\ UNCHANGED <<otherFiles, userDir, pass, login, faults>>

\* Unregister checks the password and gives the lock up before it logs out.
Unregister(r) ==
    /\ pc[r] = "Unregister"
    /\ IF CorrectPassword(r) THEN Reenter(r, "Logout")
                             ELSE Return(r, "NOK")
    /\ UNCHANGED <<otherFiles, userDir, pass, login, faults>>

ErasePassword(r) ==
    /\ pc[r] = "ErasePassword"
    /\ LET u == Uid(r) IN
       \/ /\ ~CheckUserExisted(u)
          /\ Return(r, "UNKNOWN")
          /\ UNCHANGED pass
       \/ /\ CheckUserExisted(u) /\ pass[u] = NoFile
          /\ Return(r, "NOK")
          /\ UNCHANGED pass
       \/ /\ CheckUserExisted(u) /\ pass[u] # NoFile
          /\ pass' = [pass EXCEPT ![u] = NoFile]
          /\ Return(r, "OK")
    /\ UNCHANGED <<otherFiles, userDir, login, faults>>

AccountStep(r) ==
    \/ LoginUser(r) \/ CreateUserDir(r) \/ CreatePassword(r)
    \/ WritePassword(r) \/ CreateLogin(r)
    \/ Logout(r) \/ Unregister(r) \/ ErasePassword(r)
=============================================================================
