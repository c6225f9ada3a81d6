---------------------------- MODULE PasswordHistory ----------------------------
(***************************************************************************)
(* Accounts with a history variable: which requests hold the user as it    *)
(* was before the last change of the password.  It says in which order of  *)
(* the calls of two handlers the save of one undoes the other's change of  *)
(* the password: the change falls between the query that loads the entity  *)
(* and the SELECT of save.  A change that falls between the SELECT and the *)
(* UPDATE survives, as the UPDATE names only the columns that differed.    *)
(***************************************************************************)
EXTENDS Accounts

VARIABLE overtaken      \* the requests whose entity has an older password

historyVars == <<vars, overtaken>>

\* The calls up to the one that compares the entity with the row.
BeforeSelect == {"revoke", "revokeAll", "select"}

HistoryInit == Init /\ overtaken = {}

HistoryNext ==
    /\ Next
    /\ overtaken' =
          {r \in Requests :
              /\ req'[r].pc # "idle"
              /\ \/ r \in overtaken
                 \/ user'.password # user.password /\ req[r].pc \in BeforeSelect}

HistorySpec == HistoryInit /\ [][HistoryNext]_historyVars

-----------------------------------------------------------------------------
\* A password is changed by a request that hashed one to store it, or put back by
\* the save of a request that had loaded the user before another change and had
\* not reached its SELECT when that change was written.  No other order of the
\* calls undoes a change: neither one that comes after the SELECT, nor a
\* wrong code for a change of the password, nor a request that started later.
OnlyOvertakenUndo ==
    [][ user'.password # user.password =>
          \E r \in Requests :
             /\ req'[r] # req[r]
             /\ "password" \in Rehashed(req[r]) \/ r \in overtaken ]_historyVars
=============================================================================
