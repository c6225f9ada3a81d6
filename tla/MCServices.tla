------------------------------ MODULE MCServices ------------------------------
(***************************************************************************)
(* Services that share no table, in one run: one of them, the desk, moves  *)
(* from the initial state on, and the others stay as they are.             *)
(***************************************************************************)
EXTENDS PasswordHistory, Comments, Users, Translations, Storage, Settings, TLC

CONSTANTS
    Desks,          \* the services that move
    u1, u2, p1, p2

\* An import that adds or changes a text, and one whose second item is refused.
Lists == {<<[place |-> p2, value |-> "v"]>>,
          <<[place |-> p1, value |-> "v"], [place |-> p2, value |-> Bad]>>}

VARIABLE desk

inboxVars == <<events, prefs, off, noticeVars>>
userVars == <<staff, files>>
textVars == <<texts, cache>>
storageVars == <<confVars, clients, ready>>
settingsVars == <<settings, configCache>>
servicesVars == <<desk, historyVars, calls, inboxVars, commentVars, userVars, textVars, storageVars, settingsVars>>

ServicesInit ==
    /\ desk \in Desks
    /\ HistoryInit /\ HandlersInit /\ InboxInit /\ CommentsInit /\ UsersInit /\ TextsInit
    /\ StorageInit /\ SettingsInit

\* At most one handler in flight.
Quiet == Cardinality({r \in Slots : InFlight(r)}) <= 1

\* Of an account that keeps its password, and is sent one code.
OnePassword ==
    /\ secrets' = 1
    /\ \A r \in Requests : req'[r] # Idle => req'[r].copy.password = user.password

\* Of an account in its first second, with one session, whose requests are those
\* that save the user.
Saves == {"none", "login", "refresh", "logoutAll", "verifyEmail", "forgotPassword",
          "resetPassword", "requestChange", "confirmChange", "changePassword"}
OneSession ==
    /\ clock' = 1
    /\ Len(sessions') + Cardinality({r \in Requests : req'[r].kind \in {"login", "refresh"}}) <= 1
    /\ \A r \in Requests : req'[r].kind \in Saves

AccountsDesk ==
    /\ HistoryNext
    /\ \/ desk = "accounts"
       \/ desk = "sessions" /\ OnePassword
       \/ desk = "passwords" /\ OneSession
    /\ UNCHANGED <<calls, inboxVars, commentVars, userVars, textVars, storageVars, settingsVars>>

InboxDesk ==
    /\ \/ desk = "inbox" /\ InboxNext /\ UNCHANGED commentVars
       \/ desk = "comments" /\ CommentsNext
    /\ UNCHANGED <<historyVars, userVars, textVars, storageVars, settingsVars>>

UsersDesk ==
    /\ \E r \in Slots :
          \/ desk = "administration" /\ AdministrationNext(r)
          \/ desk = "profiles" /\ ProfilesNext(r)
    /\ UNCHANGED <<historyVars, inboxVars, commentVars, textVars, storageVars, settingsVars>>

TextsDesk ==
    /\ desk = "texts" /\ TextsNext
    /\ UNCHANGED <<historyVars, inboxVars, commentVars, userVars, storageVars, settingsVars>>

StorageDesk ==
    /\ \/ desk = "storage" /\ StorageNext /\ Quiet'
       \/ desk = "activations" /\ ActivationsNext
    /\ UNCHANGED <<historyVars, inboxVars, commentVars, userVars, textVars, settingsVars>>

SettingsDesk ==
    /\ desk = "settings" /\ SettingsNext
    /\ UNCHANGED <<historyVars, inboxVars, commentVars, userVars, textVars, storageVars>>

ServicesNext ==
    /\ \/ AccountsDesk
       \/ InboxDesk
       \/ UsersDesk
       \/ TextsDesk
       \/ StorageDesk
       \/ SettingsDesk
    /\ UNCHANGED desk

ServicesSpec == ServicesInit /\ [][ServicesNext]_servicesVars

-----------------------------------------------------------------------------
\* Two caches in the memory of the process that are set after a commit and not
\* together with it: each is at one with its table again once a request that
\* nobody disturbs has succeeded.
CachesAgree == TextsAgree /\ SettingsAgree

Symm == Permutations(Requests) \cup Permutations(Passwords) \cup Permutations(Slots)
=============================================================================
