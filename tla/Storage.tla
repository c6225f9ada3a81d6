------------------------------- MODULE Storage -------------------------------
(***************************************************************************)
(* Which provider stores files, and with which configuration:              *)
(* StorageConfigService, StorageService and StorageAdminController.        *)
(*                                                                         *)
(* The cache is in the memory of the process: its calls take no time that  *)
(* another handler could use, but what a query has read reaches it only    *)
(* with the answer.  `then' says what a handler reads a configuration for. *)
(* The files themselves, which no other module of the program stores       *)
(* through this service, are left out.                                     *)
(***************************************************************************)
EXTENDS Handlers

CONSTANTS
    Providers,
    Local,      \* the provider that is active at first
    MaxVersion, \* bound: changes of a configuration
    MaxSecret   \* bound: encryptions of the credentials that are counted

ASSUME LocalAssumption == Local \in Providers

VARIABLES
    rows,       \* rows[p] : the row of provider p
    copies,     \* copies[p] : the cached copy of the row of p, or NoCopy
    activeCopy, \* the cached copy of the active row
    clients,    \* clients[p] : the version that the client of p was made with
    ready       \* initializedProviders

confVars == <<rows, copies, activeCopy>>
StorageVars == <<calls, confVars, clients, ready>>

NoCopy == [provider |-> "none"]

\* `secret' counts how often the credentials of the row have been encrypted; the
\* environment has given every provider its credentials, in plain text.
Default(p) ==
    [provider |-> p, active |-> p = Local, configured |-> p = Local, version |-> 1, secret |-> 0]

StorageInit ==
    /\ rows = [p \in Providers |-> Default(p)]
    /\ copies = [p \in Providers |-> NoCopy]
    /\ activeCopy = NoCopy
    /\ clients = [p \in Providers |-> 0]
    /\ ready = {}

ActiveRows == {p \in Providers : rows[p].active}

-----------------------------------------------------------------------------
(* getConfig and getActiveConfig, and what their callers do next: the place *)
(* of the handler that has come so far.                                    *)

Finished == [at |-> "free", my |-> <<>>]

\* A handler that needs p's configuration and has it.
UseConfig(then, p, row, asked) ==
    CASE then = "read" -> Finished
      [] then = "update" -> [at |-> "conf.save", my |-> [row |-> row]]
      [] then = "switch" ->
            IF row.configured THEN [at |-> "conf.clear", my |-> [row |-> row]] ELSE Finished
      [] then \in {"test", "activate"} ->
            [at |-> "provider.test", my |-> [then |-> then, row |-> row]]
      [] then = "ready" -> [at |-> "provider.ready", my |-> [row |-> row, asked |-> asked]]

Known(p) == copies[p] # NoCopy

NeedConfig(then, p, asked) ==
    IF Known(p) THEN UseConfig(then, p, copies[p], asked)
    ELSE [at |-> "conf.find", my |-> [then |-> then, row |-> NoCopy, for |-> p, asked |-> asked]]

Go(r, place) ==
    calls' = [calls EXCEPT ![r] = IF place = Finished THEN Free
                                  ELSE [@ EXCEPT !.at = place.at, !.my = place.my]]

Arrive(r, place) == place # Finished /\ Receive(r, place.at, place.my)

FindConfig(r) ==
    /\ Awaits(r, "conf.find")
    /\ Await(r, "conf.found", [My(r) EXCEPT !.row = rows[My(r).for]])
    /\ UNCHANGED <<confVars, clients, ready>>

GotConfig(r) ==
    LET my == My(r)
    IN  /\ Awaits(r, "conf.found")
        /\ copies' = [copies EXCEPT ![my.for] = my.row]
        /\ Go(r, UseConfig(my.then, my.for, my.row, my.asked))
        /\ UNCHANGED <<rows, activeCopy, clients, ready>>

\* initializeActiveProvider, once the active configuration is known.
MakeReady(p, asked) ==
    IF p \in ready THEN Finished ELSE NeedConfig("ready", p, asked)

\* `asked' is the provider whose activation the handler ends, if any;
\* reinitializeActiveProvider takes the active one for not initialized.
FindActive(r) ==
    /\ Awaits(r, "active.find")
    /\ \/ \E p \in ActiveRows : Await(r, "active.found", [My(r) EXCEPT !.row = rows[p]])
       \/ ActiveRows = {} /\ AwaitNext(r, "active.local")
    /\ UNCHANGED <<confVars, clients, ready>>

\* Nobody is active: getActiveConfig makes Local so.
FindLocal(r) ==
    /\ Awaits(r, "active.local")
    /\ Await(r, "active.save", [My(r) EXCEPT !.row = [rows[Local] EXCEPT !.active = TRUE]])
    /\ UNCHANGED <<confVars, clients, ready>>

GotActive(r) ==
    LET my == My(r)
        p == my.row.provider
        reset == my.asked # "none"
    IN  /\ calls[r].at \in {"active.found", "active.save"}
        /\ rows' = IF Awaits(r, "active.save") THEN [rows EXCEPT ![p] = my.row] ELSE rows
        /\ activeCopy' = my.row
        /\ ready' = IF reset THEN ready \ {p} ELSE ready
        /\ Go(r, IF p \in ready /\ ~reset THEN Finished ELSE NeedConfig("ready", p, my.asked))
        /\ UNCHANGED <<copies, clients>>

\* provider.initialize succeeds, or throws.
FinishReady(r) ==
    LET row == My(r).row
    IN  /\ Awaits(r, "provider.ready")
        /\ \/ /\ clients' = [clients EXCEPT ![row.provider] = row.version]
              /\ ready' = ready \cup {row.provider}
           \/ UNCHANGED <<clients, ready>>
        /\ Answer(r)
        /\ UNCHANGED confVars

-----------------------------------------------------------------------------
(* The controller's operations.                                            *)

ReadConfig(r, p) ==
    /\ Arrive(r, NeedConfig("read", p, "none"))
    /\ UNCHANGED <<confVars, clients, ready>>

\* getStats, and the start of the process.
UseStorage(r) ==
    /\ Arrive(r, IF activeCopy = NoCopy
                 THEN [at |-> "active.find", my |-> [row |-> NoCopy, asked |-> "none"]]
                 ELSE MakeReady(activeCopy.provider, "none"))
    /\ UNCHANGED <<confVars, clients, ready>>

\* updateConfig.  A copy from the cache may be a plain object without the
\* entity's methods; then the handler throws before it has written anything.
UpdateConfig(r, p) ==
    /\ Arrive(r, NeedConfig("update", p, "none"))
    /\ UNCHANGED <<confVars, clients, ready>>

Invalidated(ps) == copies' = [p \in Providers |-> IF p \in ps THEN NoCopy ELSE copies[p]]
                   /\ activeCopy' = NoCopy

\* What a request names of the configuration.
Parts == {"nothing", "other fields", "credentials"}

\* How often the credentials have been encrypted after it: the stored ones go
\* through encrypt with whatever the request names.
Encrypted(row, part) ==
    LET times == CASE part = "nothing" -> row.secret
                   [] part = "other fields" -> row.secret + 1
                   [] part = "credentials" -> 1
    IN  IF row.provider = Local THEN 0 ELSE IF times < MaxSecret THEN times ELSE MaxSecret

SaveConfig(r) ==
    LET row == My(r).row
    IN  /\ Awaits(r, "conf.save")
        /\ row.version < MaxVersion
        /\ \E complete \in BOOLEAN, part \in Parts :
              rows' = [rows EXCEPT ![row.provider] =
                          [row EXCEPT !.version = @ + 1, !.configured = complete,
                                      !.secret = Encrypted(row, part)]]
        /\ Invalidated({row.provider})
        /\ Answer(r)
        /\ UNCHANGED <<clients, ready>>

TestProvider(r, p, then) ==
    /\ Arrive(r, NeedConfig(then, p, "none"))
    /\ UNCHANGED <<confVars, clients, ready>>

\* What a provider says of a configuration.  decrypt undoes one encryption.
Verdicts(row) == {FALSE, row.secret < 2}

\* validateProvider initializes the provider and asks it whether the
\* configuration is good.
TryProvider(r) ==
    LET my == My(r)
        row == my.row
    IN  /\ Awaits(r, "provider.test")
        /\ \/ /\ clients' = [clients EXCEPT ![row.provider] = row.version]
              /\ \E good \in Verdicts(row) :
                    Await(r, "conf.result", [then |-> my.then, for |-> row.provider, good |-> good])
           \/ /\ Await(r, "conf.result", [then |-> my.then, for |-> row.provider, good |-> FALSE])
              /\ UNCHANGED clients
        /\ UNCHANGED <<confVars, ready>>

\* setValidationResult; activate goes on with the configuration, read anew.
SaveResult(r) ==
    LET my == My(r)
    IN  /\ Awaits(r, "conf.result")
        /\ rows' = [rows EXCEPT ![my.for].configured = my.good]
        /\ Invalidated({my.for})
        /\ ready' = IF my.good THEN ready \cup {my.for} ELSE ready
        /\ Go(r, IF my.then = "activate" /\ my.good
                 THEN [at |-> "conf.find", my |-> [then |-> "switch", row |-> NoCopy,
                                                   for |-> my.for, asked |-> "none"]]
                 ELSE Finished)
        /\ UNCHANGED clients

\* Mutant: the providers that were active stay so.
ClearActive_Off(r) ==
    /\ Awaits(r, "conf.clear")
    /\ AwaitNext(r, "conf.activate")
    /\ UNCHANGED <<confVars, clients, ready>>

\* The update has no criteria, which means all rows, unless TypeORM refuses it.
ClearActive(r) ==
    /\ Awaits(r, "conf.clear")
    /\ \/ /\ rows' = [p \in Providers |-> [rows[p] EXCEPT !.active = FALSE]]
          /\ AwaitNext(r, "conf.activate")
       \/ Answer(r) /\ UNCHANGED rows
    /\ UNCHANGED <<copies, activeCopy, clients, ready>>

Activate(r) ==
    LET row == My(r).row
    IN  /\ Awaits(r, "conf.activate")
        /\ rows' = [rows EXCEPT ![row.provider] = [row EXCEPT !.active = TRUE]]
        /\ Invalidated(Providers)
        /\ Await(r, "active.find", [row |-> NoCopy, asked |-> row.provider])
        /\ UNCHANGED <<clients, ready>>

\* Copies last five minutes.
ExpireCopy(p) ==
    /\ copies[p] # NoCopy
    /\ copies' = [copies EXCEPT ![p] = NoCopy]
    /\ UNCHANGED <<calls, rows, activeCopy, clients, ready>>

ExpireActive ==
    /\ activeCopy # NoCopy
    /\ activeCopy' = NoCopy
    /\ UNCHANGED <<calls, rows, copies, clients, ready>>

RestartStorage ==
    /\ calls' = [r \in Slots |-> Free]
    /\ copies' = [p \in Providers |-> NoCopy]
    /\ activeCopy' = NoCopy
    /\ clients' = [p \in Providers |-> 0]
    /\ ready' = {}
    /\ UNCHANGED rows

StorageCalls(r) ==
    \/ FindConfig(r) \/ GotConfig(r) \/ SaveConfig(r)
    \/ FindActive(r) \/ FindLocal(r) \/ GotActive(r) \/ FinishReady(r)
    \/ TryProvider(r) \/ SaveResult(r) \/ ClearActive(r) \/ Activate(r)

StorageNext ==
    \/ \E r \in Slots :
          \/ \E p \in Providers :
                \/ ReadConfig(r, p) \/ UpdateConfig(r, p)
                \/ TestProvider(r, p, "test") \/ TestProvider(r, p, "activate")
          \/ UseStorage(r)
          \/ StorageCalls(r)
    \/ \E p \in Providers : ExpireCopy(p)
    \/ ExpireActive \/ RestartStorage

\* The configurations on their own.
StorageSpec == HandlersInit /\ StorageInit /\ [][StorageNext]_StorageVars

\* Part of StorageNext, for runs: activations only, while the active copy expires.
ActivationsNext ==
    \/ \E r \in Slots :
          \/ \E p \in Providers : TestProvider(r, p, "activate")
          \/ StorageCalls(r)
    \/ ExpireActive

-----------------------------------------------------------------------------
\* "Solo uno puede estar activo": an activation that overlaps with nothing makes
\* its provider the only active one, for the table, for the cache and, with the
\* configuration of the table, for the client, whatever earlier races, failures
\* or restarts have left of the three.
ActivationTakesEffect ==
    [][\A r \in Slots :
          Awaits(r, "provider.ready") /\ ~InFlight(r)' /\ calls[r].alone
          /\ My(r).asked # "none" /\ My(r).row.provider \in ready'
          => LET p == My(r).asked
             IN  /\ \A q \in Providers : rows'[q].active <=> q = p
                 /\ activeCopy' \in {NoCopy, rows'[p]}
                 /\ clients'[p] = rows'[p].version
      ]_StorageVars

\* "Los campos sensibles como secretAccessKey, apiSecret se almacenan
\* encriptados": decrypt, applied once, gives a provider the credentials that
\* the administrator has entered.
CredentialsReadable == \A p \in Providers : rows[p].secret <= 1
=============================================================================
