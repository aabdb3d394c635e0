----------------------------- MODULE McpRuntime -----------------------------
(***************************************************************************)
(* The life of the MCP server (mcp/runtime.rs) over the two files it keeps *)
(* (mcp_settings.rs, mcp_token.rs).  One lock serialises the commands, so  *)
(* a command is the list of the steps it still has to take; beside it run  *)
(* the server's task, the requests it admitted, the disk, which may refuse *)
(* any operation, and a power failure that may come between any two steps. *)
(* The unix build is modelled: a directory is synchronised after a rename. *)
(***************************************************************************)
EXTENDS Naturals, Sequences, FiniteSets

CONSTANTS
    MrSettings,     \* settings a user may choose, with a port that is not 0
    MrOn,           \* the settings with the server enabled
    MrDefault,      \* McpSettings::default
    Missing,        \* no file
    Corrupt,        \* a file that cannot be read, parsed or decrypted
    MrMaxToken,     \* bound: tokens are 1..MrMaxToken in the order of their generation
    MrMaxCrashes    \* bound on power failures

ASSUME RuntimeAssumption ==
    /\ MrOn \subseteq MrSettings /\ MrDefault \in MrSettings \ MrOn
    /\ {Missing, Corrupt} \cap MrSettings = {} /\ Missing # Corrupt
    /\ Missing \notin Nat /\ Corrupt \notin Nat
    /\ MrMaxToken \in Nat \ {0} /\ MrMaxCrashes \in Nat

VARIABLES
    mrSettings,     \* McpControl.settings
    mrState,        \* McpControl.state
    mrServer,       \* McpControl.server: the token it accepts (0: no server), and its task
    mrInitialized, mrClosing,
    mrTodo,         \* the steps the command that holds the lock has left
    mrArg,          \* the settings set_settings was called with
    mrToken,        \* the token the command has in hand
    mrTemp,         \* how far write_atomically came
    mrFile,         \* per file: what a read sees, and what outlives a power failure
    mrPromised,     \* per file: the values that may be there by the answers given so far
    mrAdmitted,     \* a request the server admitted is at work
    mrTokens, mrCrashes

mrControl == <<mrSettings, mrState, mrServer, mrInitialized, mrClosing, mrAdmitted>>
mrDisk == <<mrTemp, mrFile, mrPromised, mrTokens>>
mrVars == <<mrControl, mrTodo, mrArg, mrToken, mrDisk, mrCrashes>>

NoServer == [token |-> 0, running |-> FALSE]

\* McpRuntime::build: settings that cannot be read leave the defaults and an error.
Loaded(seen) ==
    IF seen \in {Missing, Corrupt} THEN MrDefault ELSE seen
Boot(files) ==
    /\ mrSettings = Loaded(files["settings"].seen)
    /\ mrState = IF files["settings"].seen = Corrupt THEN "storageFailed" ELSE "disabled"
    /\ mrInitialized = (files["settings"].seen = Corrupt)

MrInit ==
    /\ \E s \in MrSettings \cup {Missing, Corrupt}, t \in {1, Missing, Corrupt} :
          mrFile = [f \in {"settings", "token"} |->
                       IF f = "settings" THEN [seen |-> s, safe |-> s] ELSE [seen |-> t, safe |-> t]]
    /\ mrPromised = [f \in DOMAIN mrFile |-> {mrFile[f].seen}]
    /\ Boot(mrFile)
    /\ mrServer = NoServer /\ mrClosing = FALSE /\ mrTodo = <<>> /\ mrArg = MrDefault
    /\ mrToken = 0 /\ mrTemp = "none" /\ mrAdmitted = FALSE
    /\ mrTokens = 1 /\ mrCrashes = 0

----------------------------------------------------------------------------
(* The commands, each as the steps it takes once it holds the lock.        *)

Takes(steps) ==
    /\ mrTodo = <<>>
    /\ mrTodo' = steps
    /\ UNCHANGED <<mrControl, mrToken, mrDisk, mrCrashes>>

Initialize == Takes(<<"initialize">>) /\ UNCHANGED mrArg

GetSettings ==
    /\ ~mrClosing
    /\ Takes(<<"initialize", "refresh">>) /\ UNCHANGED mrArg

SetSettings ==
    /\ ~mrClosing
    /\ mrArg' \in MrSettings
    /\ Takes(<<"initialize", "compare">>)

GetToken == ~mrClosing /\ Takes(<<"initialize", "load">>) /\ UNCHANGED mrArg

RegenerateToken ==
    /\ ~mrClosing
    /\ Takes(<<"initialize", "stop", "join", "regenerate">>) /\ UNCHANGED mrArg

Shutdown ==
    /\ ~mrClosing /\ mrTodo = <<>>
    /\ mrClosing' = TRUE
    /\ mrTodo' = <<"stop", "join", "disabled">>
    /\ UNCHANGED <<mrSettings, mrState, mrServer, mrInitialized, mrAdmitted, mrArg, mrToken, mrDisk,
                   mrCrashes>>

----------------------------------------------------------------------------
(* The steps of a command.                                                 *)

Step(name) == mrTodo # <<>> /\ Head(mrTodo) = name
Rest == Tail(mrTodo)
Start == <<"load", "bind">>
Forget == mrArg' = MrDefault     \* the argument goes with the call

InitializeLocked ==
    /\ Step("initialize")
    /\ IF mrInitialized \/ mrClosing
       THEN mrTodo' = Rest /\ UNCHANGED mrInitialized
       ELSE /\ mrInitialized' = TRUE
            /\ mrTodo' = IF mrSettings \in MrOn THEN Start \o Rest ELSE Rest
    /\ UNCHANGED <<mrSettings, mrState, mrServer, mrClosing, mrAdmitted, mrArg, mrToken, mrDisk,
                   mrCrashes>>

Ended == mrServer # NoServer /\ ~mrServer.running

\* refresh_finished_server
Refresh ==
    /\ Step("refresh")
    /\ mrTodo' = Rest /\ Forget
    /\ IF Ended
       THEN /\ mrServer' = NoServer /\ mrAdmitted' = FALSE
            /\ mrState' \in {"disabled", "bindFailed"}
       ELSE UNCHANGED <<mrServer, mrAdmitted, mrState>>
    /\ UNCHANGED <<mrSettings, mrInitialized, mrClosing, mrToken, mrDisk, mrCrashes>>

InForce ==
    /\ mrSettings = mrArg
    /\ mrState = "running" \/ (mrState = "disabled" /\ mrArg \notin MrOn)

NeedsSave == mrSettings # mrArg \/ mrState = "storageFailed"

Compare ==
    /\ Step("compare")
    /\ mrTodo' = IF InForce THEN <<"refresh">>
                 ELSE (IF NeedsSave THEN <<"save">> ELSE <<>>) \o <<"stop", "join", "apply">>
    /\ UNCHANGED <<mrControl, mrArg, mrToken, mrDisk, mrCrashes>>

\* stop_server: the server is taken out and its authentication disabled, which
\* revokes what it admitted ...
Stop ==
    /\ Step("stop")
    /\ mrAdmitted' = FALSE
    /\ mrServer' = [mrServer EXCEPT !.token = 0]
    /\ mrTodo' = Rest
    /\ UNCHANGED <<mrSettings, mrState, mrInitialized, mrClosing, mrArg, mrToken, mrDisk, mrCrashes>>

\* ... and its task ends, or is aborted when the grace is over.
Join ==
    /\ Step("join")
    /\ mrServer' = NoServer /\ mrTodo' = Rest
    /\ UNCHANGED <<mrSettings, mrState, mrInitialized, mrClosing, mrAdmitted, mrArg, mrToken, mrDisk,
                   mrCrashes>>

Apply ==
    /\ Step("apply")
    /\ mrSettings' = mrArg /\ Forget
    /\ mrTodo' = IF mrArg \in MrOn THEN Start ELSE <<"disabled">>
    /\ UNCHANGED <<mrState, mrServer, mrInitialized, mrClosing, mrAdmitted, mrToken, mrDisk,
                   mrCrashes>>

Disabled ==
    /\ Step("disabled")
    /\ mrState' = "disabled" /\ mrTodo' = Rest
    /\ UNCHANGED <<mrSettings, mrServer, mrInitialized, mrClosing, mrAdmitted, mrArg, mrToken, mrDisk,
                   mrCrashes>>

\* What start_server does without a token; get_mcp_token only reports it.
NoToken ==
    IF Rest # <<>> /\ Head(Rest) = "bind"
    THEN mrState' = "storageFailed" /\ mrTodo' = Tail(Rest)
    ELSE mrTodo' = <<>> /\ UNCHANGED mrState

\* load_existing: the token in the file, if there is one and it is whole.
LoadExisting == {mrFile["token"].seen} \ {Missing, Corrupt}

\* load_or_create: only a file that is missing makes a new token.
Load ==
    /\ Step("load")
    /\ \/ \E token \in LoadExisting :
             /\ mrToken' = IF Rest = <<>> THEN 0 ELSE token
             /\ mrTodo' = Rest /\ UNCHANGED mrState
       \/ /\ mrFile["token"].seen = Missing
          /\ mrTodo' = <<"create">> \o Rest /\ UNCHANGED <<mrToken, mrState>>
       \/ NoToken /\ UNCHANGED mrToken
    /\ UNCHANGED <<mrSettings, mrServer, mrInitialized, mrClosing, mrAdmitted, mrArg, mrDisk, mrCrashes>>

\* The listener opens, or the port is taken.
Bind ==
    /\ Step("bind")
    /\ mrTodo' = Rest /\ mrToken' = 0
    /\ \/ mrServer' = [token |-> mrToken, running |-> TRUE] /\ mrState' = "running"
       \/ mrState' = "bindFailed" /\ UNCHANGED mrServer
    /\ UNCHANGED <<mrSettings, mrInitialized, mrClosing, mrAdmitted, mrArg, mrDisk, mrCrashes>>

----------------------------------------------------------------------------
(* write_atomically, for the settings and for a token.                     *)

Writes == {"save", "create", "regenerate"}
Writing == mrTodo # <<>> /\ Head(mrTodo) \in Writes
Target == IF Head(mrTodo) = "save" THEN "settings" ELSE "token"
Value == IF Head(mrTodo) = "save" THEN mrArg ELSE mrTokens

WriteOpen ==
    /\ Writing /\ mrTemp = "none"
    /\ Target = "token" => mrTokens < MrMaxToken
    /\ mrTemp' = "written"
    /\ mrTokens' = IF Target = "token" THEN mrTokens + 1 ELSE mrTokens
    /\ mrPromised' = [mrPromised EXCEPT ![Target] = @ \cup {IF Target = "token" THEN mrTokens + 1 ELSE mrArg}]
    /\ UNCHANGED <<mrFile, mrControl, mrTodo, mrArg, mrToken, mrCrashes>>

\* Mutant of WriteSync: sync_all is left out.
WriteSyncNone ==
    /\ Writing /\ mrTemp = "written"
    /\ mrTemp' = "unsynced"
    /\ UNCHANGED <<mrFile, mrPromised, mrTokens, mrControl, mrTodo, mrArg, mrToken, mrCrashes>>

WriteSync ==
    /\ Writing /\ mrTemp = "written"
    /\ mrTemp' = "synced"
    /\ UNCHANGED <<mrFile, mrPromised, mrTokens, mrControl, mrTodo, mrArg, mrToken, mrCrashes>>

\* From here on the new value is read; which one a power failure leaves is open
\* until the directory is synchronised, and a file not synchronised may be torn.
WriteRename ==
    /\ Writing /\ mrTemp \in {"synced", "unsynced"}
    /\ \E safe \in {mrFile[Target].safe, IF mrTemp = "synced" THEN Value ELSE Corrupt} :
          mrFile' = [mrFile EXCEPT ![Target] = [seen |-> Value, safe |-> safe]]
    /\ mrTemp' = "renamed"
    /\ UNCHANGED <<mrPromised, mrTokens, mrControl, mrTodo, mrArg, mrToken, mrCrashes>>

\* What follows the write in its command.
Wrote ==
    LET step == Head(mrTodo)
    IN /\ mrToken' = IF step = "save" THEN mrToken
                     ELSE IF step = "create" /\ Rest = <<>> THEN 0 ELSE Value
       /\ mrTodo' = IF step # "regenerate" THEN Rest
                    ELSE IF mrSettings \in MrOn THEN <<"bind">> ELSE <<"disabled">>

DirectorySynced(f) == [mrFile[f] EXCEPT !.safe = mrFile[f].seen]

WriteDone ==
    /\ Writing /\ mrTemp = "renamed"
    /\ mrFile' = [mrFile EXCEPT ![Target] = DirectorySynced(Target)]
    /\ mrPromised' = [mrPromised EXCEPT ![Target] = {Value}]
    /\ mrTemp' = "none"
    /\ Wrote
    /\ UNCHANGED <<mrTokens, mrControl, mrArg, mrCrashes>>

\* Any operation of the write may fail; after the rename the value stays.
WriteFails ==
    /\ Writing
    /\ mrTemp' = "none"
    /\ CASE Head(mrTodo) = "save" -> mrTodo' = <<>> /\ Forget /\ UNCHANGED mrState
         [] Head(mrTodo) = "create" -> NoToken /\ UNCHANGED mrArg
         [] OTHER -> mrState' = "storageFailed" /\ mrTodo' = <<>> /\ UNCHANGED mrArg
    /\ UNCHANGED <<mrFile, mrPromised, mrTokens, mrSettings, mrServer, mrInitialized, mrClosing,
                   mrAdmitted, mrToken, mrCrashes>>

----------------------------------------------------------------------------
(* The server's task, a request, and a power failure.                      *)

ServerEnds ==
    /\ mrServer.running
    /\ mrServer' = [mrServer EXCEPT !.running = FALSE]
    /\ UNCHANGED <<mrSettings, mrState, mrInitialized, mrClosing, mrAdmitted, mrTodo, mrArg, mrToken,
                   mrDisk, mrCrashes>>

\* authenticate: a disabled McpHttpAuth admits nothing.
Admit ==
    /\ mrServer.running /\ mrServer.token # 0
    /\ mrAdmitted' = TRUE
    /\ UNCHANGED <<mrSettings, mrState, mrServer, mrInitialized, mrClosing, mrTodo, mrArg, mrToken,
                   mrDisk, mrCrashes>>

PowerFails ==
    /\ mrCrashes < MrMaxCrashes
    /\ mrCrashes' = mrCrashes + 1
    /\ mrFile' = [f \in DOMAIN mrFile |-> [mrFile[f] EXCEPT !.seen = mrFile[f].safe]]
    /\ mrSettings' = Loaded(mrFile["settings"].safe)
    /\ mrState' = IF mrFile["settings"].safe = Corrupt THEN "storageFailed" ELSE "disabled"
    /\ mrInitialized' = (mrFile["settings"].safe = Corrupt)
    /\ mrServer' = NoServer /\ mrClosing' = FALSE /\ mrTodo' = <<>> /\ mrToken' = 0
    /\ mrTemp' = "none" /\ mrAdmitted' = FALSE /\ Forget
    /\ UNCHANGED <<mrPromised, mrTokens>>

Command == Initialize \/ GetSettings \/ SetSettings \/ GetToken \/ RegenerateToken \/ Shutdown
CommandStep ==
    \/ InitializeLocked \/ Refresh \/ Compare \/ Stop \/ Join \/ Apply \/ Disabled \/ Load \/ Bind
    \/ WriteOpen \/ WriteSync \/ WriteRename \/ WriteDone \/ WriteFails

MrNext == Command \/ CommandStep \/ ServerEnds \/ Admit \/ PowerFails

\* The commands are async functions the runtime polls to their end; the wait for
\* the server's task has a timer.
MrFairness == WF_mrVars(CommandStep)
MrSpec == MrInit /\ [][MrNext]_mrVars
MrFairSpec == MrSpec /\ MrFairness

----------------------------------------------------------------------------
(* What the runtime promises.                                              *)

\* Whatever operation fails and whenever the power does, each file reads as a
\* value it was last given: an answered save or regeneration can no longer be
\* lost, and no write leaves half a file (write_atomically).
AnswersLast ==
    \A f \in DOMAIN mrFile : {mrFile[f].seen, mrFile[f].safe} \subseteq mrPromised[f]

\* A token that regenerate_token has replaced opens no server again, not even
\* while the new one is being written, nor after a restart.
ReplacedTokenIsDead ==
    mrServer.token # 0 => mrServer.token \in mrPromised["token"]

\* Between commands the settings in force are the ones of the file, up to a save
\* that failed (set_settings saves before it applies).
SettingsAreStored ==
    mrTodo = <<>> /\ Corrupt \notin mrPromised["settings"] =>
        mrSettings \in {Loaded(s) : s \in mrPromised["settings"]}

\* Once shutdown has run no command that waited for the lock starts a server.
ClosedStaysClosed == mrClosing /\ ~Step("stop") => mrServer.token = 0

\* No request outlives the server that admitted it: every way the server goes
\* (stop_server, refresh_finished_server) disables its authentication.
NoRequestWithoutServer == mrAdmitted => mrServer.token # 0

\* What the runtime has answered stays true through failures, restarts and the
\* server's own end: of the files, of the tokens it replaced, of its shutdown
\* and of the requests it admitted.
RuntimeKeepsItsWord ==
    /\ AnswersLast /\ SettingsAreStored
    /\ ReplacedTokenIsDead /\ ClosedStaysClosed /\ NoRequestWithoutServer

\* Every command gives the lock back, whatever the server's task does.
CommandEnds == mrTodo # <<>> ~> mrTodo = <<>>
============================================================================
