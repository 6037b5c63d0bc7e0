------------------------------- MODULE Launch -------------------------------
(***************************************************************************)
(* How a program comes under checkpoint control and stays there: its       *)
(* environment from dmtcp_checkpoint through the constructor of libdmtcp,  *)
(* the exec wrappers, fork, the shells of popen and system, and ssh.  One  *)
(* line of processes is followed; libraries stand for LD_PRELOAD's paths.  *)
(***************************************************************************)
EXTENDS Naturals, SequencesExt

CONSTANTS
  LaunchOptions,   \* options of dmtcp_checkpoint: some of OptionVars and "ptrace"
  UserPreloads,    \* values programs give LD_PRELOAD, <<>> for none
  Copies,          \* whether an environment made for an exec repeats the caller's variables
  OwnPreloads,     \* the LD_PRELOAD of such environments
  ClearsEnv,       \* whether programs clear their environment
  Executed,        \* what is executed: some of "program", "command", "static", "ssh", "login"
  Paths,           \* some of "plain", "setuid", "library"
  SetuidFails,     \* whether the exec of a copied setuid program can fail
  StaticForks,     \* whether statically linked programs fork before they exec
  StaleErrno,      \* whether errno may be set when the constructor reads the signal
  MaxLaunches, MaxExecTries, MaxPids   \* bounds

ASSUME LaunchAssumption ==
  /\ MaxLaunches \in Nat /\ MaxExecTries \in Nat /\ MaxPids \in Nat
  /\ {ClearsEnv, SetuidFails, StaticForks, StaleErrno} \cup Copies \subseteq BOOLEAN
  /\ \A user \in UserPreloads \cup OwnPreloads : user \in Seq(ToSet(user))

VARIABLES
  env,        \* the environment: names in it, and the values of DMTCP_HIJACK_LIBS ("hijack"),
              \* LD_PRELOAD, DMTCP_VIRTUAL_PID and the table file ("serial"); <<>> is unset
  launchStage, \* "start", "remote", "loading", "runs", "shell", "static", "free", "gone" or "aborted"
  who,        \* the virtual pids of the process and of its parent
  identity,   \* the pid in UniquePid::ThisProcess
  tables,     \* the table files on the disk
  loaded,     \* the environment that the program running now was loaded with, and the signals
              \* it gave MTCP and DMTCP: "default" or "chosen"
  wanted,     \* the options asked for
  meant,      \* the LD_PRELOAD the program should see
  launches, tries, pids
launchVars == <<env, launchStage, who, identity, tables, loaded, wanted, meant, launches, tries, pids>>

OptionVars == {"host", "port", "prefix", "ckptdir", "tmpdir", "plugin", "gzip", "signal", "openfiles"}
ENV_VARS_ALL == OptionVars \cup {"root", "dlsym", "utility"}
NoEnvironment == [names |-> {}, hijack |-> <<>>, preload |-> <<>>, vpid |-> <<>>, serial |-> <<>>]

(* processArgs and main set the options' variables; the checkpoint signal  *)
(* has a name of its own for MTCP.                                         *)
Named(e, options) == e.names \cup (options \cap OptionVars) \cup {"ckptdir", "utility", "root", "dlsym"}
Chosen(e, options) ==
  LET names == Named(e, options)
  IN  (names \ {"openfiles", "MTCP_SIGCKPT"}) \cup (options \cap {"openfiles"})
        \cup {x \in {"MTCP_SIGCKPT"} : "signal" \in names}
PreloadLibs(names, options) ==
  (IF "plugin" \in names THEN <<"plugin">> ELSE <<>>)
    \o (IF "ptrace" \in options THEN <<"ptrace">> ELSE <<>>) \o <<"ipc", "dmtcp", "pid">>

LaunchEnvironment(options, user) ==
  LET names == Chosen(env, options)
      libs  == PreloadLibs(names, options)
  IN  env' = [env EXCEPT !.names = names, !.hijack = libs, !.preload = libs \o user,
                         !.vpid = <<pids + 1, who[2]>>]

(* dmtcp_checkpoint gets a virtual pid from the coordinator and executes   *)
(* the program.                                                            *)
Launch(options, user) ==
  /\ launches < MaxLaunches /\ pids < MaxPids
  /\ LaunchEnvironment(options, user)
  /\ launchStage' = "loading"
  /\ who' = <<pids + 1, who[2]>>
  /\ meant' = user
  /\ launches' = launches + 1 /\ pids' = pids + 1
  /\ UNCHANGED <<identity, tables, loaded, tries>>

LaunchHere(options, user) ==
  /\ launchStage \in {"start", "free"}
  /\ launchStage = "free" => user = env.preload
  /\ Launch(options, user)
  /\ wanted' = options

(* On the other host sshd gives an environment of its own; the options     *)
(* came with the command.                                                  *)
LaunchRemote(options) ==
  /\ launchStage = "remote"
  /\ Launch(options, <<>>)
  /\ UNCHANGED wanted
(* The options that processSshCommand puts before the remote command.      *)
DmtcpArgs(e) == {"host"} \cup (e.names \cap OptionVars)

(* LD_PRELOAD without the libraries of DMTCP, the value programs see.      *)
UserPreload(e) ==
  IF IsPrefix(e.hijack, e.preload)
  THEN [e EXCEPT !.preload = SubSeq(@, Len(e.hijack) + 1, Len(@))]
  ELSE e

(* mtcp_init clears errno before strtol, determineMtcpSignal does not.     *)
MtcpSignal(e) == IF "MTCP_SIGCKPT" \in e.names THEN "chosen" ELSE "default"
DmtcpSignal(e, errno) == IF "MTCP_SIGCKPT" \in e.names /\ ~errno THEN "chosen" ELSE "default"

(* The constructor first reads and removes the table file that an exec     *)
(* left, or finds itself the root of a computation; a table file that is   *)
(* not there ends the process.                                             *)
Unreadable == env.serial \notin tables \cup {<<>>}
WithoutTable == [env EXCEPT !.serial = <<>>,
                            !.names = IF env.serial = <<>> THEN @ \ {"root"} ELSE @]
ReadTable(next) ==
  /\ launchStage = "loading"
  /\ launchStage' = IF Unreadable THEN "aborted" ELSE next
  /\ tables' = tables \ {env.serial}
  /\ identity' = IF env.serial = <<>> THEN who[1] ELSE env.serial[1]

Load(errno) ==
  /\ ReadTable("runs")
  /\ env' = UserPreload(WithoutTable)
  /\ loaded' = [with |-> env, mtcp |-> MtcpSignal(env), dmtcp |-> DmtcpSignal(env, errno)]
  /\ UNCHANGED <<who, wanted, meant, launches, tries, pids>>

(* A command of DMTCP is executed again without control.                   *)
LoadCommand ==
  /\ "command" \in Executed
  /\ ReadTable("free")
  /\ env' = UserPreload(WithoutTable)
  /\ UNCHANGED <<who, loaded, wanted, meant, launches, tries, pids>>

(* ssh is executed again with dmtcp_checkpoint before the remote command;  *)
(* without a command ("login") an assertion fails.                         *)
LoadSsh(command) ==
  /\ command \in Executed
  /\ ReadTable(IF command = "login" THEN "aborted" ELSE "remote")
  /\ env' = [NoEnvironment EXCEPT !.names = DmtcpArgs(env)]
  /\ meant' = <<>>
  /\ UNCHANGED <<who, loaded, wanted, launches, tries, pids>>

(* A statically linked program does not load libdmtcp; what it executes    *)
(* finds the environment that was meant for it.                            *)
LoadStatic ==
  /\ launchStage = "loading" /\ "static" \in Executed
  /\ launchStage' = "static"
  /\ UNCHANGED <<env, who, identity, tables, loaded, wanted, meant, launches, tries, pids>>
StaticExec ==
  /\ launchStage = "static"
  /\ pids' = IF StaticForks THEN pids + 1 ELSE pids
  /\ who' = IF StaticForks THEN <<pids + 1, who[1]>> ELSE who
  /\ launchStage' = "loading"
  /\ UNCHANGED <<env, identity, tables, loaded, wanted, meant, launches, tries>>

(* dmtcpPrepareForExec leaves the table file's name, the dlsym offset and  *)
(* the pids in the caller's environment.                                   *)
WithPids(e, pid, ppid) == [e EXCEPT !.vpid = <<pid, ppid>>]
Prepared(e) ==
  [WithPids(e, who[1], who[2]) EXCEPT !.names = @ \cup {"dlsym"}, !.serial = <<identity, tries + 1>>]

UpdatedPreload(e, given) == e.hijack \o (IF given # <<>> THEN given ELSE e.preload)

(* execve, execvpe, fexecve and execle take an environment: its variables  *)
(* of DMTCP are replaced by the caller's.                                  *)
UserEnv(e, copies) == IF copies THEN e.names \ ENV_VARS_ALL ELSE {}
PatchedEnvMutant(e, copies, given) ==
  [Prepared(e) EXCEPT !.names = UserEnv(e, copies), !.preload = UpdatedPreload(e, given)]
PatchedEnv(e, copies, given) ==
  [Prepared(e) EXCEPT !.names = UserEnv(e, copies) \cup (Prepared(e).names \cap ENV_VARS_ALL),
                      !.preload = UpdatedPreload(e, given)]

(* execvp and execlp change the environment of the caller itself; execv    *)
(* and execl pass it to execve.                                            *)
OwnEnv(e) == [Prepared(e) EXCEPT !.preload = UpdatedPreload(e, <<>>)]

ExecCall(call) ==
  IF call \in {"execvp", "execlp"} THEN "own"
  ELSE IF call \in {"execv", "execl"} THEN "environ"
  ELSE "given"
Environments ==
  {[of |-> how, copies |-> TRUE, preload |-> env.preload] :
      how \in {ExecCall(c) : c \in {"execv", "execvp"}}}
    \cup [of : {ExecCall("execve")}, copies : Copies, preload : OwnPreloads]

NewEnv(given) ==
  IF given.of = "own" THEN OwnEnv(env) ELSE PatchedEnv(env, given.copies, given.preload)

(* After a failed exec the caller has its environment back, but for the    *)
(* table file; freePatchedArgv frees a pointer into the copied argv.       *)
FailedExecMutant(e, given) ==
  LET after == IF given.of = "own" THEN OwnEnv(e) ELSE Prepared(e)
  IN  [after EXCEPT !.names = @ \ {"dlsym"}]
FailedExec(e, given) ==
  LET after == IF given.of = "own" THEN OwnEnv(e) ELSE Prepared(e)
  IN  [UserPreload(after) EXCEPT !.names = @ \ {"dlsym"}]

(* The child of popen and system passes its environment on.                *)
ShellPasses(given) == launchStage = "shell" => given.of = "environ"
MayExec ==
  /\ launchStage \in {"runs", "shell"} /\ tries < MaxExecTries
  /\ tries' = tries + 1

(* The std::string of an unset DMTCP_HIJACK_LIBS ends the process.         *)
Exec(path, given) ==
  /\ MayExec /\ path # "library"
  /\ ShellPasses(given)
  /\ tables' = tables \cup {<<identity, tries + 1>>}
  /\ env' = NewEnv(given)
  /\ meant' = given.preload
  /\ launchStage' = IF env.hijack = <<>> THEN "aborted" ELSE "loading"
  /\ UNCHANGED <<who, identity, loaded, wanted, launches, pids>>

ExecFails(path, given) ==
  /\ MayExec /\ env.hijack # <<>> /\ path # "library"
  /\ ShellPasses(given)
  /\ path = "setuid" => SetuidFails
  /\ tables' = tables \cup {<<identity, tries + 1>>}
  /\ env' = FailedExec(env, given)
  /\ launchStage' = IF launchStage = "shell" THEN "gone" ELSE IF path = "setuid" THEN "aborted" ELSE "runs"
  /\ UNCHANGED <<who, identity, loaded, wanted, meant, launches, pids>>

(* A library that is executed, and utempter, run in a child without        *)
(* libdmtcp, whose output the process prints before it exits.              *)
ExecShortLived ==
  /\ MayExec /\ "library" \in Paths
  /\ env' = [env EXCEPT !.preload = <<>>]
  /\ launchStage' = "gone"
  /\ UNCHANGED <<who, identity, tables, loaded, wanted, meant, launches, pids>>

(* fork leaves the child's pids in the environment for the child only.     *)
ForkMutant(child) ==
  /\ env' = WithPids(env, pids + 1, who[1])
  /\ who' = IF child THEN <<pids + 1, who[1]>> ELSE who
  /\ identity' = IF child THEN pids + 1 ELSE identity
Fork(child) ==
  /\ env' = IF child THEN WithPids(env, pids + 1, who[1]) ELSE WithPids(env, who[1], who[2])
  /\ who' = IF child THEN <<pids + 1, who[1]>> ELSE who
  /\ identity' = IF child THEN pids + 1 ELSE identity
ForkIn(child) ==
  /\ launchStage = "runs" /\ pids < MaxPids
  /\ Fork(child)
  /\ pids' = pids + 1
  /\ UNCHANGED <<launchStage, tables, loaded, wanted, meant, launches, tries>>

(* popen and system execute the shell in a child, which ends if it cannot. *)
Shell ==
  /\ launchStage = "runs" /\ pids < MaxPids
  /\ Fork(TRUE)
  /\ pids' = pids + 1
  /\ launchStage' = "shell"
  /\ UNCHANGED <<tables, loaded, wanted, meant, launches, tries>>

(* A program sets LD_PRELOAD, or clears its environment.                   *)
SetEnv ==
  /\ launchStage = "runs"
  /\ \E preload \in UserPreloads, clears \in {FALSE, ClearsEnv} :
       /\ env' = [(IF clears THEN NoEnvironment ELSE env) EXCEPT !.preload = preload]
       /\ meant' = preload
  /\ UNCHANGED <<launchStage, who, identity, tables, loaded, wanted, launches, tries, pids>>

LaunchInit ==
  /\ env = NoEnvironment /\ launchStage = "start" /\ who = <<1, 0>> /\ identity = 0
  /\ tables = {} /\ loaded = [with |-> NoEnvironment, mtcp |-> "default", dmtcp |-> "default"]
  /\ wanted = {} /\ meant = <<>>
  /\ launches = 0 /\ tries = 0 /\ pids = 1

LaunchNext ==
  \/ \E options \in SUBSET LaunchOptions, user \in UserPreloads : LaunchHere(options, user)
  \/ LaunchRemote(env.names)
  \/ \E errno \in {FALSE, StaleErrno} : Load(errno)
  \/ LoadCommand
  \/ \E command \in {"ssh", "login"} : LoadSsh(command)
  \/ LoadStatic \/ StaticExec
  \/ \E path \in Paths, given \in Environments : Exec(path, given) \/ ExecFails(path, given)
  \/ ExecShortLived
  \/ \E child \in BOOLEAN : ForkIn(child)
  \/ Shell \/ SetEnv

LaunchSpec == LaunchInit /\ [][LaunchNext]_launchVars

(* Every program that runs under control was loaded with all the options   *)
(* given at launch, and all it needs to pass them on, whatever environment *)
(* it was executed with and after any exec that failed (patchUserEnv, the  *)
(* ssh command line); no process aborts on the way.                        *)
SettingsKept ==
  /\ launchStage # "aborted"
  /\ launchStage = "runs" =>
       /\ wanted \cap OptionVars \subseteq loaded.with.names
       /\ wanted \cap {"plugin", "ptrace"} \subseteq ToSet(loaded.with.hijack)
       /\ "utility" \in loaded.with.names /\ "dmtcp" \in ToSet(loaded.with.preload)

(* A program sees the LD_PRELOAD it was executed with, without DMTCP's     *)
(* libraries (restoreUserLDPRELOAD: "Next, hide our value of LD_PRELOAD"), *)
(* and a failed exec leaves it as it was.                                  *)
PreloadKept == launchStage \in {"runs", "free"} => env.preload = meant

(* A process is known by its own pids: the pids in its environment and the *)
(* identity from the table file are its own (setVirtualPidEnvVar,          *)
(* UniquePid::serialize).                                                  *)
OwnIdentity ==
  launchStage = "runs" => identity = who[1] /\ env.vpid \in {who, <<>>}

(* The wrappers protect the signal that MTCP uses, the one asked for at    *)
(* launch (determineMtcpSignal: "this mimics the MTCP logic").             *)
OneSignal ==
  launchStage = "runs" =>
    /\ loaded.dmtcp = loaded.mtcp
    /\ "signal" \in wanted => loaded.mtcp = "chosen"

\* Every program of a computation is loaded with its settings, sees its own LD_PRELOAD,
\* is known by its own pids, and has one checkpoint signal.
ControlKept == SettingsKept /\ PreloadKept /\ OwnIdentity /\ OneSignal
=============================================================================
