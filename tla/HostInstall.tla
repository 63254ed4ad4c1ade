---------------------------- MODULE HostInstall -----------------------------
(***************************************************************************)
(* The platform on its host: hola bootstrap, update and teardown, which    *)
(* run remote commands over SSH one after the other, and the scripts they  *)
(* run there (packages/compose/scripts/install.sh).  Any command may fail, *)
(* and the operator tries again with whatever command he likes.  The       *)
(* secrets of the identity provider lie in .env and, from its first start, *)
(* in its database's volume: they have to stay the same.                   *)
(*                                                                         *)
(* Secrets are numbered as they are generated, versions as they appear, 0  *)
(* is none.  One command runs at a time.                                   *)
(***************************************************************************)
EXTENDS Naturals

CONSTANTS
  MaxVersion,     \* bound on the versions published
  MaxRuns,        \* bound on the commands run
  MaxTroubles     \* bound on what fails

VARIABLES
  latest,     \* the newest version published
  ours,       \* the install directory has the name of the compose project
  files,      \* the version of the VERSION file and of the rest of the bundle
  env,        \* the .env on the host
  archive,    \* the .env in the newest snapshot
  volumes,    \* the secrets the database was made with
  issued,     \* those the server got the outpost's token with
  up,         \* the containers: version of the platform's, secrets of the
              \* identity provider's, token of the LDAP outpost, if it runs
  run,        \* the command
  torn,       \* .env was being moved over when the command died
  kept,       \* a reset has left volumes behind
  runs, troubles

vars == <<latest, ours, files, env, archive, volumes, issued, up, run, torn, kept, runs, troubles>>

NoEnv == [there |-> FALSE, named |-> FALSE, mode |-> "", secrets |-> 0, profiles |-> {}, token |-> 0]
Down  == [core |-> 0, sso |-> 0, ldap |-> {}]
Idle  == [cmd |-> "none", at |-> "ended", target |-> 0, option |-> FALSE, backup |-> FALSE,
          was |-> NoEnv, behind |-> FALSE, exit |-> 0]

Init ==
  /\ latest = 1 /\ ours \in BOOLEAN
  /\ files = [stamp |-> 0, rest |-> 0] /\ env = NoEnv /\ archive = NoEnv
  /\ volumes = 0 /\ issued = 0 /\ up = Down /\ run = Idle
  /\ torn = FALSE /\ kept = FALSE /\ runs = 0 /\ troubles = 0

host == <<files, env, archive, volumes, issued, up, torn, kept>>

Trouble == troubles < MaxTroubles /\ troubles' = troubles + 1
At(cmds, stage) == run.cmd \in cmds /\ run.at = stage
Goes(stage) == run' = [run EXCEPT !.at = stage]
Fails == run' = [run EXCEPT !.at = "ended", !.exit = 1]
Rest == UNCHANGED <<latest, ours, runs>>

-----------------------------------------------------------------------------
Publish ==
  /\ latest < MaxVersion /\ latest' = latest + 1
  /\ UNCHANGED <<ours, host, run, runs, troubles>>

(* The operator types a command, with a CLI of any version. The option is   *)
(* --reinstall, --enable-sso or --keep-data.                                *)
First == [bootstrap |-> "probe", update |-> "self", teardown |-> "stop"]

Types ==
  /\ run.at = "ended" /\ runs < MaxRuns /\ runs' = runs + 1
  /\ run' \in [cmd : {"bootstrap", "update", "teardown"}, at : {"probe", "self", "stop"},
               target : 1..latest, option : BOOLEAN, backup : BOOLEAN, was : {NoEnv},
               behind : {FALSE}, exit : {0}]
  /\ run'.at = First[run'.cmd] /\ (run'.backup => run'.cmd = "update")
  /\ UNCHANGED <<latest, ours, host, troubles>>

(* The connection is lost, a check fails, or the command is killed.         *)
Dies ==
  /\ run.at # "ended" /\ Trouble /\ Fails
  /\ UNCHANGED host /\ Rest

(* Mutant: the host is brought to the version the command was typed with.   *)
AsTyped(newest) == run.target

(* The version the host is brought to once the CLI has replaced itself.     *)
SelfUpdated(newest) == newest

(* update first brings the CLI itself up to date, unless it is told not to, *)
(* learns of nothing newer, or has no build for the machine.                *)
SelfUpdate ==
  /\ At({"update"}, "self")
  /\ \/ run' = [run EXCEPT !.at = "read", !.target = SelfUpdated(latest)]
     \/ run' = [run EXCEPT !.at = "read", !.behind = latest > run.target]
  /\ UNCHANGED <<host, troubles>> /\ Rest

-----------------------------------------------------------------------------
(* Mutant: only a .env is an install.                                       *)
HasEnv == env.there

(* What bootstrap takes for an install.                                     *)
Existing == env.there \/ volumes # 0

(* The probe of bootstrap, which refuses to install over an install.        *)
Probe ==
  /\ At({"bootstrap"}, "probe")
  /\ \/ Existing /\ run.option /\ Goes("reset")
     \/ Existing /\ ~run.option /\ Fails
     \/ ~Existing /\ Goes("fetch")
  /\ UNCHANGED <<host, troubles>> /\ Rest

(* A bare docker compose down in the directory: it finds the project only   *)
(* by the name of the directory or in .env, and the profiles by .env.       *)
Found == env.there /\ (ours \/ env.named)

Downed(works) == IF works /\ Found THEN Down ELSE up

(* The sweep of the volumes by name: one in use, or one that docker fails   *)
(* to remove, stays, and nobody is told.                                    *)
Swept(containers, works) ==
  /\ volumes' = IF works /\ containers.sso = 0 THEN 0 ELSE volumes
  /\ issued'  = IF works /\ containers.core = 0 THEN 0 ELSE issued

(* --reinstall resets what is there.                                        *)
Reset ==
  /\ At({"bootstrap"}, "reset")
  /\ \E works \in BOOLEAN :
       /\ IF works THEN UNCHANGED troubles ELSE Trouble
       /\ up' = Downed(works)
       /\ Swept(up', works)
       /\ kept' = (kept \/ volumes' # 0)
  /\ Goes("fetch")
  /\ UNCHANGED <<files, env, archive, torn>> /\ Rest

(* update reads .env, and refuses where there is none.                      *)
Read ==
  /\ At({"update"}, "read")
  /\ IF env.there
     THEN run' = [run EXCEPT !.at = IF run.backup THEN "backup" ELSE "sso", !.was = env]
     ELSE Fails
  /\ UNCHANGED <<host, troubles>> /\ Rest

(* Mutant: a snapshot that fails is no reason to stop.                      *)
GoesOn == Goes("sso")

(* A snapshot that fails halts the update.                                  *)
Halts == Fails

Backup ==
  /\ At({"update"}, "backup")
  /\ \/ archive' = env /\ Goes("sso") /\ UNCHANGED troubles
     \/ Trouble /\ Halts /\ UNCHANGED archive
  /\ UNCHANGED <<files, env, volumes, issued, up, torn, kept>> /\ Rest

(* Values are set in .env by a move from /tmp, which is a copy between two  *)
(* file systems: the command may die with none, some or half of it done.    *)
Sets(new, stage) ==
  \/ env' = new /\ Goes(stage) /\ UNCHANGED <<torn, troubles>>
  \/ /\ Trouble /\ Fails
     /\ \/ env' \in {new, [env EXCEPT !.secrets = new.secrets]} /\ UNCHANGED torn
        \/ env' = [NoEnv EXCEPT !.there = TRUE] /\ torn' = TRUE

(* An explicit none is turned into authentik when the operator says so.     *)
EnableSso ==
  /\ At({"update"}, "sso")
  /\ IF env.mode = "none" /\ run.option
     THEN Sets([env EXCEPT !.mode = "authentik"], "fetch")
     ELSE Goes("fetch") /\ UNCHANGED <<env, torn, troubles>>
  /\ UNCHANGED <<files, archive, volumes, issued, up, kept>> /\ Rest

(* Mutant: curl | tar succeeds when tar does.                               *)
Regardless == Goes("write")

(* A download that fails half way ends the command.                         *)
Incomplete == Fails

(* The bundle is unpacked over the directory: all of it, or what came.      *)
Fetch ==
  /\ At({"bootstrap", "update"}, "fetch")
  /\ \/ /\ files' = [stamp |-> run.target, rest |-> run.target]
        /\ Goes("write") /\ UNCHANGED troubles
     \/ /\ Trouble /\ Incomplete
        /\ files' \in [stamp : {files.stamp, run.target}, rest : {files.rest, run.target}]
  /\ UNCHANGED <<env, archive, volumes, issued, up, torn, kept>> /\ Rest

(* bootstrap writes a .env of its own, without secrets. The one the wizard  *)
(* renders does not name the compose project, .env.example does.            *)
Write ==
  /\ At({"bootstrap", "update"}, "write")
  /\ IF run.cmd = "update" THEN Goes("secrets") /\ UNCHANGED <<env, troubles>>
     ELSE /\ env' \in [there : {TRUE}, named : BOOLEAN, mode : {"", "none", "authentik"},
                       secrets : {0}, profiles : {{}, {"authentik", "ldap"}}, token : {0}]
          /\ env'.mode = "none" => env'.profiles = {}
          /\ Goes("secrets") \/ Fails
          /\ IF run'.exit = 0 THEN UNCHANGED troubles ELSE Trouble
  /\ UNCHANGED <<files, archive, volumes, issued, up, torn, kept>> /\ Rest

-----------------------------------------------------------------------------
(* install.sh.                                                              *)
Sso == env.mode # "none"

(* Mutant: the secrets are generated anew.                                  *)
Fresh(secrets) == runs

(* A secret that is there is kept. The secrets of one run have its number.  *)
Ensured(secrets) == IF secrets = 0 THEN runs ELSE secrets

(* Mutant: the outpost's profile is left as it is.                          *)
AsIs(e) == e.profiles

(* The outpost is held back until its token is there.                       *)
Staged(e) == IF e.token = 0 THEN e.profiles \ {"ldap"} ELSE e.profiles

Secrets ==
  /\ At({"bootstrap", "update"}, "secrets")
  /\ Sets(IF Sso THEN [env EXCEPT !.secrets = Ensured(@), !.profiles = {"authentik"} \cup Staged(env)]
          ELSE env, "up")
  /\ UNCHANGED <<files, archive, volumes, issued, up, kept>> /\ Rest

(* up -d of the profiles in .env. The containers of others it leaves alone. *)
(* The database takes its password at its first start.                      *)
Started(profiles) ==
  [core |-> files.stamp,
   sso  |-> IF "authentik" \in profiles THEN env.secrets ELSE up.sso,
   ldap |-> IF "ldap" \in profiles THEN {env.token} ELSE up.ldap]

Up ==
  /\ At({"bootstrap", "update"}, "up")
  /\ \/ up' = Started(env.profiles) /\ Goes("token") /\ UNCHANGED troubles
     \/ Trouble /\ Fails /\ \E some \in SUBSET env.profiles : up' = Started(some)
  /\ volumes' = IF volumes = 0 THEN up'.sso ELSE volumes
  /\ UNCHANGED <<files, env, archive, issued, torn, kept>> /\ Rest

(* The token is waited for; without it the outpost waits for the next run.  *)
Token ==
  /\ At({"bootstrap", "update"}, "token")
  /\ IF Sso /\ (env.token # 0 \/ issued # 0)
     THEN Sets([env EXCEPT !.token = IF @ = 0 THEN issued ELSE @,
                           !.profiles = @ \cup {"ldap"}], "ldap")
     ELSE Goes("ended") /\ UNCHANGED <<env, torn, troubles>>
  /\ UNCHANGED <<files, archive, volumes, issued, up, kept>> /\ Rest

Ldap ==
  /\ At({"bootstrap", "update"}, "ldap")
  /\ up' = [up EXCEPT !.ldap = {env.token}] /\ Goes("ended")
  /\ UNCHANGED <<files, env, archive, volumes, issued, torn, kept, troubles>> /\ Rest

(* The server has reached the identity provider with the secrets it has,    *)
(* and writes the token into its volume.                                    *)
Provisions ==
  /\ up.core # 0 /\ up.sso # 0 /\ up.sso = volumes /\ issued = 0
  /\ issued' = volumes
  /\ UNCHANGED <<latest, ours, files, env, archive, volumes, up, run, torn, kept, runs, troubles>>

-----------------------------------------------------------------------------
(* teardown goes through its steps whatever comes of them, and reports that *)
(* it is done.                                                              *)
Teardown(stage, next, effect, otherwise) ==
  /\ At({"teardown"}, stage) /\ Goes(next)
  /\ (effect /\ UNCHANGED troubles) \/ (Trouble /\ otherwise)
  /\ UNCHANGED <<archive, torn, kept>> /\ Rest

StopStack == Teardown("stop", "remove",
  /\ up' = Downed(TRUE) /\ UNCHANGED <<files, env>>
  /\ IF Found /\ ~run.option THEN volumes' = 0 /\ issued' = 0
     ELSE UNCHANGED <<volumes, issued>>,
  UNCHANGED <<files, env, volumes, issued, up>>)

(* By the name hola-, which the identity provider's containers do not have. *)
RemoveContainers == Teardown("remove", IF run.option THEN "ended" ELSE "sweep",
  up' = [up EXCEPT !.core = 0] /\ UNCHANGED <<files, env, volumes, issued>>,
  UNCHANGED <<files, env, volumes, issued, up>>)

Sweep == Teardown("sweep", "wipe",
  Swept(up, TRUE) /\ UNCHANGED <<files, env, up>>,
  UNCHANGED <<files, env, volumes, issued, up>>)

Wipe == Teardown("wipe", "ended",
  files' = [stamp |-> 0, rest |-> 0] /\ env' = NoEnv /\ UNCHANGED <<volumes, issued, up>>,
  UNCHANGED <<files, env, volumes, issued, up>>)

Next ==
  \/ Publish \/ Types \/ Dies \/ SelfUpdate
  \/ Probe \/ Reset \/ Read \/ Backup \/ EnableSso \/ Fetch \/ Write
  \/ Secrets \/ Up \/ Token \/ Ldap \/ Provisions
  \/ StopStack \/ RemoveContainers \/ Sweep \/ Wipe

Spec == Init /\ [][Next]_vars

-----------------------------------------------------------------------------
(* Types of the variables.                                                  *)
Envs == [there : BOOLEAN, named : BOOLEAN, mode : {"", "none", "authentik"}, secrets : Nat,
         profiles : SUBSET {"authentik", "ldap"}, token : Nat]
Stages == {"probe", "reset", "self", "read", "backup", "sso", "fetch", "write", "secrets", "up",
           "token", "ldap", "stop", "remove", "sweep", "wipe", "ended"}
Commands == [cmd : {"none", "bootstrap", "update", "teardown"}, at : Stages, target : Nat,
             option : BOOLEAN, backup : BOOLEAN, was : Envs, behind : BOOLEAN, exit : {0, 1}]
Bundled == [stamp : Nat, rest : Nat]
Containers == [core : Nat, sso : Nat, ldap : SUBSET Nat]

Shapes ==
  /\ latest \in Nat /\ files \in Bundled /\ env \in Envs /\ archive \in Envs
  /\ volumes \in Nat /\ issued \in Nat /\ up \in Containers /\ run \in Commands
  /\ torn \in BOOLEAN /\ kept \in BOOLEAN /\ runs \in Nat

TypeOK ==
  /\ Shapes /\ ours \in BOOLEAN
  /\ {files.stamp, files.rest, run.target, up.core} \subseteq 0..latest /\ latest \in 1..MaxVersion
  /\ {env.secrets, archive.secrets, volumes, issued, up.sso} \cup up.ldap \subseteq 0..runs
  /\ runs \in 0..MaxRuns /\ troubles \in 0..MaxTroubles

(* The identity provider runs with the secrets its database was made with,  *)
(* unless .env was torn or a reset left the volumes. The outpost never runs *)
(* without its token.                                                       *)
SecretsTogether ==
  /\ up.sso \in {0, volumes} \/ torn \/ kept
  /\ 0 \notin up.ldap

(* What an update has changed in .env was in the snapshot it took.          *)
ArchivedFirst ==
  run.cmd = "update" /\ run.backup /\ env # run.was /\ run.was.there => archive = run.was

(* A bootstrap or an update that reports no error has brought the platform  *)
(* to its version and the identity provider up, unless told not to.         *)
SuccessMeansRunning ==
  run.cmd \in {"bootstrap", "update"} /\ run.at = "ended" /\ run.exit = 0 =>
    /\ up.core = run.target /\ files = [stamp |-> run.target, rest |-> run.target]
    /\ Sso => up.sso # 0 /\ "authentik" \in env.profiles

(* An update takes the host back to an older version only with a CLI that   *)
(* did not bring itself up to date.                                         *)
NoDowngrade ==
  run.cmd = "update" /\ files'.stamp < files.stamp => run.behind

(* The invariant behind them, in its parts.  A command that is under way    *)
(* has a number and no error, and works on a .env that is there.            *)
Works(stages) == run.cmd \in {"bootstrap", "update"} /\ run.at \in stages

UnderWay ==
  /\ run.at # "ended" => runs # 0 /\ run.exit = 0
  /\ Works({"secrets", "up", "token", "ldap"}) => env.there
  /\ run.cmd = "update" /\ run.at \in {"backup", "sso", "fetch", "write"} => env.there

(* What the database was made with is in .env, or .env is about to be       *)
(* written anew and there is no database.                                   *)
Matched ==
  /\ torn \/ kept \/ ~env.there \/ volumes \in {0, env.secrets}
  /\ run.cmd = "bootstrap" /\ run.at \in {"fetch", "write"} => volumes = 0 \/ kept

(* Whoever has no token has no outpost.                                     *)
Outpost ==
  /\ env.mode = "none" => "ldap" \notin env.profiles
  /\ Works({"up"}) => env.token # 0 \/ "ldap" \notin env.profiles
  /\ Works({"ldap"}) => env.token # 0

(* What was read is in the snapshot before anything is changed.             *)
Snapshot ==
  run.cmd = "update" =>
    /\ run.at \in {"self", "read"} => ~run.was.there
    /\ run.at = "backup" => env = run.was
    /\ run.at \in {"sso", "fetch", "write", "secrets", "up", "token", "ldap"} /\ run.backup
         => archive = run.was

(* What has been brought where by each stage.                               *)
Brought ==
  /\ Works({"write", "secrets", "up", "token", "ldap"}) =>
       files = [stamp |-> run.target, rest |-> run.target]
  /\ Works({"up", "token", "ldap"}) /\ Sso => env.secrets # 0 /\ "authentik" \in env.profiles
  /\ Works({"token", "ldap"}) => up.core = run.target /\ (Sso => up.sso # 0)

(* No version is newer than the latest, nor is an update's target older     *)
(* than what is there.                                                      *)
Onward ==
  /\ files.stamp <= latest /\ run.target <= latest
  /\ run.cmd = "update" /\ run.at \in {"read", "backup", "sso", "fetch"} /\ ~run.behind
       => files.stamp <= run.target

HostInv ==
  /\ Shapes /\ SecretsTogether /\ ArchivedFirst /\ SuccessMeansRunning
  /\ UnderWay /\ Matched /\ Outpost /\ Snapshot /\ Brought /\ Onward
=============================================================================
