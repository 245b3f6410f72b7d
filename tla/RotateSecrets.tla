---------------------------- MODULE RotateSecrets ----------------------------
(***************************************************************************)
(* backend/scripts/rotate-secrets.ts: the operator's command that rotates   *)
(* the database password (two login users that take turns), the admin API   *)
(* key and the hot wallet's signing key.  A secret is a number, a larger    *)
(* one being newer; 0 is an unset entry.  One command runs at a time; every *)
(* await is a step, and the command may die between any two of them.        *)
(*                                                                          *)
(* The pods read the secret store when they start.  Those in Deployed are   *)
(* rolled by the command, the others (Outside) only restart by themselves.  *)
(***************************************************************************)
EXTENDS Naturals, FiniteSets

CONSTANTS
  Deployed,   \* pods of the deployments given with --deployments
  Outside,    \* other services that read the same secrets
  MaxRuns,    \* bound on the commands an operator gives
  MaxFaults   \* bound on crashes and failed rollouts

ASSUME RotateAssumption ==
  /\ Deployed \cap Outside = {}
  /\ MaxRuns \in Nat
  /\ MaxFaults \in Nat

VARIABLES
  roles,      \* PostgreSQL's login roles
  signers,    \* keys that may sign for the hot wallet's account
  store,      \* the secret store: a Kubernetes Secret or an .env file
  pods,       \* what each pod read from the store when it started
  script,     \* the running command
  client,     \* the API key the operators' clients use
  announced,  \* phase 1 of the API key's rotation has reported the new key
  runs, faults,
  clean       \* the last command found nothing an earlier one had left undone, and the
              \* clients had the new key when its --overlap was over

rotateVars == <<roles, signers, store, pods, script, client, announced, runs, faults, clean>>

DbUsers == {"blue", "green"}
Roles == DbUsers \cup {"legacy"}
Secret == 0 .. MaxRuns + 1
Url == [user : Roles, pw : Secret]
Role == [exists : BOOLEAN, login : BOOLEAN, pw : Secret, expires : BOOLEAN]
SecretMap == [url : Url, apiKey : Secret, apiPrev : Secret, wallet : Secret, walletPrev : Secret]
PodEnv == [url : Url, keys : SUBSET Secret, wallet : Secret]
Command == {"db", "api-key", "api-key:finalize", "hot-wallet", "hot-wallet:finalize"}
Step == {"idle", "set_password", "verify", "add_signer", "remove_signer", "publish",
         "rolling", "restore", "rerolling", "drain", "overlap"}

RotateTypeOK ==
  /\ roles \in [Roles -> Role]
  /\ signers \in SUBSET Secret
  /\ store \in SecretMap
  /\ pods \in [Deployed \cup Outside -> PodEnv]
  /\ script \in [cmd : Command, pc : Step, secrets : SecretMap, fresh : Secret]
  /\ client \in Secret
  /\ announced \in BOOLEAN
  /\ runs \in 0 .. MaxRuns
  /\ faults \in 0 .. MaxFaults
  /\ clean \in BOOLEAN

\* PostgreSQL's check of a user name and a password.
CanLogIn(rs, url) == rs[url.user].login /\ url.pw # 0 /\ rs[url.user].pw = url.pw

\* What a pod that starts now reads; the API takes the current and the previous key.
Snapshot(s) == [url |-> s.url, keys |-> {s.apiKey, s.apiPrev} \ {0}, wallet |-> s.wallet]

InStep(p) == pods[p] = Snapshot(store)

\* The deployment before the first rotation: one user from outside the pair.
RotateInit ==
  /\ roles = [u \in Roles |-> [exists |-> u = "legacy", login |-> u = "legacy",
                               pw |-> IF u = "legacy" THEN 1 ELSE 0, expires |-> FALSE]]
  /\ signers = {1}
  /\ store = [url |-> [user |-> "legacy", pw |-> 1], apiKey |-> 1, apiPrev |-> 0,
              wallet |-> 1, walletPrev |-> 0]
  /\ pods = [p \in Deployed \cup Outside |-> Snapshot(store)]
  /\ script = [cmd |-> "db", pc |-> "idle", secrets |-> store, fresh |-> 0]
  /\ client = 1 /\ announced = TRUE
  /\ runs = 0 /\ faults = 0 /\ clean = TRUE

Goto(pc) == script' = [script EXCEPT !.pc = pc]
Fault == faults < MaxFaults /\ faults' = faults + 1

------------------------------------------------------------------------------
(* Commands.                                                                *)

\* The user the next password is for.
standbyUser(active) == IF active = "blue" THEN "green" ELSE "blue"

activeUser == script.secrets.url.user
nextUrl == [user |-> standbyUser(activeUser), pw |-> script.fresh]

\* The first step of a command, or "idle" when it refuses or has nothing to do.
FirstStep(c) ==
  CASE c = "db" -> "set_password"
    [] c = "api-key" -> IF store.apiPrev # 0 THEN "idle" ELSE "publish"
    [] c = "api-key:finalize" -> IF store.apiPrev = 0 THEN "idle" ELSE "publish"
    [] c = "hot-wallet" ->
         IF store.walletPrev # 0 \/ store.wallet \notin signers THEN "idle" ELSE "add_signer"
    [] c = "hot-wallet:finalize" -> IF store.walletPrev = 0 THEN "idle" ELSE "remove_signer"

\* The operator finalizes a key when the clients have it, or when the command told
\* to: api-key refuses to start and names api-key:finalize.
MayFinalize == client = store.apiKey \/ ~announced

Start(c) ==
  /\ script.pc = "idle" /\ runs < MaxRuns /\ FirstStep(c) # "idle"
  /\ c = "api-key:finalize" => MayFinalize
  /\ c = "db" => roles[standbyUser(store.url.user)].exists
  /\ runs' = runs + 1
  /\ script' = [cmd |-> c, pc |-> FirstStep(c), secrets |-> store, fresh |-> runs + 2]
  /\ clean' = (announced /\ \A p \in Deployed : InStep(p) /\ client \in pods[p].keys)
  /\ UNCHANGED <<roles, signers, store, pods, client, announced, faults>>

\* setup-db creates the users that do not exist yet; they have no password.
SetupDb ==
  /\ script.pc = "idle"
  /\ \E u \in DbUsers : ~roles[u].exists
  /\ roles' = [u \in Roles |-> IF u \in DbUsers /\ ~roles[u].exists
                 THEN [exists |-> TRUE, login |-> TRUE, pw |-> 0, expires |-> FALSE] ELSE roles[u]]
  /\ UNCHANGED <<signers, store, pods, script, client, announced, runs, faults, clean>>

------------------------------------------------------------------------------
(* db: the standby user gets a new password and becomes the active one.     *)

\* Mutant: VALID UNTIL 'infinity' is forgotten.
SetPasswordStillExpiring ==
  /\ script.pc = "set_password"
  /\ roles' = [roles EXCEPT ![nextUrl.user].login = TRUE, ![nextUrl.user].pw = script.fresh]
  /\ Goto("verify")
  /\ UNCHANGED <<signers, store, pods, client, announced, runs, faults, clean>>

SetPassword ==
  /\ script.pc = "set_password"
  /\ roles' = [roles EXCEPT ![nextUrl.user] =
                 [exists |-> TRUE, login |-> TRUE, pw |-> script.fresh, expires |-> FALSE]]
  /\ Goto("verify")
  /\ UNCHANGED <<signers, store, pods, client, announced, runs, faults, clean>>

Verify ==
  /\ script.pc = "verify"
  /\ CanLogIn(roles, nextUrl)
  /\ Goto("publish")
  /\ UNCHANGED <<roles, signers, store, pods, client, announced, runs, faults, clean>>

\* hot-wallet: the old key makes the new one a signer.
AddSigner ==
  /\ script.pc = "add_signer"
  /\ script.secrets.wallet \in signers
  /\ signers' = signers \cup {script.fresh}
  /\ Goto("publish")
  /\ UNCHANGED <<roles, store, pods, client, announced, runs, faults, clean>>

\* Mutant: every key but the current one is removed.
RemoveOthers ==
  /\ script.pc = "remove_signer"
  /\ script.secrets.wallet \in signers
  /\ signers' = {script.secrets.wallet}
  /\ Goto("publish")
  /\ UNCHANGED <<roles, store, pods, client, announced, runs, faults, clean>>

\* hot-wallet:finalize: the new key removes the old one.  Removing a signer that is
\* gone already changes nothing, so that the command can be repeated.
RemoveSigner ==
  /\ script.pc = "remove_signer"
  /\ script.secrets.wallet \in signers
  /\ signers' = signers \ {script.secrets.walletPrev}
  /\ Goto("publish")
  /\ UNCHANGED <<roles, store, pods, client, announced, runs, faults, clean>>

------------------------------------------------------------------------------
(* store.write and restarter.restart, which every command ends with.        *)

Written ==
  CASE script.cmd = "db" -> [store EXCEPT !.url = nextUrl]
    [] script.cmd = "api-key" ->
         [store EXCEPT !.apiKey = script.fresh, !.apiPrev = script.secrets.apiKey]
    [] script.cmd = "api-key:finalize" -> [store EXCEPT !.apiPrev = 0]
    [] script.cmd = "hot-wallet" ->
         [store EXCEPT !.wallet = script.fresh, !.walletPrev = script.secrets.wallet]
    [] script.cmd = "hot-wallet:finalize" -> [store EXCEPT !.walletPrev = 0]

Publish ==
  /\ script.pc = "publish"
  /\ store' = Written
  /\ announced' = (announced /\ script.cmd # "api-key")
  /\ Goto("rolling")
  /\ UNCHANGED <<roles, signers, pods, client, runs, faults, clean>>

\* A pod is replaced by one that has read the store and can reach the database.
Roll(p) ==
  /\ script.pc \in {"rolling", "rerolling"}
  /\ ~InStep(p) /\ CanLogIn(roles, store.url)
  /\ pods' = [pods EXCEPT ![p] = Snapshot(store)]
  /\ UNCHANGED <<roles, signers, store, script, client, announced, runs, faults, clean>>

\* What a command does after a successful rollout.  A user from outside the pair is
\* left alone; --overlap waits and then finalizes.
AfterRollout ==
  CASE script.pc = "rolling" /\ script.cmd = "db" -> {IF activeUser \in DbUsers THEN "drain" ELSE "idle"}
    [] script.pc = "rolling" /\ script.cmd = "api-key" -> {"idle", "overlap"}
    [] OTHER -> {"idle"}

\* Mutant: "rollout restart" without "rollout status".
RolledOutAtOnce ==
  /\ script.pc \in {"rolling", "rerolling"}
  /\ \E pc \in AfterRollout : Goto(pc)
  /\ announced' = (announced \/ script.cmd \in {"api-key", "api-key:finalize"})
  /\ UNCHANGED <<roles, signers, store, pods, client, runs, faults, clean>>

RolledOut ==
  /\ script.pc \in {"rolling", "rerolling"}
  /\ \A p \in Deployed : InStep(p)
  /\ \E pc \in AfterRollout : Goto(pc)
  /\ announced' = (announced \/ script.cmd \in {"api-key", "api-key:finalize"})
  /\ UNCHANGED <<roles, signers, store, pods, client, runs, faults, clean>>

\* A rollout that fails: db restores what it had read, the others give up.
RolloutFails ==
  /\ script.pc \in {"rolling", "rerolling"}
  /\ Fault
  /\ Goto(IF script.pc = "rolling" /\ script.cmd = "db" THEN "restore" ELSE "idle")
  /\ UNCHANGED <<roles, signers, store, pods, client, announced, runs, clean>>

Restore ==
  /\ script.pc = "restore"
  /\ store' = [store EXCEPT !.url = script.secrets.url]
  /\ Goto("rerolling")
  /\ UNCHANGED <<roles, signers, pods, client, announced, runs, faults, clean>>

\* waitForDrain: a client that still has the old user may have no session open at the
\* moment of the query, so the count may be 0 in any case.
LockPrevious ==
  /\ script.pc = "drain"
  /\ roles' = [roles EXCEPT ![activeUser].login = FALSE, ![activeUser].pw = 0]
  /\ Goto("idle")
  /\ UNCHANGED <<signers, store, pods, client, announced, runs, faults, clean>>

\* Sessions that are left at the deadline: the password expires in an hour.
ExpirePrevious ==
  /\ script.pc = "drain"
  /\ \E p \in Deployed \cup Outside : pods[p].url.user = activeUser
  /\ roles' = [roles EXCEPT ![activeUser].expires = TRUE]
  /\ Goto("idle")
  /\ UNCHANGED <<signers, store, pods, client, announced, runs, faults, clean>>

\* --overlap: the window the operator chose is over, whatever key the clients have.
OverlapEnds ==
  /\ script.pc = "overlap"
  /\ script' = [script EXCEPT !.cmd = "api-key:finalize", !.secrets = store,
                !.pc = IF store.apiPrev = 0 THEN "idle" ELSE "publish"]
  /\ clean' = (clean /\ client = script.fresh)
  /\ UNCHANGED <<roles, signers, store, pods, client, announced, runs, faults>>

\* The command dies, or one of its steps throws: before its effect or after it.
Crash ==
  /\ script.pc # "idle"
  /\ Fault
  /\ Goto("idle")
  /\ UNCHANGED <<roles, signers, store, pods, client, announced, runs, clean>>

------------------------------------------------------------------------------
(* The environment.                                                         *)

\* A password's VALID UNTIL passes.
Expire(u) ==
  /\ roles[u].expires
  /\ roles' = [roles EXCEPT ![u].pw = 0, ![u].expires = FALSE]
  /\ UNCHANGED <<signers, store, pods, script, client, announced, runs, faults, clean>>

\* A pod is rescheduled, or a service outside the deployments is restarted.
PodRestarts(p) ==
  /\ ~InStep(p) /\ CanLogIn(roles, store.url)
  /\ pods' = [pods EXCEPT ![p] = Snapshot(store)]
  /\ UNCHANGED <<roles, signers, store, script, client, announced, runs, faults, clean>>

\* Clients take over the key that phase 1 reported.
ClientMoves ==
  /\ announced /\ client # store.apiKey
  /\ client' = store.apiKey
  /\ UNCHANGED <<roles, signers, store, pods, script, announced, runs, faults, clean>>

RotateNext ==
  \/ \E c \in Command : Start(c)
  \/ SetupDb \/ SetPassword \/ Verify \/ AddSigner \/ RemoveSigner
  \/ Publish \/ RolledOut \/ RolloutFails \/ Restore
  \/ LockPrevious \/ ExpirePrevious \/ OverlapEnds \/ Crash \/ ClientMoves
  \/ \E p \in Deployed : Roll(p)
  \/ \E p \in Deployed \cup Outside : PodRestarts(p)
  \/ \E u \in Roles : Expire(u)

RotateSpec == RotateInit /\ [][RotateNext]_rotateVars

------------------------------------------------------------------------------
(* Properties.                                                              *)

\* Whatever command is interrupted wherever, the database user and password and the
\* wallet key in the store work, so that a pod that starts is never locked out: a
\* role is only changed while the store names the other one, and a signer is only
\* removed when the stored key is another one.
StoredSecretsWork ==
  CanLogIn(roles, store.url) /\ store.wallet \in signers

\* No downtime: when a command starts with the pods in step with the store, the last
\* API key reported and the clients served, and the clients have taken the new key by the
\* time --overlap is over (the command does not look), every pod of the deployments can
\* reach the database and sign, and takes the key the clients use, through all steps of the
\* command, its failing rollouts, its restoration and its death, until the next command
\* starts.  Without the premise it does not hold: a second db run after one that died before
\* the rollout gives a new password to the user the pods still log in with.
ServicesKeepWorking ==
  clean => \A p \in Deployed :
    CanLogIn(roles, pods[p].url) /\ pods[p].wallet \in signers /\ client \in pods[p].keys

\* Keys that may sign and that neither the store nor the running command knows.
Orphans ==
  signers \ {store.wallet, store.walletPrev,
             IF script.pc \in {"publish", "rolling"} THEN script.fresh ELSE 0}

\* A signer whose secret was lost with a command that died between the transaction
\* and the store's update can sign for ever: no command removes it.
OrphansStay == [][Orphans \subseteq Orphans']_rotateVars
==============================================================================
