------------------------------ MODULE Startup ------------------------------
(***************************************************************************)
(* A start of the server, step by step, over the database and the .env     *)
(* file that earlier starts -- of this release or of another -- have left: *)
(* migrate, the flag, the bind address, the secret, listen.                *)
(*                                                                         *)
(* Credentials takes a start to be one step; this module shows that it may *)
(* (ServesAsCredentials).  A step here is what the process does between    *)
(* two commits or two waits, and it may be killed after any of them.       *)
(* `npm run import' migrates the same database and goes no further.        *)
(*                                                                         *)
(* A migration is its file's text; of what migrations do to the schema,    *)
(* two things matter here: 003 makes users, and 004 makes payouts again.   *)
(***************************************************************************)
EXTENDS Credentials

CONSTANTS
  Texts,       \* what a migration file may hold
  Releases,    \* the migration files of each release, in order
  Payouts,
  MaxSecret    \* bound of an instance: secrets ever generated

Users == 3        \* 003_auth.sql
Rebuild == 4      \* 004_traders.sql

ASSUME StartupConstants ==
  /\ \A r \in Releases : r \in Seq(Texts) /\ Len(r) \in Users..Rebuild
  /\ MaxSecret \in Nat

VARIABLES
  boot,      \* the start under way: its step, and what it was asked for
  release,   \* the migration files on disk
  applied,   \* schema_migrations: the text each version had when it was run
  ran,       \* auxiliary: how often each version's statements took effect
  ledger,    \* the payouts on file, and those of them that have legs
  env,       \* the values .env gives SESSION_SECRET, line by line; 0: empty
  secret,    \* what the server signs cookies with
  signed,    \* session -> what its cookie is signed with; 0: a secret on no file
  minted     \* auxiliary: secrets generated so far

disk == <<release, applied, ran, ledger>>
keys == <<env, secret, signed, minted>>
allVars == <<vars, boot, disk, keys>>

Off == [step |-> "off", host |-> "import", cost |-> 1]
AtBoot(s) == boot.step = s
Goes(s) == boot' = [boot EXCEPT !.step = s]

-----------------------------------------------------------------------------
(* Between two starts, by hand *)

(* Another release is unpacked over this one, or a file of it is edited.    *)
Deploy(r) ==
  /\ host = "down" /\ AtBoot("off") /\ r # release
  /\ release' = r
  /\ UNCHANGED <<vars, boot, applied, ran, ledger, keys>>

(* No .env, or a copy of .env.example, whose SESSION_SECRET says nothing.   *)
Blank == {<<>>, <<0>>}

LoseEnv ==
  /\ host = "down" /\ AtBoot("off")
  /\ env' \in Blank /\ env' # env
  /\ signed' = [i \in DOMAIN signed |-> 0]
  /\ UNCHANGED <<vars, boot, disk, secret, minted>>

RecoverAccount ==
  /\ AtBoot("off") /\ EmptyUsers
  /\ signed' = SubSeq(signed, 1, Len(sessions'))
  /\ UNCHANGED <<boot, disk, env, secret, minted>>

-----------------------------------------------------------------------------
(* migrate *)

(* h: the address asked for, or "import" of the importer, which has none.   *)
Boot(h, c) ==
  /\ host = "down" /\ AtBoot("off")
  /\ boot' = [step |-> "migrating", host |-> h, cost |-> c]
  /\ UNCHANGED <<vars, disk, keys>>

Edited(v) == v <= Len(applied) /\ applied[v] # release[v]

History == \E v \in DOMAIN release : Edited(v)

(* MigrationChecksumError. *)
RefuseHistory ==
  /\ AtBoot("migrating") /\ History
  /\ boot' = Off
  /\ UNCHANGED <<vars, disk, keys>>

(* payouts is copied, dropped and renamed.  Dropping it deletes its rows,   *)
(* and transactions.payout_id is ON DELETE CASCADE: deferring the checks    *)
(* does not defer the cascade.                                              *)
Rebuilt(l) == [payouts |-> l.payouts, legs |-> {}]

(* The row `admin', hashed at the cost of the release that runs.            *)
SeedAdmin ==
  /\ user' = Seeded(boot.cost) /\ cost' = boot.cost
  /\ UNCHANGED <<sessions, now, req, host, epoch>>

(* What a version does besides making tables.                               *)
Effects(v) ==
  /\ IF v = Users THEN SeedAdmin ELSE UNCHANGED vars
  /\ ledger' = IF v = Rebuild THEN Rebuilt(ledger) ELSE ledger

(* Faulty: the row of schema_migrations is a second commit.                 *)
RecordedLater(v) ==
  /\ Effects(v)
  /\ ran' = [ran EXCEPT ![v] = @ + 1]
  /\ \/ applied' = Append(applied, release[v]) /\ UNCHANGED boot
     \/ applied' = applied /\ boot' = Off

(* The statements, the seed and the row of schema_migrations, in one        *)
(* transaction.                                                             *)
Apply(v) ==
  /\ Effects(v)
  /\ ran' = [ran EXCEPT ![v] = @ + 1]
  /\ applied' = Append(applied, release[v])
  /\ UNCHANGED boot

MigrateNext ==
  /\ AtBoot("migrating") /\ ~History
  /\ Len(applied) < Len(release)
  /\ Apply(Len(applied) + 1)
  /\ UNCHANGED <<release, keys>>

Migrated == AtBoot("migrating") /\ ~History /\ Len(applied) >= Len(release)

(* Faulty: missing when the shipped account is, whoever else there is.      *)
MissingIfChanged == IF user = NoRow THEN TRUE ELSE user.pw # Shipped

IsMissing == user = NoRow

RepairSeeds ==
  /\ Migrated
  /\ IF IsMissing THEN SeedAdmin ELSE UNCHANGED vars
  /\ Goes("migrated")
  /\ UNCHANGED <<disk, keys>>

-----------------------------------------------------------------------------
(* start *)

(* The importer goes on to its sheet, and ends.                             *)
EndImport ==
  /\ AtBoot("migrated") /\ boot.host = "import"
  /\ boot' = Off
  /\ UNCHANGED <<vars, disk, keys>>

(* Faulty: a host that is not among the loopback names is taken on trust.   *)
SafeIfNamed == TRUE

SafeBindAddress ==
  boot.host = "remote" => user = NoRow \/ ~user.mustChange

(* The flag and assertSafeBindAddress: InsecureBindError, or on.            *)
CheckBindAddress ==
  /\ AtBoot("migrated") /\ boot.host # "import"
  /\ IF SafeBindAddress THEN Goes("allowed") ELSE boot' = Off
  /\ UNCHANGED <<vars, disk, keys>>

(* Faulty: the last line wins, and there is a new one at every start.       *)
NeverOnFile == 0

(* readEnvFileValue: the first line that names the key, whatever it says.   *)
OnFile == IF env = <<>> THEN 0 ELSE Head(env)

LoadOrCreateSessionSecret ==
  /\ AtBoot("allowed")
  /\ \/ /\ OnFile # 0
        /\ secret' = OnFile
        /\ UNCHANGED <<env, minted>>
     \/ /\ OnFile = 0 /\ minted < MaxSecret
        /\ minted' = minted + 1
        /\ secret' = minted'
        /\ env' = Append(env, secret')
  /\ Goes("ready")
  /\ UNCHANGED <<vars, disk, signed>>

(* warmUp and buildServer are behind it.                                    *)
Listen ==
  /\ AtBoot("ready")
  /\ host' = boot.host /\ cost' = boot.cost
  /\ boot' = Off
  /\ UNCHANGED <<user, sessions, now, req, epoch, disk, keys>>

(* A kill, a port that is taken, a full disk.                               *)
Fail ==
  /\ ~AtBoot("off")
  /\ boot' = Off
  /\ UNCHANGED <<vars, disk, keys>>

-----------------------------------------------------------------------------
(* The server at work *)

Presented(i) == signed[i] = secret

(* Data routes are behind both guards.                                      *)
Write(i, new) ==
  /\ Use(i) /\ Presented(i) /\ ~user.mustChange
  /\ ledger' = new
  /\ UNCHANGED <<boot, release, applied, ran, keys>>

RecordPayout(i, p) ==
  /\ p \notin ledger.payouts
  /\ Write(i, [ledger EXCEPT !.payouts = @ \cup {p}])

RecordLeg(i, p) ==
  /\ p \in ledger.payouts \ ledger.legs
  /\ Write(i, [ledger EXCEPT !.legs = @ \cup {p}])

(* A new session's cookie is signed with the server's own secret.           *)
Serve ==
  /\ \/ \E i \in DOMAIN sessions : Presented(i) /\ (Use(i) \/ SignOut(i))
     \/ \E r \in Requests :
          \/ SignIn(r)
          \/ \E i \in DOMAIN sessions : Presented(i) /\ BeginChange(r, i)
          \/ \E wish \in Passwords \cup {Keep} : ReadBody(r, wish)
          \/ BeginHash(r) \/ SaveChange(r)
          \/ DieBeforeSweep(r) \/ DieBeforeSession(r)
     \/ Stop \/ Tick
  /\ signed' = IF Len(sessions') > Len(sessions) THEN Append(signed, secret)
               ELSE signed
  /\ UNCHANGED <<boot, disk, env, secret, minted>>

StartupInit ==
  /\ Init
  /\ boot = Off
  /\ release \in Releases /\ applied = <<>>
  /\ ran = [v \in 1..Rebuild |-> 0]
  /\ ledger = [payouts |-> {}, legs |-> {}]
  /\ env \in Blank /\ secret = 0 /\ signed = <<>> /\ minted = 0

StartOrImport ==
  \/ \E h \in {"loopback", "remote", "import"}, c \in cost..MaxCost : Boot(h, c)
  \/ RefuseHistory \/ MigrateNext \/ RepairSeeds \/ EndImport
  \/ CheckBindAddress \/ LoadOrCreateSessionSecret \/ Listen \/ Fail

StartupNext ==
  \/ \E r \in Releases : Deploy(r)
  \/ LoseEnv \/ RecoverAccount
  \/ StartOrImport
  \/ Serve
  \/ \E i \in DOMAIN sessions, p \in Payouts :
       RecordPayout(i, p) \/ RecordLeg(i, p)

StartupSpec == StartupInit /\ [][StartupNext]_allVars

-----------------------------------------------------------------------------
(* Properties *)

(* However a start is cut short, and whatever release it is of, what the    *)
(* account, its sessions and the outside see of it is Credentials' one      *)
(* step: the account put back if there is none, and a server that listens   *)
(* elsewhere than on loopback only with the shipped password changed.       *)
ServesAsCredentials == Spec

(* "The file is a record of what the database already did": no server works *)
(* on a database that lacks a migration of its release, or that ran another *)
(* text of one.                                                             *)
WorksOnItsOwnHistory ==
  host # "down" =>
    \A v \in DOMAIN release : v <= Len(applied) /\ applied[v] = release[v]

(* "Either both landed or neither did": a version is recorded exactly when  *)
(* its statements have taken effect, once, through any kills and releases.  *)
RecordedIsDone ==
  \A v \in DOMAIN ran : ran[v] = IF v <= Len(applied) THEN 1 ELSE 0

(* While .env stays where it is, a restart signs nobody out, if the first   *)
(* line that names SESSION_SECRET names one; and what the server signs with *)
(* is always the last it wrote.  So of a copy of .env.example, whose line   *)
(* is empty, every start signs everybody out.                               *)
FirstLineDecides ==
  host # "down" =>
    /\ secret = env[Len(env)]
    /\ Head(env) # 0 => \A i \in DOMAIN signed : signed[i] \in {0, secret}

(* session-secret.test.ts: "it reads back what it wrote".  Violated: not    *)
(* below the empty line of .env.example.                                    *)
CookiesOutliveARestart ==
  host # "down" => \A i \in DOMAIN signed : signed[i] \in {0, secret}

(* 004_traders.sql: the table is rebuilt with the checks held to COMMIT, so *)
(* that dropping it is "not an error": no start loses a payout's legs.      *)
(* Violated: dropping it deletes its rows, and the legs cascade.            *)
UpgradeKeepsTheLegs == [][ledger.legs \subseteq ledger'.legs]_allVars

(* The table of migrations is true of the database, and the server that     *)
(* works on it is of the release that wrote it, through any kill, upgrade   *)
(* and edited file (migrate.ts).                                            *)
MigrationsAreTrue == WorksOnItsOwnHistory /\ RecordedIsDone
=============================================================================
