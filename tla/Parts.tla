------------------------------- MODULE Parts -------------------------------
(***************************************************************************)
(* The parts of the server that work on different rows and files:          *)
(* tailnets, npm packages, the schedule of updates, setting up from a      *)
(* backup, the limits of the sign-in form, sessions, the second step,      *)
(* teams, uploads, the call log, the processes of npm MCPs, requests       *)
(* through a tailnet, mails.  They share no state: one of them, `part`,    *)
(* moves in a behaviour, the others stay where they start.                 *)
(***************************************************************************)
EXTENDS Integers, Sequences, FiniteSets

CONSTANTS Parts,          \* the parts that move
          None,
          Requests,       \* requests under way in any part
          Ids,            \* tailnets, and links of uploads
          Supervisors,    \* Tailnets
          Rows, Latest, Installs,  \* NpmPackages
          Crons, Saves, Jobs,      \* AutoUpdate
          Tasks, Files, Own, KeyOf,  \* Backups
          Accounts, AddressLimit, AccountLimit, Duration, MaxWindows, Over,
          LoginClock,              \* Limiter
          MaxPasswords, MaxVersion, MaxTokens,  \* Sessions
          MaxSecrets, MaxGens,     \* TwoFactor, TailnetRequests
          MaxStep, MaxPasskeys,    \* TwoFactor
          Users, First, AddressOf, Invites,  \* Teams
          Uploads, Sweeper, Tool, MAX_STORED_BYTES, MAX_STORED_FILES,
          MAX_CONCURRENT_UPLOADS, MaxBytes, LinkTime, WholeTime, KeptTime,
          UploadClock,             \* UploadStore
          Writers, Flushers, MAX_PENDING_WRITES, WRITE_BATCH, Retention,
          MaxRecords, MaxLevels, LogClock,  \* CallLog
          Suffixes, MaxMoves,      \* TailnetRequests
          Mails, max, MaxCalls     \* SendMail

\* Sessions: an account has a password and a session version from the start.
ASSUME SessionsAssumption == MaxPasswords \in Nat \ {0} /\ MaxVersion \in Nat \ {0}

\* Limiter: so many guesses are allowed, at least one, to finitely many requests.
ASSUME LimiterAssumption ==
  /\ AddressLimit \in Nat \ {0} /\ AccountLimit \in Nat /\ Duration \in Nat
  /\ MaxWindows \in Nat /\ LoginClock \in Nat
  /\ IsFiniteSet(Requests)

\* TwoFactor: bounds.
ASSUME TwoFactorAssumption ==
  MaxSecrets \in Nat /\ MaxStep \in Nat /\ MaxPasskeys \in Nat /\ MaxGens \in Nat

\* None names no request, and no task the server may start.
ASSUME NoneAssumption == None \notin Requests \cup Supervisors \cup Jobs \cup Tasks

\* Teams: the account that set the instance up is one of the accounts.
ASSUME TeamsAssumption == First \in Users

VARIABLES part,
          removed, entries, sup, turn, ensure, states, gone,
          row, current, disk, holder, start, wiping,
          settings, save, job, timer, tick, run,
          up, db, place, keys, dirs, task,
          clock, address, counter, form, windows, wrong, guessed,
          password, version, protected, tokens, stamps, pending, signin,
          secret, last, passkeys, codes, unused, secrets, gens, second, accepted, spent,
          account, super, role, team, invite, page, admitted,
          hour, mcp, dir, file, meta, work, swept,
          waiting, unwritten, queued, written, writing, since, writer, table, levels, flush,
          day, last_pruned_at, pruners,
          use, connected, requests, reply, alive, killed, heir, eof, lines, watch, exited,
          output_read, closing, closer, kept,
          node, moves, cached, saved, target, entered, meant, beside, pool, send,
          call, told, calls, taken, remembered, delivered

-----------------------------------------------------------------------------

Net == INSTANCE Tailnets WITH Callers <- Requests, call <- ensure
Npm == INSTANCE NpmPackages WITH Callers <- Requests, call <- start
Timer == INSTANCE AutoUpdate
Bak == INSTANCE Backups WITH queue <- keys
Lim == INSTANCE Limiter WITH MaxClock <- LoginClock, account <- counter, req <- form
Ses == INSTANCE Sessions WITH req <- signin
Two == INSTANCE TwoFactor WITH req <- second
Ppl == INSTANCE Teams WITH req <- page
Upl == INSTANCE UploadStore WITH MaxClock <- UploadClock, clock <- hour
Log ==
  INSTANCE CallLog
    WITH MaxClock <- LogClock, pending <- unwritten, rows <- table, clock <- day
Child ==
  INSTANCE StdioClient
    WITH caller <- use, pending <- requests, answer <- reply, held <- heir, sup <- watch
Req == INSTANCE TailnetRequests WITH row <- target, req <- send
Mail == INSTANCE SendMail

\* NpmPackages: the row starts somewhere, and None is nothing that is installed.
ASSUME NpmAssumption ==
  /\ Len(Rows) \in Nat \ {0} /\ DOMAIN Rows = 1 .. Len(Rows)
  /\ None \notin Installs \cup [install : Installs, spec : Npm!Specs]
  /\ None \notin [spec : Npm!Specs, whole : BOOLEAN]

\* TailnetRequests: an MCP has a secret, and the names of the tailnets are none
\* of the other networks.
ASSUME TailnetsAssumption ==
  /\ MaxSecrets \in Nat \ {0} /\ MaxMoves \in Nat
  /\ None # Req!Elsewhere /\ {None, Req!Elsewhere, Req!Unbound} \cap Suffixes = {}

\* UploadStore: a link ends no later than a file sent to it when it was made: an
\* hour, for both (`LINK_MINUTES`, `BUILTIN_UPLOAD_MINUTES`).  The sweeper and the
\* tools are no uploads.
ASSUME UploadsAssumption ==
  /\ {LinkTime, WholeTime, KeptTime, UploadClock, MaxBytes, MAX_STORED_BYTES} \subseteq Nat
  /\ LinkTime <= KeptTime
  /\ Sweeper \notin Uploads /\ Tool \notin Uploads /\ Sweeper # Tool
  /\ None \notin Ids \cup Upl!Stored \cup Upl!Written

\* CallLog: a batch has a record at least, and bounds.
ASSUME LogAssumption ==
  /\ {WRITE_BATCH, MaxLevels} \subseteq Nat \ {0}
  /\ {MAX_PENDING_WRITES, MaxRecords, LogClock} \subseteq Nat
  /\ Retention \in Int /\ None \notin 0..LogClock \cup 0..MaxRecords

\* SendMail: finitely many mails are under way, and each may be sent.
ASSUME MailAssumption == IsFiniteSet(Mails) /\ max \in Nat /\ MaxCalls \in Nat

netVars == << removed, entries, sup, turn, ensure, states, gone >>
npmVars == << row, current, disk, holder, start, wiping >>
autoVars == << settings, save, job, timer, tick, run >>
bakVars == << up, db, place, keys, dirs, task >>
limVars == << clock, address, counter, form, windows, wrong, guessed >>
sesVars == << password, version, protected, tokens, stamps, pending, signin >>
twoVars == << secret, last, passkeys, codes, unused, secrets, gens, second, accepted, spent >>
pplVars == << account, super, role, team, invite, page, admitted >>
uplVars == << hour, mcp, dir, file, meta, work, swept >>
logVars == << waiting, unwritten, queued, written, writing, since, writer, table, levels, flush,
              day, last_pruned_at, pruners >>
childVars == << use, connected, requests, reply, alive, killed, heir, eof, lines, watch, exited,
                output_read, closing, closer, kept >>
reqVars == << node, moves, cached, saved, target, entered, meant, beside, pool, send >>
mailVars == << call, told, calls, taken, remembered, delivered >>
allVars == << part, netVars, npmVars, autoVars, bakVars, limVars, sesVars, twoVars, pplVars,
              uplVars, logVars, childVars, reqVars, mailVars >>

Init ==
  /\ part \in Parts
  /\ Net!Init /\ Npm!Init /\ Timer!Init /\ Bak!Init /\ Lim!Init /\ Ses!Init /\ Two!Init /\ Ppl!Init
  /\ Upl!Init /\ Log!Init /\ Child!Init /\ Req!Init /\ Mail!Init

\* The part p moves, the others stay as they are.
Moves(p) ==
  /\ part = p /\ UNCHANGED part
  /\ p # "tailnets" => UNCHANGED netVars
  /\ p # "npm" => UNCHANGED npmVars
  /\ p # "updates" => UNCHANGED autoVars
  /\ p # "backups" => UNCHANGED bakVars
  /\ p # "limiter" => UNCHANGED limVars
  /\ p # "sessions" => UNCHANGED sesVars
  /\ p # "twofactor" => UNCHANGED twoVars
  /\ p # "teams" => UNCHANGED pplVars
  /\ p # "uploads" => UNCHANGED uplVars
  /\ p # "log" => UNCHANGED logVars
  /\ p # "child" => UNCHANGED childVars
  /\ p # "requests" => UNCHANGED reqVars
  /\ p # "mail" => UNCHANGED mailVars

Next ==
  \/ Moves("tailnets") /\ Net!Next
  \/ Moves("npm") /\ Npm!Next
  \/ Moves("updates") /\ Timer!Next
  \/ Moves("backups") /\ Bak!Next
  \/ Moves("limiter") /\ Lim!Next
  \/ Moves("sessions") /\ Ses!Next
  \/ Moves("twofactor") /\ Two!Next
  \/ Moves("teams") /\ Ppl!Next
  \/ Moves("uploads") /\ Upl!Next
  \/ Moves("log") /\ Log!Next
  \/ Moves("child") /\ Child!Next
  \/ Moves("requests") /\ Req!Next
  \/ Moves("mail") /\ Mail!Next

Spec == Init /\ [][Next]_allVars

-----------------------------------------------------------------------------
(* The properties are those of the parts, where they are explained.        *)

\* Every variable of the part that moves has its type.
PartsTypeOK ==
  /\ part = "tailnets" => Net!TypeOK
  /\ part = "npm" => Npm!TypeOK
  /\ part = "updates" => Timer!TypeOK
  /\ part = "backups" => Bak!TypeOK
  /\ part = "limiter" => Lim!TypeOK
  /\ part = "sessions" => Ses!TypeOK
  /\ part = "twofactor" => Two!TypeOK
  /\ part = "teams" => Ppl!TypeOK
  /\ part = "uploads" => Upl!TypeOK
  /\ part = "log" => Log!TypeOK
  /\ part = "child" => Child!TypeOK
  /\ part = "requests" => Req!TypeOK
  /\ part = "mail" => Mail!TypeOK

\* A tailnet never has two daemons, however starts and stops overtake each
\* other (`ensure_running`, `supervise`), and one that was removed is not
\* started again by a request that was under way (`removed`, `discard`).
DaemonAsAsked == Net!OneDaemon /\ Net!RemovedStaysDown

\* A call starts the package it asked for, whole (`installed`, `install`), and
\* one update later still has its files (`make_current`, the sweep of `install`).
RunsItsPackage == Npm!RunsItsPackage

\* No timer runs that the scheduler lost the handle of (`replace_job`).
NoStrayTimer == Timer!NoStrayTimer

\* An instance is set up once, and its secrets can be read (`copy_rows`,
\* `reencrypt`).
SetUpOnce == Bak!SetUpOnce

\* No copy of the database stays behind (`BackupDir`, `Upload`,
\* `clear_temporary_files`).
NoLeftovers == Bak!NoLeftovers

\* The sign-in form gives no more guesses than its limits (`login`,
\* `limiter`).
LoginBudget == Lim!LoginBudget

\* A session that a password opened counts only under that password
\* (`change_password`, `authenticate`).
SessionOfPassword == Ses!SessionOfPassword

\* A change of the password ends the sessions from before it
\* (`change_password`).
SignedOutEverywhere == Ses!SignedOutEverywhere

\* A code of an app and a recovery code are accepted once (`accept`,
\* `consume`).
CodesWorkOnce == Two!CodesWorkOnce

\* A code that proved an app or signed someone in is behind its last step
\* (`enable_authenticator`).
StepNeverGoesBack == Two!StepNeverGoesBack

\* Only an account without protection loses its recovery codes (`settle`).
CodesWithProtection == Two!CodesWithProtection

\* A team keeps an owner and the instance a super admin (`member_refusal`,
\* `delete_account`, `still_super_admin`).
SomeoneInCharge == Ppl!SomeoneInCharge

\* An invite lets one person in (`accept`).
InviteAdmitsOnce == Ppl!InviteAdmitsOnce

\* A tool reads the whole file it found, or none (`save`, `find`, `sweep`): as
\* long as nothing sent to its link was swept away, and ever.
ReadsWholeUntilSwept == Upl!ReadsWholeUntilSwept
ReadsWhole == Upl!ReadsWhole

\* The log keeps the order of the calls, the levels that were chosen and the
\* limit of its queue, and counts as written what is (`record`, `write_queue`,
\* `persist_batch`).
LogIsTrue == Log!LogIsTrue

\* No process of an npm MCP outlives the transport it was started for
\* (`supervise`, `close`).
ChildEnded == Child!ChildEnded

\* A credential is sent into no tailnet but the one it was entered for, or saved
\* beside (`tailnet_fetcher`, `settle_identity`, `dial`).
SecretsGoAsSaved == Req!SecretsGoAsSaved

\* A credential does not follow an MCP to another network
\* (`assign_mcp_from_payload`, `update`).
SecretsStayInTailnet == Req!SecretsStayInTailnet

\* Nobody sends a mail again because the tool said it was not sent when it was
\* (`smtp_failure`, `send_message`).
MailSentOnce == Mail!MailSentOnce
=============================================================================
