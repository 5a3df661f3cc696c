----------------------------- MODULE TwoFactor -----------------------------
(***************************************************************************)
(* The second step of one account (`core/src/models/two_factor.rs`,        *)
(* `routes/two_factor.rs`, `routes/passkeys.rs`, `reset_protection`): an   *)
(* authenticator app, passkeys, and the recovery codes that stand in for   *)
(* them.  Every request reads the row of the user when it is authenticated *)
(* and writes later, in one transaction; `save` writes the columns that    *)
(* differ from what was read, and no other.                                *)
(***************************************************************************)
EXTENDS Naturals

CONSTANTS Requests,     \* requests under way
          MaxSecrets,   \* bound of the authenticator apps set up
          MaxStep,      \* bound of the time steps of codes
          MaxPasskeys,  \* passkeys an account keeps
          MaxGens       \* bound of the sets of recovery codes made

VARIABLES secret,    \* the n-th secret, of a confirmed app, or 0
          last,      \* `two_factor_last_step`, or 0
          passkeys,  \* how many the account has
          codes,     \* the set of recovery codes it has: the n-th, or 0
          unused,    \* the code of that set a person may type is unused
          secrets,   \* secrets shown so far
          gens,      \* sets of codes made so far
          req,       \* req[r]: what each request is doing
          accepted,  \* the app codes that signed in since an app was turned off, or
                     \* its secret confirmed
          spent      \* the recovery codes accepted so far, by their set

vars == << secret, last, passkeys, codes, unused, secrets, gens, req, accepted, spent >>
row == << secret, last >>
recovery == << codes, unused, gens >>

Writes == {"enable", "disable", "store", "destroy", "renew", "reset"}

\* What a request is for, the secret and the last step of the row it read, the code
\* that was typed and the setup of its session.
Asked(op, s, l, code, setup) ==
  [op |-> op, secret |-> s, last |-> l, code |-> code, setup |-> setup]
Idle == Asked("idle", 0, 0, 0, 0)
Is(r, op) == req[r].op = op
Ends(r) == req' = [req EXCEPT ![r] = Idle]

\* As the request read it.
has_authenticator(r) == req[r].secret # 0

\* `is_protected` asks the table for passkeys, and its own copy for the app.
is_protected(r) == has_authenticator(r) \/ passkeys > 0

\* `replace_all` and `delete_all` of recovery codes.
NewCodes ==
  /\ gens < MaxGens
  /\ gens' = gens + 1
  /\ codes' = gens + 1
  /\ unused' = TRUE
NoCodes == codes' = 0 /\ unused' = FALSE /\ UNCHANGED gens

\* `settle_recovery_codes` of an account with such an app, as far as the
\* request knows, and so many passkeys.
settle_recovery_codes(app, keys) ==
  IF app \/ keys > 0 THEN UNCHANGED recovery ELSE NoCodes

\* `save` of a column: written when it differs from what was read.
Saved(now, read, new) == IF new = read THEN now ELSE new

-----------------------------------------------------------------------------

Init ==
  /\ secret = 0 /\ last = 0 /\ passkeys = 0 /\ codes = 0 /\ unused = FALSE
  /\ secrets = 0 /\ gens = 0 /\ accepted = {} /\ spent = {}
  /\ req = [r \in Requests |-> Idle]

\* A request of the settings pages, or of someone who runs the instance, is
\* authenticated and its password confirmed.
Ask(r, op) ==
  /\ Is(r, "idle")
  /\ op = "destroy" => passkeys > 0
  /\ req' = [req EXCEPT ![r] = Asked(op, secret, last, 0, 0)]
  /\ UNCHANGED << row, passkeys, recovery, secrets, accepted, spent >>

\* An app is turned on, where there was none, with the secret its setup put in
\* the session (`setup`).  The session is a cookie: any request that carries it
\* confirms the same secret, whatever became of the others.
Confirm(r, setup) ==
  /\ Is(r, "idle") /\ secret = 0
  /\ setup <= secrets + 1
  /\ secrets' = IF setup > secrets THEN setup ELSE secrets
  /\ req' = [req EXCEPT ![r] = Asked("enable", 0, last, 0, setup)]
  /\ UNCHANGED << row, passkeys, recovery, accepted, spent >>

\* `enable`: the app has the secret of the setup, shown by the code of a step.
Enable(r, step) ==
  /\ Is(r, "enable")
  /\ secret' = req[r].setup
  /\ last' = Saved(last, req[r].last, step)
  /\ accepted' = {c \in accepted : c.secret # req[r].setup}
  /\ IF is_protected(r) THEN UNCHANGED recovery ELSE NewCodes
  /\ Ends(r)
  /\ UNCHANGED << passkeys, secrets, spent >>

\* `disable_authenticator`.
Disabled(r) ==
  /\ secret' = Saved(secret, req[r].secret, 0)
  /\ last' = Saved(last, req[r].last, 0)
  /\ accepted' = IF row' = row THEN accepted ELSE {}

\* `disable`: the copy has no app any more.
Disable(r) ==
  /\ Is(r, "disable")
  /\ Disabled(r)
  /\ settle_recovery_codes(FALSE, passkeys)
  /\ Ends(r)
  /\ UNCHANGED << passkeys, secrets, spent >>

\* `store`: a passkey is added.
Store(r) ==
  /\ Is(r, "store")
  /\ passkeys < MaxPasskeys
  /\ passkeys' = passkeys + 1
  /\ IF is_protected(r) THEN UNCHANGED recovery ELSE NewCodes
  /\ Ends(r)
  /\ UNCHANGED << row, secrets, accepted, spent >>

\* `destroy`: the passkey found before is removed, if another request did not.
Destroy(r) ==
  /\ Is(r, "destroy")
  /\ passkeys' \in {passkeys, passkeys - 1} \cap Nat
  /\ settle_recovery_codes(has_authenticator(r), passkeys')
  /\ Ends(r)
  /\ UNCHANGED << row, secrets, accepted, spent >>

\* `renew_recovery_codes`.
Renew(r) ==
  /\ Is(r, "renew")
  /\ IF is_protected(r) THEN NewCodes ELSE UNCHANGED recovery
  /\ Ends(r)
  /\ UNCHANGED << row, passkeys, secrets, accepted, spent >>

remove_protection(r) == Disabled(r) /\ passkeys' = 0 /\ NoCodes

\* `reset_protection`.
Reset(r) ==
  /\ Is(r, "reset")
  /\ remove_protection(r)
  /\ Ends(r)
  /\ UNCHANGED << secrets, spent >>

\* `second_step`: `pending_sign_in` reads the user; the code that was typed is
\* the one an app shows at a step, or a recovery code of a set.
TypeAppCode(r, step) ==
  /\ Is(r, "idle") /\ secret # 0
  /\ step > last
  /\ req' = [req EXCEPT ![r] = Asked("app_code", secret, last, step, 0)]
  /\ UNCHANGED << row, passkeys, recovery, secrets, accepted, spent >>

TypeRecoveryCode(r, set) ==
  /\ Is(r, "idle") /\ set # 0
  /\ req' = [req EXCEPT ![r] = Asked("recovery_code", 0, 0, set, 0)]
  /\ UNCHANGED << row, passkeys, recovery, secrets, accepted, spent >>

\* `accept_authenticator_code`: one conditional update; the code is refused
\* when a later or the same step was accepted since.
AcceptAppCode(r) ==
  /\ Is(r, "app_code")
  /\ IF last = 0 \/ last < req[r].code
       THEN /\ last' = req[r].code
            /\ accepted' = accepted \cup {[secret |-> req[r].secret, step |-> req[r].code]}
       ELSE UNCHANGED << last, accepted >>
  /\ Ends(r)
  /\ UNCHANGED << secret, passkeys, recovery, secrets, spent >>

\* A mutant of ConsumeRecoveryCode: the code is looked up and not marked.
ConsumeRecoveryCodeTwice(r) ==
  /\ Is(r, "recovery_code")
  /\ spent' = IF codes = req[r].code THEN spent \cup {codes} ELSE spent
  /\ Ends(r)
  /\ UNCHANGED << row, passkeys, recovery, secrets, accepted >>

\* `RecoveryCode::consume`: one conditional update.
ConsumeRecoveryCode(r) ==
  /\ Is(r, "recovery_code")
  /\ LET found == codes = req[r].code /\ unused IN
       /\ unused' = (unused /\ ~ found)
       /\ spent' = IF found THEN spent \cup {codes} ELSE spent
  /\ Ends(r)
  /\ UNCHANGED << row, passkeys, codes, gens, secrets, accepted >>

\* The request is dropped, or refused on the way.
GoAway(r) ==
  /\ ~ Is(r, "idle")
  /\ Ends(r)
  /\ UNCHANGED << row, passkeys, recovery, secrets, accepted, spent >>

Next ==
  \E r \in Requests :
    \/ \E op \in Writes \ {"enable"} : Ask(r, op)
    \/ \E setup \in 1..MaxSecrets : Confirm(r, setup)
    \/ \E step \in 1..MaxStep : Enable(r, step) \/ TypeAppCode(r, step)
    \/ TypeRecoveryCode(r, codes)
    \/ Disable(r) \/ Store(r) \/ Destroy(r) \/ Renew(r) \/ Reset(r)
    \/ AcceptAppCode(r) \/ ConsumeRecoveryCode(r) \/ GoAway(r)

Spec == Init /\ [][Next]_vars

-----------------------------------------------------------------------------

TypeOK ==
  /\ secret \in 0..MaxSecrets /\ secrets \in 0..MaxSecrets /\ last \in 0..MaxStep
  /\ passkeys \in 0..MaxPasskeys
  /\ codes \in 0..MaxGens /\ gens \in 0..MaxGens /\ unused \in BOOLEAN
  /\ accepted \subseteq [secret : 1..MaxSecrets, step : 1..MaxStep]
  /\ spent \subseteq 1..MaxGens

\* No request r in this step has a code accepted that was accepted before, and
\* the set of codes a recovery code was spent of has none left.
WorksOnce ==
  /\ \A r \in Requests :
       /\ Is(r, "app_code") /\ req[r].secret = secret
       /\ req'[r] = Idle /\ last' = req[r].code /\ last' # last
       => [secret |-> secret, step |-> req[r].code] \notin accepted
  /\ codes' \in spent' => ~ unused'

\* A code of the account's app that signed someone in never does so again
\* until an app is turned off or the same secret is confirmed once more, and a
\* recovery code that did is gone: not when several requests send it at once,
\* nor when setups of other apps or new sets of codes overlap with them
\* (`accept_authenticator_code`, `consume`).
CodesWorkOnce == [][WorksOnce]_vars

\* enable_authenticator: "The step of the code that proved the app has it is
\* recorded with it, so that this code does not sign anyone in afterwards."
\* As long as an account has an app, the last step of it never goes back: no code
\* that proved it, or signed someone in, is accepted again.  The code does not keep this
\* (README, section 6); CodesWorkOnce says what it keeps.
StepNeverGoesBack == [][secret # 0 /\ secret' = secret => last' >= last]_vars

\* Only an account with neither an app nor a passkey loses its recovery codes:
\* a protected account has a set of them, or somebody locked out of their
\* phone is locked out for good.
CodesWithProtection == (secret # 0 \/ passkeys > 0) => codes # 0

-----------------------------------------------------------------------------
(* The inductive invariant behind CodesWorkOnce.                           *)

\* What a request read is of the past: the secret was made by then.
Read == [op : Writes \cup {"idle", "app_code", "recovery_code"}, secret : Nat,
         last : 0..MaxStep, code : Nat, setup : Nat]
ReadOK(r) ==
  /\ req[r].secret <= secrets
  /\ Is(r, "enable") => req[r].setup \in 1..secrets
  /\ Is(r, "app_code") => req[r].secret > 0 /\ req[r].code \in 1..MaxStep
  /\ Is(r, "recovery_code") => req[r].code > 0

\* No code of the app was accepted for a step after the last one.
AcceptedBefore ==
  \A c \in accepted : c.secret <= secrets /\ (c.secret = secret => c.step <= last)

\* A set of codes that is spent is used up.
SpentIsUsed == (\A n \in spent : n <= gens) /\ (codes \in spent => ~ unused)

Inv ==
  /\ TypeOK
  /\ secret <= secrets /\ codes <= gens
  /\ req \in [Requests -> Read] /\ \A r \in Requests : ReadOK(r)
  /\ AcceptedBefore
  /\ SpentIsUsed
=============================================================================
