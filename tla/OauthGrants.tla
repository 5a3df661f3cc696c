----------------------------- MODULE OauthGrants -----------------------------
(***************************************************************************)
(* The grants of the OAuth server of the gateway: the consent of a person  *)
(* becomes an authorization code, the code becomes a grant, and the grant  *)
(* renews its tokens with a refresh token that works once                  *)
(* (crates/gateway/src/access_token.rs, crates/gateway/src/oauth/mod.rs).  *)
(*                                                                         *)
(* Every request is a slot of Requests that runs once.  A request issues   *)
(* at most one pair of tokens and stores at most one grant, so both are    *)
(* named after it: the pair r is the access token and the refresh token    *)
(* that request r handed out, and the grant r the row it inserted.         *)
(*                                                                         *)
(* One action is one statement or transaction of the database (`begin` is  *)
(* BEGIN IMMEDIATE: transactions do not interleave).  Whatever a request   *)
(* read before, it may use after any number of steps of the others.        *)
(***************************************************************************)
EXTENDS Naturals, FiniteSets

CONSTANTS Requests,   \* requests to the token endpoint and the Tokens page
          Codes,      \* consents, each with the authorization code it gives
          Clients,    \* rows of `oauth_clients`
          People,     \* people who may consent
          ClientOf,   \* the client a consent is for, with its PKCE verifier
          PersonOf,   \* who consents
          Manages,    \* the consents that check "manage MCPs"
          Admins,     \* people who may give that permission
          Refreshing, \* clients registered for the grant type refresh_token
          None

ASSUME GrantConstants ==
  /\ ClientOf \in [Codes -> Clients]
  /\ PersonOf \in [Codes -> People]
  /\ None \notin Requests \cup Codes
  /\ Requests \cap Codes = {}

VARIABLES member,   \* member[p]: p has a row in `team_user`
          codes,    \* codes[k]: the consent k, its row in `oauth_authorization_codes`
          grants,   \* grants[g]: the row of `access_tokens` that request g inserted
          history,  \* history[s]: the grant of the retired refresh token s
          call,     \* call[r]: what request r is and names
          pc,       \* pc[r]: the next statement of request r
          found,    \* found[r]: the grant that request r found, stored or renewed
          again,    \* again[r]: r lost its transaction and looks for a replay again
          result,   \* result[r]: how r was answered
          late      \* history variable: codes stored after their person had left

vars == << member, codes, grants, history, call, pc, found, again, result, late >>

tables == << member, codes, grants, history, late >>
locals == << call, pc, found, again, result >>

-----------------------------------------------------------------------------

Kinds == {"exchange", "refresh", "revoke", "close", "narrow"}

CodeRow == [at : {"none", "seen", "refused", "checked", "swept", "stored",
                  "gone"}, live : BOOLEAN]

\* `renews`: the row holds a refresh token (the one of `pair`).  `fresh` and
\* `lasts`: the access token and the refresh token have not expired.
GrantRow == [at : {"none", "stored", "gone"}, code : Codes \cup {None},
             pair : Requests \cup {None}, renews : BOOLEAN, manage : BOOLEAN,
             fresh : BOOLEAN, lasts : BOOLEAN, revoked : BOOLEAN]

Steps == {"idle", "code", "redeem", "history", "suspect", "current", "rotate", "find",
          "load", "revoking", "narrowing", "done"}

Results == {"none", "granted", "rotated", "invalid", "exceeded", "reused", "revoked",
            "unknown", "narrowed", "refused"}

\* `given`: the code, token or grant the request names.  `asks`: it asks for
\* the scope to manage MCPs.  `replay` is a history variable: the refresh
\* token was retired before the request came.
Call == [kind : Kinds \cup {"none"}, given : Requests \cup Codes \cup {None},
         type : {"access", "refresh"}, client : Clients \cup {None}, asks : BOOLEAN,
         replay : BOOLEAN]

Init ==
  /\ member = [p \in People |-> TRUE]
  /\ codes = [k \in Codes |-> [at |-> "none", live |-> TRUE]]
  /\ grants = [g \in Requests |->
                [at |-> "none", code |-> None, pair |-> None, renews |-> FALSE,
                 manage |-> FALSE, fresh |-> TRUE, lasts |-> TRUE, revoked |-> FALSE]]
  /\ history = [s \in Requests |-> None]
  /\ call = [r \in Requests |->
              [kind |-> "none", given |-> None, type |-> "refresh", client |-> None,
               asks |-> FALSE, replay |-> FALSE]]
  /\ pc = [r \in Requests |-> "idle"]
  /\ found = [r \in Requests |-> None]
  /\ again = [r \in Requests |-> FALSE]
  /\ result = [r \in Requests |-> "none"]
  /\ late = {}

Stored(g) == grants[g].at = "stored"

\* `is_usable`: the access token of the row opens the gateway.
is_usable(g) == Stored(g) /\ ~ grants[g].revoked /\ grants[g].fresh

\* `is_oauth_session_active`, without its revocation.
Lasting(g) == IF grants[g].renews THEN grants[g].lasts ELSE grants[g].fresh

\* The client a grant was given to.
ClientOfGrant(g) == ClientOf[grants[g].code]

Issued(r) == result[r] \in {"granted", "rotated"}

\* The grant that the pair s belongs to.
Owner(s) == found[s]

\* A grant that answers nothing any more.
Ended(g) == grants[g].at = "gone" \/ grants[g].revoked

\* Request r goes on with step `step`, or is answered with `res`; `g` is the
\* grant it found.
Goto(r, step) ==
  /\ pc' = [pc EXCEPT ![r] = step]
  /\ UNCHANGED << call, found, again, result >>

GotoWith(r, step, g) ==
  /\ pc' = [pc EXCEPT ![r] = step]
  /\ found' = [found EXCEPT ![r] = g]
  /\ UNCHANGED << call, again, result >>

Answer(r, res) ==
  /\ pc' = [pc EXCEPT ![r] = "done"]
  /\ result' = [result EXCEPT ![r] = res]
  /\ UNCHANGED << call, found, again >>

-----------------------------------------------------------------------------
(***************************************************************************)
(* Consent: `POST /authorize` and `create_authorization_code`.             *)
(***************************************************************************)

\* The `Auth` extractor reads the teams of the person; the handler takes the
\* team of the grant from what was read.
Visit(k) ==
  /\ codes[k].at = "none"
  /\ member[PersonOf[k]]
  /\ codes' = [codes EXCEPT ![k].at = "seen"]
  /\ UNCHANGED << member, grants, history, late, locals >>

\* `role_of`, asked only when the permission to manage MCPs is given.
CheckRole(k) ==
  /\ codes[k].at = "seen"
  /\ codes' = [codes EXCEPT ![k].at =
                 IF k \in Manages /\ ~ (member[PersonOf[k]] /\ PersonOf[k] \in Admins)
                 THEN "refused" ELSE "checked"]
  /\ UNCHANGED << member, grants, history, late, locals >>

\* Expired codes are deleted.
Sweep(k) ==
  /\ codes[k].at = "checked"
  /\ codes' = [j \in Codes |->
                 IF j = k THEN [codes[j] EXCEPT !.at = "swept"]
                 ELSE IF codes[j].at = "stored" /\ ~ codes[j].live
                      THEN [codes[j] EXCEPT !.at = "gone"]
                      ELSE codes[j]]
  /\ UNCHANGED << member, grants, history, late, locals >>

\* The insert of the code.
create_authorization_code(k) ==
  /\ codes[k].at = "swept"
  /\ codes' = [codes EXCEPT ![k].at = "stored"]
  /\ late' = IF member[PersonOf[k]] THEN late ELSE late \cup {k}
  /\ UNCHANGED << member, grants, history, locals >>

-----------------------------------------------------------------------------
(***************************************************************************)
(* A request comes in.  `issue_tokens` and `revoke_token` authenticate the *)
(* client first; the two actions of the Tokens page name a grant instead.  *)
(***************************************************************************)

FirstStep(kind) ==
  IF kind = "exchange" THEN "code"
  ELSE IF kind = "refresh" THEN "history"
  ELSE IF kind = "revoke" THEN "find" ELSE "load"

Begin(r, kind, given, type, client, asks) ==
  /\ pc[r] = "idle"
  /\ kind = "refresh" => client \in Refreshing
  /\ call' = [call EXCEPT ![r] =
                [kind |-> kind, given |-> given, type |-> type, client |-> client,
                 asks |-> asks, replay |-> kind = "refresh" /\ history[given] # None]]
  /\ pc' = [pc EXCEPT ![r] = FirstStep(kind)]
  /\ UNCHANGED << found, again, result, tables >>

\* A client presents a code, an access token or a refresh token that was
\* handed out, whether to it or to another client.
Arrive(r) ==
  \E client \in Clients :
    \/ \E k \in Codes :
         /\ codes[k].at \in {"stored", "gone"}
         /\ Begin(r, "exchange", k, "refresh", client, FALSE)
    \/ \E s \in Requests :
         /\ Issued(s)
         /\ \/ \E asks \in BOOLEAN : Begin(r, "refresh", s, "refresh", client, asks)
            \/ \E type \in {"access", "refresh"} :
                 Begin(r, "revoke", s, type, client, FALSE)

\* Somebody who sees the grant on the Tokens page acts on it.
Manage(r) ==
  \E g \in Requests, kind \in {"close", "narrow"} :
    /\ Stored(g)
    /\ Begin(r, kind, g, "refresh", None, FALSE)

-----------------------------------------------------------------------------
(***************************************************************************)
(* `exchange_authorization_code`                                           *)
(***************************************************************************)

ReadCode(r) ==
  /\ pc[r] = "code"
  /\ LET k == call[r].given
     IN IF codes[k].at = "stored" /\ codes[k].live /\ call[r].client = ClientOf[k]
        THEN Goto(r, "redeem")
        ELSE Answer(r, "invalid")
  /\ UNCHANGED tables

\* Mutant of `Stocked`: the row count of the `delete` is not looked at.
Uncounted(k) == codes[k].at \in {"stored", "gone"}

\* The `delete` of the code finds its row.
Stocked(k) == codes[k].at = "stored"

\* One transaction: delete the code, and store the grant if a row was
\* deleted.
Redeem(r) ==
  /\ pc[r] = "redeem"
  /\ LET k == call[r].given
     IN IF Stocked(k)
        THEN /\ codes' = [codes EXCEPT ![k].at = "gone"]
             /\ grants' = [grants EXCEPT ![r] =
                             [at |-> "stored", code |-> k, pair |-> r,
                              renews |-> call[r].client \in Refreshing,
                              manage |-> k \in Manages, fresh |-> TRUE,
                              lasts |-> TRUE, revoked |-> FALSE]]
             /\ pc' = [pc EXCEPT ![r] = "done"]
             /\ result' = [result EXCEPT ![r] = "granted"]
             /\ found' = [found EXCEPT ![r] = r]
             /\ UNCHANGED << call, again >>
        ELSE /\ Answer(r, "invalid")
             /\ UNCHANGED << codes, grants >>
  /\ UNCHANGED << member, history, late >>

-----------------------------------------------------------------------------
(***************************************************************************)
(* `find_oauth_grant_by_refresh_history`, run by a refresh that looks for  *)
(* a replay and by a revocation of a token that is nobody's current one.   *)
(***************************************************************************)

\* Where a request goes on when the token is in no history.
NotRetired(r) ==
  \/ call[r].kind = "revoke" /\ Answer(r, "unknown")
  \/ call[r].kind # "revoke" /\ again[r] /\ Answer(r, "invalid")
  \/ call[r].kind # "revoke" /\ ~ again[r] /\ Goto(r, "current")

\* The lookup in `oauth_refresh_token_history`.
LookUp(r) ==
  /\ pc[r] = "history"
  /\ LET s == call[r].given
     IN IF call[r].type = "refresh" /\ history[s] # None
        THEN GotoWith(r, "suspect", history[s])
        ELSE NotRetired(r)
  /\ UNCHANGED tables

\* What a caller that found its grant answers when it is already revoked.
Found(r, g) ==
  IF grants[g].revoked
  THEN Answer(r, IF call[r].kind = "refresh" THEN "reused" ELSE "revoked")
  ELSE GotoWith(r, "revoking", g)

\* Mutant of `OfClient`: any client will do.
OfAnyClient(g, client) == Stored(g)

\* The row is there and is a grant to this client.
OfClient(g, client) == Stored(g) /\ ClientOfGrant(g) = client

\* The select of the grant, among those of the client.
Suspect(r) ==
  /\ pc[r] = "suspect"
  /\ LET g == found[r]
     IN IF OfClient(g, call[r].client)
        THEN Found(r, g)
        ELSE NotRetired(r)
  /\ UNCHANGED tables

\* `revoke`: the save writes `revoked_at` and no other column of the row,
\* whatever was rotated since it was read.
revoke(r) ==
  /\ pc[r] = "revoking"
  /\ LET g == found[r]
     IN grants' = IF Stored(g) THEN [grants EXCEPT ![g].revoked = TRUE] ELSE grants
  /\ Answer(r, IF call[r].kind = "refresh" THEN "reused" ELSE "revoked")
  /\ UNCHANGED << member, codes, history, late >>

-----------------------------------------------------------------------------
(***************************************************************************)
(* `rotate_oauth_grant`                                                    *)
(***************************************************************************)

\* The stored grants whose current refresh token is `s`.
Renewing(s) == {g \in Requests : Stored(g) /\ grants[g].renews /\ grants[g].pair = s}

\* The select of the current grant, and the checks of its expiry and scopes.
\* A refresh token that is nobody's current one any more is invalid here,
\* without another look at the history.
ReadCurrent(r) ==
  /\ pc[r] = "current"
  /\ LET current == {g \in Renewing(call[r].given) :
                       /\ ClientOfGrant(g) = call[r].client
                       /\ ~ grants[g].revoked
                       /\ grants[g].lasts}
     IN \/ /\ current = {}
           /\ Answer(r, "invalid")
        \/ \E g \in current :
             IF call[r].asks /\ ~ grants[g].manage
             THEN Answer(r, "exceeded")
             ELSE GotoWith(r, "rotate", g)
  /\ UNCHANGED tables

\* Mutant of `Unchanged`: the update does not ask for the old refresh token.
UnchangedById(r) ==
  LET g == found[r] IN Stored(g) /\ ~ grants[g].revoked

\* The condition of the update: the grant still holds the refresh token that
\* was read, and is not revoked.
Unchanged(r) ==
  LET g == found[r] IN g \in Renewing(call[r].given) /\ ~ grants[g].revoked

\* Mutant of `Lost`: the request that lost does not look for a replay.
LostGivesUp(r) ==
  /\ pc' = [pc EXCEPT ![r] = "done"]
  /\ again' = [again EXCEPT ![r] = TRUE]
  /\ result' = [result EXCEPT ![r] = "invalid"]
  /\ UNCHANGED << call, found >>

\* The update wrote no row.
Lost(r) ==
  /\ pc' = [pc EXCEPT ![r] = "history"]
  /\ again' = [again EXCEPT ![r] = TRUE]
  /\ UNCHANGED << call, found, result >>

\* Mutant of `Retire`: the old refresh token is not kept.
RetireNothing(s, g) == UNCHANGED history

\* The insert into `oauth_refresh_token_history`.
Retire(s, g) == history' = [history EXCEPT ![s] = g]

\* One transaction: the conditional update and the insert into the history.
Rotate(r) ==
  /\ pc[r] = "rotate"
  /\ LET g == found[r]
     IN IF Unchanged(r)
        THEN /\ grants' = [grants EXCEPT ![g].pair = r, ![g].fresh = TRUE]
             /\ Retire(call[r].given, g)
             /\ Answer(r, "rotated")
        ELSE Lost(r) /\ UNCHANGED << grants, history >>
  /\ UNCHANGED << member, codes, late >>

-----------------------------------------------------------------------------
(***************************************************************************)
(* `revoke_oauth_token`, and the actions of the Tokens page.               *)
(***************************************************************************)

\* Mutant of `Unheld`: a token that is nobody's current one is not looked up
\* in the history.
UnheldUnknown(r) == Answer(r, "unknown")

\* The token is nobody's current one: it may be a retired refresh token.
Unheld(r) == Goto(r, "history")

\* The grant whose access token or refresh token is the one presented.
Find(r) ==
  /\ pc[r] = "find"
  /\ LET held == {g \in Requests :
                    /\ Stored(g)
                    /\ grants[g].pair = call[r].given
                    /\ call[r].type = "refresh" => grants[g].renews
                    /\ ClientOfGrant(g) = call[r].client}
     IN \/ held = {} /\ Unheld(r)
        \/ \E g \in held : Found(r, g)
  /\ UNCHANGED tables

\* `find_token` of the Tokens page, and the checks on the row it read.
Load(r) ==
  /\ pc[r] = "load"
  /\ LET g == call[r].given
     IN IF /\ Stored(g) /\ ~ grants[g].revoked
           /\ call[r].kind = "narrow" => grants[g].manage
        THEN GotoWith(r, IF call[r].kind = "narrow" THEN "narrowing" ELSE "revoking", g)
        ELSE Answer(r, "refused")
  /\ UNCHANGED tables

\* `remove_mcp_management`: one conditional update of the scopes alone.
remove_mcp_management(r) ==
  /\ pc[r] = "narrowing"
  /\ LET g == found[r]
     IN IF Stored(g) /\ ~ grants[g].revoked
        THEN /\ grants' = [grants EXCEPT ![g].manage = FALSE]
             /\ Answer(r, "narrowed")
        ELSE /\ Answer(r, "refused")
             /\ UNCHANGED grants
  /\ UNCHANGED << member, codes, history, late >>

-----------------------------------------------------------------------------
(***************************************************************************)
(* What else touches these rows.                                           *)
(***************************************************************************)

\* Mutant of `Forfeited`: the codes of the person stay.
ForfeitedNone(k, p) == FALSE

\* The codes `detach` deletes.
Forfeited(k, p) == codes[k].at = "stored" /\ PersonOf[k] = p

\* `Team::detach`, in one transaction: the tokens of the person are revoked,
\* their codes deleted, their membership ends.
detach(p) ==
  /\ member[p]
  /\ member' = [member EXCEPT ![p] = FALSE]
  /\ grants' = [g \in Requests |->
                  IF Stored(g) /\ PersonOf[grants[g].code] = p
                  THEN [grants[g] EXCEPT !.revoked = TRUE] ELSE grants[g]]
  /\ codes' = [k \in Codes |->
                 IF Forfeited(k, p)
                 THEN [codes[k] EXCEPT !.at = "gone"] ELSE codes[k]]
  /\ UNCHANGED << history, late, locals >>

\* Mutant of `Cascade`: the history outlives its grant.
CascadeNothing(g) == UNCHANGED history

\* The foreign key of the history: on delete cascade.
Cascade(g) == history' = [s \in Requests |-> IF history[s] = g THEN None ELSE history[s]]

\* `delete_inactive`: only a grant that is revoked or over is deleted, and
\* its history goes with it.
delete_inactive(g) ==
  /\ Stored(g)
  /\ grants[g].revoked \/ ~ Lasting(g)
  /\ grants' = [grants EXCEPT ![g].at = "gone"]
  /\ Cascade(g)
  /\ UNCHANGED << member, codes, late, locals >>

\* Time passes: a code, an access token or a refresh token expires.
Expire ==
  \/ \E k \in Codes :
       /\ codes[k].at = "stored" /\ codes[k].live
       /\ codes' = [codes EXCEPT ![k].live = FALSE]
       /\ UNCHANGED << member, grants, history, late, locals >>
  \/ \E g \in Requests :
       /\ Stored(g)
       /\ \/ grants[g].fresh /\ grants' = [grants EXCEPT ![g].fresh = FALSE]
          \/ grants[g].lasts /\ grants' = [grants EXCEPT ![g].lasts = FALSE]
       /\ UNCHANGED << member, codes, history, late, locals >>

-----------------------------------------------------------------------------

Consent(k) == Visit(k) \/ CheckRole(k) \/ Sweep(k) \/ create_authorization_code(k)

Serve(r) ==
  \/ ReadCode(r) \/ Redeem(r)
  \/ LookUp(r) \/ Suspect(r) \/ revoke(r)
  \/ ReadCurrent(r) \/ Rotate(r)
  \/ Find(r) \/ Load(r) \/ remove_mcp_management(r)

Next ==
  \/ \E k \in Codes : Consent(k)
  \/ \E r \in Requests : Arrive(r) \/ Manage(r) \/ Serve(r)
  \/ \E p \in People : detach(p)
  \/ \E g \in Requests : delete_inactive(g)
  \/ Expire

Spec == Init /\ [][Next]_vars

-----------------------------------------------------------------------------
(***************************************************************************)
(* What holds.                                                             *)
(***************************************************************************)

\* The tables and the requests are well formed, and a retired refresh token
\* is kept for a grant that is still stored (the foreign key).
TypeOK ==
  /\ member \in [People -> BOOLEAN]
  /\ codes \in [Codes -> CodeRow]
  /\ grants \in [Requests -> GrantRow]
  /\ history \in [Requests -> Requests \cup {None}]
  /\ call \in [Requests -> Call]
  /\ pc \in [Requests -> Steps]
  /\ found \in [Requests -> Requests \cup {None}]
  /\ again \in [Requests -> BOOLEAN]
  /\ result \in [Requests -> Results]
  /\ late \in SUBSET Codes
  /\ \A s \in Requests : history[s] # None => Stored(history[s])

\* What is handed out works once: no two requests got tokens for the same
\* authorization code, and no two for the same refresh token, however their
\* reads and transactions interleave (`exchange_authorization_code`: "of two
\* requests that present it, one gets the grant").
TradedOnce ==
  \A r, s \in Requests :
    Issued(r) /\ result[r] = result[s] /\ call[r].given = call[s].given => r = s

\* The server never loses track of a refresh token: while its grant is
\* stored, each one it handed out is the current one of the grant or in the
\* history of that grant.  `rotate_oauth_grant` recognises a replay by this.
NoneForgotten ==
  \A s \in Requests :
    Issued(s) /\ Stored(Owner(s)) /\ grants[Owner(s)].renews
      => grants[Owner(s)].pair = s \/ history[s] = Owner(s)

\* A refresh token presented by its client after it was retired, or by a
\* request that loses the transaction to another one, ends the grant by the
\* time the request is answered (`rotate_oauth_grant`).
ReplayEndsGrant ==
  \A r \in Requests :
    /\ call[r].kind = "refresh" /\ pc[r] = "done"
    /\ call[r].replay \/ again[r]
    /\ ClientOfGrant(Owner(call[r].given)) = call[r].client
    => Ended(Owner(call[r].given))

\* When the revocation endpoint has answered, the grant of the refresh token
\* that its client named has ended, although the token may have been rotated
\* at any point of the request (`revoke_oauth_token`: "its refresh token, or a
\* refresh token it gave up earlier").
RevocationHolds ==
  \A r \in Requests :
    /\ call[r].kind = "revoke" /\ call[r].type = "refresh" /\ pc[r] = "done"
    /\ grants[Owner(call[r].given)].renews
    /\ ClientOfGrant(Owner(call[r].given)) = call[r].client
    => Ended(Owner(call[r].given))

\* Who leaves the team leaves no working token behind, nor a code that can
\* become one: what a person who is out still holds was made from a code
\* stored after they had left (`Team::detach`).
LeaversKeepNothing ==
  \A k \in Codes \ late : ~ member[PersonOf[k]] =>
    /\ codes[k].at # "stored"
    /\ \A g \in Requests : grants[g].code = k => ~ is_usable(g)

\* A client touches no grant but its own: a step of a request changes only
\* a grant to the client that sent it, whatever token it presents (the
\* `oauth_client_id` of every select).
OwnGrantsOnly ==
  [][\A r, g \in Requests :
       /\ call[r].kind \in {"exchange", "refresh", "revoke"}
       /\ pc'[r] # pc[r] /\ grants'[g] # grants[g]
       => ClientOfGrant(g)' = call[r].client]_vars

\* The server keeps the promise of GrantPromise.
traded == {call[r].given : r \in {q \in Requests : Issued(q)}}

\* A row, seen as a chain of token pairs.
View(row) ==
  LET ended == row.at = "gone" \/ row.revoked
  IN [at |-> IF row.at = "none" THEN "none" ELSE IF ended THEN "ended" ELSE "open",
      pair |-> row.pair, manage |-> row.manage,
      lasts |-> row.at # "none" /\ ~ ended /\ row.lasts]

chain == [g \in Requests |-> View(grants[g])]

P == INSTANCE GrantPromise WITH Grants <- Requests, Pairs <- Requests

\* Codes and refresh tokens are traded one for one: a grant is opened by a
\* code nobody traded, moves on by trading its latest refresh token, never
\* regains the permission to manage MCPs, is not prolonged by a refresh, and
\* stays closed once it ended (`exchange_authorization_code`,
\* `rotate_oauth_grant`, `remove_mcp_management`, `revoke`).
KeepsPromise == P!PSpec

-----------------------------------------------------------------------------
(***************************************************************************)
(* What does not hold: two statements of the repository, each refuted by a *)
(* run of its own.                                                         *)
(***************************************************************************)

\* "Of two requests that present the same refresh token, one rotates the
\* grant. The other is a replay, whether it comes later or at the same time,
\* and revokes the grant." (the doc of `rotate_oauth_grant`)
OtherRequestRevokes ==
  \A r, s \in Requests :
    /\ r # s /\ call[r].given = call[s].given
    /\ result[s] = "rotated"
    /\ call[r].kind = "refresh" /\ result[r] \in {"invalid", "reused"}
    /\ ClientOfGrant(Owner(call[s].given)) = call[r].client
    => Ended(Owner(call[s].given))

\* "The access tokens they made there stop working" and "Nor does a grant
\* they had just made for an MCP client become a token." (`Team::detach`)
LeaversHoldNoToken ==
  \A g \in Requests : is_usable(g) => member[PersonOf[grants[g].code]]
=============================================================================
