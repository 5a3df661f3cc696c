-------------------------- MODULE TailnetRequests --------------------------
(***************************************************************************)
(* The requests of an MCP that is reached through a tailnet                *)
(* (`upstream/src/tailnet.rs`, `tailnet/src/handle.rs`,                    *)
(* `net/src/overlay.rs`, `core/src/models/tailnet.rs`).  Its credentials   *)
(* are for the machines of one tailnet; the node of this server may be     *)
(* signed in to another one at any time, in which the same names and       *)
(* addresses are other machines.  A request works on copies: the row of    *)
(* the MCP, the row of the tailnet, the status of the daemon.  So does an  *)
(* edit of the MCP (`update` of `web/src/routes/mcps.rs`): it decides on a *)
(* copy what it changes, saves that, and probes the MCP as the copy is.    *)
(***************************************************************************)
EXTENDS Naturals

CONSTANTS Suffixes,    \* tailnets, by their MagicDNS suffix
          Requests,    \* requests to the MCP, and edits of it
          MaxSecrets,  \* bound of the credentials entered
          MaxGens,     \* bound of the sign-in generations drawn
          MaxMoves,    \* bound of the changes of the node
          None

Secrets == 1..MaxSecrets
Elsewhere == "internet"   \* the network of an MCP that is on no tailnet
Unbound == "unbound"      \* a tailnet whose node was never seen running

VARIABLES node,     \* the tailnet the node runs in, or None
          moves,
          cached,   \* the status the client of the daemon keeps for two seconds
          saved,    \* `magic_dns_suffix` of the row of the tailnet
          row,      \* the row of the MCP: on the tailnet or not, secret, generation
          entered,  \* history: the secrets entered so far,
          meant,    \* the network that the form of each named,
          beside,   \* and those that the row named in which each was saved
          pool,     \* idle connections: of the network pinned to `pin`, to `to`;
                    \* `sure`: the node did not move while it was dialled
          req       \* req[r]: where a request is, and its copies

nodeVars == << node, moves >>
history == << entered, meant, beside >>
rowVars == << saved, row, history >>
vars == << nodeVars, cached, rowVars, pool, req >>

\* A request with its copy of the row, and with what an edit changes: the network,
\* the secret alone, or neither.  One that goes elsewhere has nothing to find out.
Copy(at, secret, gen, to, edit) ==
  [at |-> at, secret |-> secret, gen |-> gen, to |-> to, edit |-> edit, sure |-> to # None,
   seen |-> None, tries |-> 0, pin |-> None]
Idle == Copy("idle", 0, 0, None, "none")

\* The MCP is called as the copy is: on the tailnet, or elsewhere.
Fetch(secret, gen, to) ==
  Copy(IF to = None THEN "tailnet" ELSE "sent", secret, gen, to, "none")

\* The network of an MCP that is on the tailnet, or not, as its row has that.
NetworkOf(on) == IF ~ on THEN Elsewhere ELSE IF saved = None THEN Unbound ELSE saved
Network == NetworkOf(row.on)

Connections == [pin : Suffixes, to : Suffixes, sure : BOOLEAN]

At(r, step) == req[r].at = step
Goto(r, step) == req' = [req EXCEPT ![r].at = step]
Refuse(r) == req' = [req EXCEPT ![r] = Idle]

-----------------------------------------------------------------------------

\* An MCP with a secret, on a tailnet whose node was seen before, or never.
Init ==
  /\ node \in Suffixes /\ moves = 0 /\ cached = None
  /\ saved \in {node, None}
  /\ row = [on |-> TRUE, secret |-> 1, gen |-> 0] /\ entered = 1
  /\ meant = [s \in Secrets |-> IF s > 1 THEN None ELSE Network] /\ beside = {}
  /\ pool = {}
  /\ req = [r \in Requests |-> Idle]

\* The node is signed out, expires, or is signed in again, to any tailnet.
NodeMoves(next) ==
  /\ moves < MaxMoves /\ next # node /\ None \in {node, next}
  /\ node' = next /\ moves' = moves + 1
  /\ req' = [r \in Requests |-> IF At(r, "dialling") THEN [req[r] EXCEPT !.sure = FALSE] ELSE req[r]]
  /\ UNCHANGED << cached, rowVars, pool >>

\* A form of the MCP is sent, with another network or not and with a new secret
\* or not.  `update` reads the row, and `assign_mcp_from_payload` works on a copy
\* of it: a secret does not follow to another network, and both columns of it are
\* to be written over then (`write_over`).
Edit(r, on, new) ==
  /\ At(r, "idle")
  /\ new => entered < MaxSecrets
  /\ LET moved == on # row.on IN
       req' = [req EXCEPT ![r] =
         Copy("editing", IF new THEN entered + 1 ELSE IF moved THEN 0 ELSE row.secret,
              row.gen, IF on THEN None ELSE Elsewhere,
              IF moved THEN "network" ELSE IF new THEN "secret" ELSE "none")]
  /\ IF new THEN /\ entered' = entered + 1
                 /\ meant' = [meant EXCEPT ![entered + 1] = NetworkOf(on)]
     ELSE UNCHANGED << entered, meant >>
  /\ UNCHANGED << nodeVars, cached, saved, row, beside, pool >>

\* `save` writes the columns in which the copy differs from what was read, in
\* whatever row is there now; `test_and_update_status` then sends the secret of
\* the copy to where the copy is.
Save(r) ==
  /\ At(r, "editing")
  /\ LET mine == req[r]
         moved == mine.edit = "network"
         gen == IF moved THEN row.gen + 1 ELSE row.gen
     IN
       /\ gen <= MaxGens
       /\ row' = [on |-> IF moved THEN mine.to = None ELSE row.on,
                  secret |-> IF mine.edit = "none" THEN row.secret ELSE mine.secret,
                  gen |-> gen]
       /\ beside' = beside \cup (({row'.secret} \ {0}) \X {NetworkOf(row'.on)})
       /\ req' = [req EXCEPT ![r] =
                    Fetch(mine.secret, IF moved THEN gen ELSE mine.gen, mine.to)]
  /\ UNCHANGED << nodeVars, cached, saved, entered, meant, pool >>

-----------------------------------------------------------------------------
(* `tailnet_fetcher`.                                                      *)

ReadMcp(r) ==
  /\ At(r, "idle")
  /\ req' = [req EXCEPT ![r] =
               Fetch(row.secret, row.gen, IF row.on THEN None ELSE Elsewhere)]
  /\ UNCHANGED << nodeVars, cached, rowVars, pool >>

\* The row of the tailnet, then the state of its node, read from the daemon.
ReadTailnet(r) ==
  /\ At(r, "tailnet")
  /\ req' = [req EXCEPT ![r].at = "state", ![r].seen = saved]
  /\ UNCHANGED << nodeVars, cached, rowVars, pool >>

ReadState(r) ==
  /\ At(r, "state")
  /\ cached' = node
  /\ IF node = None THEN Refuse(r)
     ELSE req' = [req EXCEPT ![r].at = "settle", ![r].pin = node]
  /\ UNCHANGED << nodeVars, rowVars, pool >>

\* What is known of the network of a tailnet, once its node is seen in one.
Bound(network, pin) == IF network = Unbound THEN pin ELSE network

\* `settle_identity`: the same tailnet, or one transaction that moves the row
\* from what was read and, unless that is the first tailnet, signs its MCPs
\* out (`sign_out_mcps`).
Settle(r) ==
  /\ At(r, "settle")
  /\ LET mine == req[r] IN
       \/ mine.seen = mine.pin /\ Goto(r, "generation") /\ UNCHANGED rowVars
       \/ /\ mine.seen # mine.pin /\ saved = mine.seen /\ saved' = mine.pin
          /\ IF mine.seen = None
               THEN /\ meant' = [s \in Secrets |-> Bound(meant[s], mine.pin)]
                    /\ beside' = {<< p[1], Bound(p[2], mine.pin) >> : p \in beside}
                    /\ Goto(r, "generation") /\ UNCHANGED row
               ELSE /\ row.on => row.gen < MaxGens
                    /\ row' = IF row.on THEN [on |-> TRUE, secret |-> 0, gen |-> row.gen + 1] ELSE row
                    /\ Refuse(r) /\ UNCHANGED << meant, beside >>
          /\ UNCHANGED entered
       \/ mine.seen # mine.pin /\ saved # mine.seen /\ Goto(r, "again") /\ UNCHANGED rowVars
  /\ UNCHANGED << nodeVars, cached, pool >>

\* Another request settled it: what it left, three times at most.
SettleAgain(r) ==
  /\ At(r, "again")
  /\ IF req[r].tries = 2 THEN Refuse(r)
     ELSE req' = [req EXCEPT ![r].at = "settle", ![r].seen = saved, ![r].tries = @ + 1]
  /\ UNCHANGED << nodeVars, cached, rowVars, pool >>

\* The secret of the copy may have been cleared since it was read.  What is left
\* to do needs that, and the tailnet it is pinned to.
CheckGeneration(r) ==
  /\ At(r, "generation")
  /\ IF row.gen # req[r].gen THEN Refuse(r)
     ELSE req' = [req EXCEPT ![r] =
            [Idle EXCEPT !.at = "route", !.secret = req[r].secret, !.pin = req[r].pin]]
  /\ UNCHANGED << nodeVars, cached, rowVars, pool >>

\* `TailnetHandle::route`, before the network is chosen and for every request
\* sent: a status that may be two seconds old, of the tailnet this one is
\* pinned to.  A host it does not carry is refused, also once the fetcher
\* requires it (`through_requiring`).
Route(r, step, next) ==
  /\ At(r, step)
  /\ cached' \in {cached, node}
  /\ \/ cached' = req[r].pin /\ Goto(r, next)
     \/ Refuse(r)
  /\ UNCHANGED << nodeVars, rowVars, pool >>

\* A pooled connection of the same network and address is used again.
Reuse(r) ==
  /\ At(r, "connect")
  /\ \E c \in pool :
       /\ c.pin = req[r].pin
       /\ pool' = pool \ {c}
       /\ req' = [req EXCEPT ![r].at = "sent", ![r].to = c.to, ![r].sure = c.sure]
  /\ UNCHANGED << nodeVars, cached, rowVars >>

\* A mutant of Dial: the address is checked against the cached status.
DialCached(r) ==
  /\ At(r, "connect")
  /\ cached' \in {cached, node}
  /\ IF cached' = req[r].pin THEN req' = [req EXCEPT ![r].at = "dialling", ![r].sure = TRUE]
     ELSE Refuse(r)
  /\ UNCHANGED << nodeVars, rowVars, pool >>

\* `TailnetHandle::dial`: checked against a status read now, then dialled.
Dial(r) ==
  /\ At(r, "connect")
  /\ cached' = node
  /\ IF node = req[r].pin THEN req' = [req EXCEPT ![r].at = "dialling", ![r].sure = TRUE]
     ELSE Refuse(r)
  /\ UNCHANGED << nodeVars, rowVars, pool >>

Dialled(r) ==
  /\ At(r, "dialling") /\ node # None
  /\ req' = [req EXCEPT ![r].at = "sent", ![r].to = node]
  /\ UNCHANGED << nodeVars, cached, rowVars, pool >>

\* The answer is there, the connection is idle; the same fetcher sends what
\* comes next: a redirect within the origin, another message.
NextHop(r) ==
  /\ At(r, "sent")
  /\ IF req[r].to = Elsewhere THEN UNCHANGED << pool, req >>
     ELSE /\ pool' = pool \cup {[pin |-> req[r].pin, to |-> req[r].to, sure |-> req[r].sure]}
          /\ req' = [req EXCEPT ![r].at = "send", ![r].to = None, ![r].sure = FALSE]
  /\ UNCHANGED << nodeVars, cached, rowVars >>

\* A request ends, or is dropped, anywhere.
End(r) ==
  /\ ~ At(r, "idle")
  /\ Refuse(r)
  /\ UNCHANGED << nodeVars, cached, rowVars, pool >>

\* Idle connections close: after a while, or with their network
\* (`forget_tailnet`).
ConnectionsClose ==
  /\ pool # {}
  /\ pool' \in SUBSET pool
  /\ UNCHANGED << nodeVars, cached, rowVars, req >>

Step(r) ==
  \/ ReadMcp(r) \/ ReadTailnet(r) \/ ReadState(r) \/ Settle(r) \/ SettleAgain(r)
  \/ CheckGeneration(r) \/ Route(r, "route", "send") \/ Route(r, "send", "connect")
  \/ Reuse(r) \/ Dial(r) \/ Dialled(r) \/ NextHop(r) \/ End(r)
  \/ Save(r) \/ \E on, new \in BOOLEAN : Edit(r, on, new)

Next ==
  \/ \E next \in Suffixes \cup {None} : NodeMoves(next)
  \/ ConnectionsClose
  \/ \E r \in Requests : Step(r)

Spec == Init /\ [][Next]_vars

-----------------------------------------------------------------------------

Networks == Suffixes \cup {None, Unbound, Elsewhere}

Sent == [at : {"idle", "tailnet", "state", "settle", "again", "generation", "route", "send",
               "connect", "dialling", "sent", "editing"},
         secret : 0..MaxSecrets, gen : 0..MaxGens, seen : Suffixes \cup {None}, tries : 0..2,
         pin : Suffixes \cup {None}, to : Suffixes \cup {None, Elsewhere}, sure : BOOLEAN,
         edit : {"none", "secret", "network"}]

TypeOK ==
  /\ {node, cached, saved} \subseteq Suffixes \cup {None} /\ moves \in 0..MaxMoves
  /\ row \in [on : BOOLEAN, secret : 0..MaxSecrets, gen : 0..MaxGens]
  /\ entered \in 0..MaxSecrets
  /\ meant \in [Secrets -> Networks]
  /\ beside \subseteq Secrets \X Networks
  /\ pool \subseteq Connections
  /\ req \in [Requests -> Sent]

\* A request r that sends a secret, by a connection that reaches what it was
\* dialled for.  The other case is the one `dial` documents: the node moves
\* during the round trip of the dial itself.
Sends(r) == At(r, "sent") /\ req[r].secret # 0 /\ req[r].sure

\* A secret of this MCP is for that network: its form named it, or the row in
\* which it was saved.
For(secret, network) ==
  secret # 0 => /\ secret <= entered
                /\ meant[secret] = network \/ << secret, network >> \in beside

\* A secret is sent only into a network that its form named or that the MCP was
\* on when it was saved, the first tailnet its node was seen in when there was
\* none yet; whatever the node is signed in to while the request is prepared and
\* sent, and however the MCP is moved (`settle_identity`, the check of the
\* generation, `pinned_to`, `dial`).
SecretsGoAsSaved == \A r \in Requests : Sends(r) => For(req[r].secret, req[r].to)

\* assign_mcp_from_payload: "Saved secrets are write-only and were entered for
\* one destination.  They must not follow the MCP to another origin, network or
\* package".  A secret is sent only into the network its form named.  The code does
\* not keep this (README, section 6); SecretsGoAsSaved says what it keeps.
SecretsStayInTailnet == \A r \in Requests : Sends(r) => meant[req[r].secret] = req[r].to

-----------------------------------------------------------------------------
(* The inductive invariant behind SecretsGoAsSaved.                        *)

Settling == {"tailnet", "state", "settle", "again", "generation"}
Pinned == {"route", "send", "connect", "dialling"}

\* An edit that stays on the tailnet.
Stays(r) == At(r, "editing") /\ req[r].to = None /\ req[r].edit # "network"

\* A request whose generation is still that of the row has a secret for the
\* network of the row, and what it read of the tailnet is so.
CopyOK(r) ==
  /\ req[r].gen <= row.gen /\ req[r].secret <= entered
  /\ (Stays(r) \/ req[r].at \in Settling) /\ req[r].gen = row.gen =>
       row.on /\ For(req[r].secret, Network)
  /\ req[r].at \in Settling /\ req[r].gen = row.gen =>
       /\ req[r].at # "tailnet" /\ req[r].seen # None => req[r].seen = saved
       /\ At(r, "generation") => saved = req[r].pin

\* Past the check of the generation, a request has a secret for the tailnet it
\* is pinned to; on no tailnet, or edited to be there, it has one for elsewhere.
PinOK(r) ==
  /\ req[r].at \in Pinned \cup {"settle", "again", "generation"} => req[r].pin \in Suffixes
  /\ req[r].at \in Pinned => For(req[r].secret, req[r].pin)
  /\ At(r, "editing") => /\ req[r].to \in {None, Elsewhere}
                         /\ req[r].to = Elsewhere => For(req[r].secret, Elsewhere)
  /\ At(r, "sent") => IF req[r].to = Elsewhere THEN For(req[r].secret, Elsewhere)
                      ELSE /\ req[r].pin \in Suffixes /\ req[r].to \in Suffixes
                           /\ For(req[r].secret, req[r].pin)

\* A connection is sure to reach the tailnet it is pinned to.
SureOK(r) ==
  /\ At(r, "dialling") /\ req[r].sure => node = req[r].pin
  /\ At(r, "sent") /\ req[r].sure /\ req[r].to # Elsewhere => req[r].to = req[r].pin

Inv ==
  /\ TypeOK
  /\ For(row.secret, Network)
  /\ \A r \in Requests : CopyOK(r) /\ PinOK(r) /\ SureOK(r)
  /\ \A c \in pool : c.sure => c.to = c.pin
=============================================================================
