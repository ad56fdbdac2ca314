------------------------------- MODULE Grants -------------------------------
(***************************************************************************)
(* How an agent is let in, and what it may then do: mcp/oauth.py, the      *)
(* consent and agents pages of web/app.py, the tools of mcp/server.py, and *)
(* "grant", "mcp" and "account" of the command line.                       *)
(*                                                                         *)
(* A grant is what a person agreed to.  A client that logs in gets pairs   *)
(* of tokens that point at one, a token of the command line is one, and a  *)
(* pipe keeps in memory what it was started with.  A call carries the view *)
(* that was resolved when it began.                                        *)
(*                                                                         *)
(* One action is one transaction or one step in memory.  A credential is   *)
(* looked up in one transaction and spent in another, with the SDK's own   *)
(* checks in between; anything that has an expiry may lapse at any moment. *)
(***************************************************************************)
EXTENDS Naturals

CONSTANTS
  Client,      \* the programs that may register themselves
  Name,        \* the names producers may have
  NameOf,      \* what each client calls itself
  Reviewer,    \* the name the person's own row is given
  Local,       \* the name "mcp" speaks as on a pipe
  Account,     \* the ids account rows may have
  Capability,  \* what a grant may allow
  Offer,       \* bound: what a person may agree to, capabilities and accounts
  Request,     \* bound: the logins that may be begun
  MaxGrants,   \* bound: how many grants may come to be
  MaxPairs,    \* bound: how many pairs of tokens may be issued
  Desk,        \* the token requests that may be under way at once
  Call,        \* the calls that may be under way at once
  None

Grant == 1..MaxGrants
Pair  == 1..MaxPairs

ASSUME GrantsOK ==
  /\ NameOf \in [Client -> Name]
  /\ Reviewer \in Name
  /\ Local \in Name
  /\ {"observe", "suggest", "assess"} \cap Capability # {}
  /\ Offer \subseteq [capabilities : SUBSET Capability, accounts : SUBSET Account]
  /\ MaxGrants \in Nat
  /\ MaxPairs \in Nat
  /\ Request \cap Pair = {}
  /\ None \notin Client \cup Request \cup Grant

VARIABLES
  producers,  \* what kind of producer has each name
  clients,    \* the clients that have registered
  mail,       \* of each account id: whether a row has it, or has had it
  requests,   \* the logins: one row from /authorize to the tokens
  grants,
  pairs,      \* an access token and a refresh token, issued together
  desk,       \* the credential each token request has looked up
  pipe,       \* CURRENT_GRANT of a process on a pipe
  calls       \* the view each call resolved, and what it has answered

vars == <<producers, clients, mail, requests, grants, pairs, desk, pipe, calls>>

-----------------------------------------------------------------------------
(* The rows                                                                *)

GrantRow ==
  [producer : Name, capabilities : SUBSET Capability,
   accounts : SUBSET Account,      \* its grant_account rows
   client : Client \cup {None},    \* who it was consented to
   request : Request \cup {None},  \* history: the login it was agreed to in
   held : BOOLEAN,                 \* somebody was given its own token
   revoked : BOOLEAN]

RequestRow ==
  [client : Client, open : BOOLEAN, grant : Grant \cup {None},
   code : {"none", "fresh", "lapsed"}, used : BOOLEAN]

\* access and refresh: the token is neither revoked nor expired.
PairRow ==
  [grant : Grant, client : Client,
   holder : Client,           \* history: who was given it
   from : Request \cup Pair,  \* history: the login or the pair it was had for
   access : BOOLEAN, refresh : BOOLEAN]

DeskRow == [client : Client, presents : Request \cup Pair]

ViewRow ==
  [grant : Grant, producer : Name, capabilities : SUBSET Capability,
   accounts : SUBSET Account]

AnswerRow == [capability : Capability, accounts : SUBSET Account]

CallRow == [view : ViewRow, said : AnswerRow \cup {None}]

TypeOK ==
  /\ producers \in [Name -> {"none", "agent", "person"}]
  /\ clients \subseteq Client
  /\ mail \in [Account -> {"never", "here", "forgotten", "again"}]
  /\ requests \in [Request -> RequestRow \cup {None}]
  /\ grants \in [Grant -> GrantRow \cup {None}]
  /\ pairs \in [Pair -> PairRow \cup {None}]
  /\ desk \in [Desk -> DeskRow \cup {None}]
  /\ pipe \in ViewRow \cup {None}
  /\ calls \in [Call -> CallRow \cup {None}]

ASSUME NoneIsNoRow ==
  /\ None \notin GrantRow
  /\ None \notin [producer : Name, capabilities : SUBSET Capability,
                 accounts : SUBSET Account]
  /\ None \notin RequestRow
  /\ None \notin PairRow
  /\ None \notin ViewRow
  /\ None \notin DeskRow
  /\ None \notin AnswerRow
  /\ None \notin CallRow

Init ==
  /\ producers = [n \in Name |-> "none"]
  /\ clients = {}
  /\ mail = [a \in Account |-> "never"]
  /\ requests = [r \in Request |-> None]
  /\ grants = [g \in Grant |-> None]
  /\ pairs = [p \in Pair |-> None]
  /\ desk = [d \in Desk |-> None]
  /\ pipe = None
  /\ calls = [c \in Call |-> None]

\* The accounts that have a row.
Accounts == {a \in Account : mail[a] \in {"here", "again"}}

\* mcp_server._live: no grant in this code is given an expiry.
LiveGrant(g) == grants[g] # None /\ ~grants[g].revoked

\* mcp_server._view
View(g) ==
  [grant |-> g, producer |-> grants[g].producer,
   capabilities |-> grants[g].capabilities, accounts |-> grants[g].accounts]

\* The next row of a table: ids are given in order.
NextIn(table, i) ==
  table[i] = None /\ \A j \in DOMAIN table : j < i => table[j] # None

\* A grant for the producer of that name, who is made an agent if new.
Mint(g, n, offer, client, request, held) ==
  /\ NextIn(grants, g)
  /\ offer.accounts \subseteq Accounts
  /\ grants' = [grants EXCEPT ![g] =
       [producer |-> n, capabilities |-> offer.capabilities,
        accounts |-> offer.accounts, client |-> client, request |-> request,
        held |-> held, revoked |-> FALSE]]
  /\ producers' = [producers EXCEPT ![n] = IF @ = "none" THEN "agent" ELSE @]

-----------------------------------------------------------------------------
(* The person                                                              *)

\* reviewer(): the person's own row, made at their first decision.  A name is
\* unique, so the decision fails if an agent has this one.
ReviewerActs ==
  /\ producers[Reviewer] = "none"
  /\ producers' = [producers EXCEPT ![Reviewer] = "person"]
  /\ UNCHANGED <<clients, mail, requests, grants, pairs, desk, pipe, calls>>

\* FAULT: forgets that a request may have been answered in another tab.
Pending_IfOpen(r) == requests[r] # None /\ requests[r].open

\* _pending: what the consent page can still be asked about.
Pending(r) ==
  /\ requests[r] # None
  /\ requests[r].grant = None
  /\ requests[r].open

\* FAULT: takes whoever has the name.
MaySpeak_Any(n) == n \in Name

\* A login speaks as the agent of its client's name, or as a new one: if the
\* person has the name, making it breaks the name's uniqueness.
MaySpeak(n) == producers[n] # "person"

\* decide_consent, allowing: from any tab, with some account ticked if there
\* is one.  (To refuse writes an audit line and nothing else.)
Allow(r, offer) ==
  /\ Pending(r)
  /\ offer.accounts = {} => Accounts = {}
  /\ MaySpeak(NameOf[requests[r].client])
  /\ \E g \in Grant :
       /\ Mint(g, NameOf[requests[r].client], offer, requests[r].client, r, FALSE)
       /\ requests' = [requests EXCEPT ![r].grant = g, ![r].code = "fresh"]
  /\ UNCHANGED <<clients, mail, pairs, desk, pipe, calls>>

RevokeGrant(g) ==
  /\ LiveGrant(g)
  /\ grants' = [grants EXCEPT ![g].revoked = TRUE]
  /\ UNCHANGED <<producers, clients, mail, requests, pairs, desk, pipe, calls>>

\* "mailmindctl grant": the token it prints is the grant.
MakeGrant(n, offer) ==
  /\ \E g \in Grant : Mint(g, n, offer, None, None, TRUE)
  /\ UNCHANGED <<clients, mail, requests, pairs, desk, pipe, calls>>

\* "account seed".  An id is used again when its last row was forgotten.
SeedAccount(a) ==
  /\ a \notin Accounts
  /\ mail' = [mail EXCEPT ![a] = IF @ = "never" THEN "here" ELSE "again"]
  /\ UNCHANGED <<producers, clients, requests, grants, pairs, desk, pipe, calls>>

\* FAULT: the row stays when what hangs off it is dropped.
ForgetAccount_LinksOnly(a) ==
  /\ a \in Accounts
  /\ grants' = [g \in Grant |->
       IF grants[g] = None THEN None
       ELSE [grants[g] EXCEPT !.accounts = @ \ {a}]]
  /\ UNCHANGED <<producers, clients, mail, requests, pairs, desk, pipe, calls>>

\* "account forget", of an account no folder was ever seen in.
ForgetAccount(a) ==
  /\ a \in Accounts
  /\ mail' = [mail EXCEPT ![a] = "forgotten"]
  /\ grants' = [g \in Grant |->
       IF grants[g] = None THEN None
       ELSE [grants[g] EXCEPT !.accounts = @ \ {a}]]
  /\ UNCHANGED <<producers, clients, requests, pairs, desk, pipe, calls>>

-----------------------------------------------------------------------------
(* Logging in                                                              *)

RegisterClient(c) ==
  /\ c \notin clients
  /\ clients' = clients \cup {c}
  /\ UNCHANGED <<producers, mail, requests, grants, pairs, desk, pipe, calls>>

Authorize(r, c) ==
  /\ c \in clients
  /\ requests[r] = None
  /\ requests' = [requests EXCEPT ![r] =
       [client |-> c, open |-> TRUE, grant |-> None, code |-> "none", used |-> FALSE]]
  /\ UNCHANGED <<producers, clients, mail, grants, pairs, desk, pipe, calls>>

\* A request nobody answered in ten minutes; a code nobody spent in five.
LapseRequest(r) ==
  /\ Pending(r)
  /\ requests' = [requests EXCEPT ![r].open = FALSE]
  /\ UNCHANGED <<producers, clients, mail, grants, pairs, desk, pipe, calls>>

\* FAULT: the lapsed code is cleared.
LapseCode_Cleared(r) ==
  /\ requests[r] # None
  /\ requests[r].code = "fresh"
  /\ requests' = [requests EXCEPT ![r].code = None]
  /\ UNCHANGED <<producers, clients, mail, grants, pairs, desk, pipe, calls>>

LapseCode(r) ==
  /\ requests[r] # None
  /\ requests[r].code = "fresh"
  /\ requests' = [requests EXCEPT ![r].code = "lapsed"]
  /\ UNCHANGED <<producers, clients, mail, grants, pairs, desk, pipe, calls>>

\* FAULT: anybody's code.
LoadCode_AnyClient(d, c, r) ==
  /\ desk[d] = None
  /\ c \in clients
  /\ requests[r] # None
  /\ requests[r].grant # None
  /\ ~requests[r].used
  /\ requests[r].code = "fresh"
  /\ desk' = [desk EXCEPT ![d] = [client |-> c, presents |-> r]]
  /\ UNCHANGED <<producers, clients, mail, requests, grants, pairs, pipe, calls>>

\* load_authorization_code, and the SDK's look at the code's expiry after it.
LoadCode(d, c, r) ==
  /\ desk[d] = None
  /\ c \in clients
  /\ requests[r] # None
  /\ requests[r].client = c
  /\ requests[r].grant # None
  /\ ~requests[r].used
  /\ requests[r].code = "fresh"
  /\ desk' = [desk EXCEPT ![d] = [client |-> c, presents |-> r]]
  /\ UNCHANGED <<producers, clients, mail, requests, grants, pairs, pipe, calls>>

\* _issue: the next pair, for what the desk was presented.
Issue(d, table, g, client) ==
  /\ \E p \in Pair :
       /\ NextIn(table, p)
       /\ pairs' = [table EXCEPT ![p] =
            [grant |-> g, client |-> client, holder |-> desk[d].client,
             from |-> desk[d].presents, access |-> TRUE, refresh |-> TRUE]]
  /\ desk' = [desk EXCEPT ![d] = None]

\* FAULT: trusts what was loaded.
ExchangeCode_AsLoaded(d, r) ==
  /\ desk[d] # None
  /\ desk[d].presents = r
  /\ requests' = [requests EXCEPT ![r].used = TRUE]
  /\ Issue(d, pairs, requests[r].grant, requests[r].client)
  /\ UNCHANGED <<producers, clients, mail, grants, pipe, calls>>

\* exchange_authorization_code.  Whether the grant still stands, and whether
\* the code has lapsed since, is not asked.
ExchangeCode(d, r) ==
  /\ desk[d] # None
  /\ desk[d].presents = r
  /\ ~requests[r].used
  /\ requests' = [requests EXCEPT ![r].used = TRUE]
  /\ Issue(d, pairs, requests[r].grant, requests[r].client)
  /\ UNCHANGED <<producers, clients, mail, grants, pipe, calls>>

\* load_refresh_token
LoadRefresh(d, c, p) ==
  /\ desk[d] = None
  /\ c \in clients
  /\ pairs[p] # None
  /\ pairs[p].refresh
  /\ pairs[p].client = c
  /\ desk' = [desk EXCEPT ![d] = [client |-> c, presents |-> p]]
  /\ UNCHANGED <<producers, clients, mail, requests, grants, pairs, pipe, calls>>

\* FAULT: the token it was had for goes on working.
ExchangeRefresh_KeepsOld(d, p) ==
  /\ desk[d] # None
  /\ desk[d].presents = p
  /\ pairs[p].refresh
  /\ LiveGrant(pairs[p].grant)
  /\ Issue(d, pairs, pairs[p].grant, pairs[p].client)
  /\ UNCHANGED <<producers, clients, mail, requests, grants, pipe, calls>>

\* exchange_refresh_token: the refresh token is turned in for a new pair.  The
\* old access token lasts out its hour.
ExchangeRefresh(d, p) ==
  /\ desk[d] # None
  /\ desk[d].presents = p
  /\ pairs[p].refresh
  /\ LiveGrant(pairs[p].grant)
  /\ Issue(d, [pairs EXCEPT ![p].refresh = FALSE], pairs[p].grant, pairs[p].client)
  /\ UNCHANGED <<producers, clients, mail, requests, grants, pipe, calls>>

\* The exchange is refused, or the client does not wait for it.
LeaveDesk(d) ==
  /\ desk[d] # None
  /\ desk' = [desk EXCEPT ![d] = None]
  /\ UNCHANGED <<producers, clients, mail, requests, grants, pairs, pipe, calls>>

\* revoke_token: its holder gives up one token; or its time runs out.
EndAccess(p) ==
  /\ pairs[p] # None
  /\ pairs[p].access
  /\ pairs' = [pairs EXCEPT ![p].access = FALSE]
  /\ UNCHANGED <<producers, clients, mail, requests, grants, desk, pipe, calls>>

EndRefresh(p) ==
  /\ pairs[p] # None
  /\ pairs[p].refresh
  /\ pairs' = [pairs EXCEPT ![p].refresh = FALSE]
  /\ UNCHANGED <<producers, clients, mail, requests, grants, desk, pipe, calls>>

-----------------------------------------------------------------------------
(* A pipe                                                                  *)

\* "mcp --token": grant_context, for as long as the process lives.
AttachToken(g) ==
  /\ pipe = None
  /\ LiveGrant(g)
  /\ grants[g].held
  /\ pipe' = View(g)
  /\ UNCHANGED <<producers, clients, mail, requests, grants, pairs, desk, calls>>

\* The grant local_context looks at: the producer's newest.
GrantsOf(n) == {g \in Grant : grants[g] # None /\ grants[g].producer = n}
Latest(g, n) == g \in GrantsOf(n) /\ \A h \in GrantsOf(n) : h <= g

\* local_context, when that one is live.
AttachLatest(g) ==
  /\ pipe = None
  /\ Latest(g, Local)
  /\ LiveGrant(g)
  /\ pipe' = View(g)
  /\ UNCHANGED <<producers, clients, mail, requests, grants, pairs, desk, calls>>

\* local_context, when there is none or that one was revoked: a new one, of
\* everything over everything.
AttachNew(g) ==
  /\ pipe = None
  /\ \/ GrantsOf(Local) = {}
     \/ \E h \in Grant : Latest(h, Local) /\ grants[h].revoked
  /\ Mint(g, Local, [capabilities |-> Capability, accounts |-> Accounts],
          None, None, FALSE)
  /\ pipe' = View(g)'
  /\ UNCHANGED <<clients, mail, requests, pairs, desk, calls>>

ClosePipe ==
  /\ pipe # None
  /\ pipe' = None
  /\ UNCHANGED <<producers, clients, mail, requests, grants, pairs, desk, calls>>

-----------------------------------------------------------------------------
(* A call                                                                  *)

Begin(c, view) ==
  /\ calls[c] = None
  /\ calls' = [calls EXCEPT ![c] = [view |-> view, said |-> None]]
  /\ UNCHANGED <<producers, clients, mail, requests, grants, pairs, desk, pipe>>

\* FAULT: the token is live, so its grant is taken to be.
LoadAccess_AnyGrant(c, p) ==
  /\ pairs[p] # None
  /\ pairs[p].access
  /\ Begin(c, View(pairs[p].grant))

\* load_access_token, of a login.
LoadAccess(c, p) ==
  /\ pairs[p] # None
  /\ pairs[p].access
  /\ LiveGrant(pairs[p].grant)
  /\ Begin(c, View(pairs[p].grant))

\* load_access_token and GrantMiddleware, of the command line's tokens.
LoadGrant(c, g) ==
  /\ LiveGrant(g)
  /\ grants[g].held
  /\ Begin(c, View(g))

\* A call on the pipe.
ReadPipe(c) ==
  /\ pipe # None
  /\ Begin(c, pipe)

\* _require, and the one answer of a call.
Says(c, capability, accounts) ==
  /\ calls[c] # None
  /\ calls[c].said = None
  /\ capability \in calls[c].view.capabilities
  /\ calls' = [calls EXCEPT ![c].said =
       [capability |-> capability, accounts |-> accounts]]
  /\ UNCHANGED <<producers, clients, mail, requests, grants, pairs, desk, pipe>>

\* _account, _container, _message, _bundle: what an id leads to is in this.
Within(c) == calls[c].view.accounts \cap Accounts

\* list_accounts, and a search that names no account; or one folder, message
\* or account.
Observe(c) ==
  /\ calls[c] # None
  /\ \/ Says(c, "observe", Within(c))
     \/ \E a \in Within(c) : Says(c, "observe", {a})

\* request_body, request_sync, task_status
Ask(c) ==
  /\ calls[c] # None
  /\ \E a \in Within(c) : Says(c, "observe", {a})

\* propose_bundle, add_to_bundle, propose_discard, withdraw_bundle
Suggest(c) ==
  /\ calls[c] # None
  /\ \E a \in Within(c) : Says(c, "suggest", {a})

\* add_assessment
Assess(c) ==
  /\ calls[c] # None
  /\ \E a \in Within(c) : Says(c, "assess", {a})

\* The resources: bundles open and decided, one bundle, one suggestion.
ReadBundles(c) ==
  /\ calls[c] # None
  /\ \/ Says(c, "suggest", Within(c))
     \/ \E a \in Within(c) : Says(c, "suggest", {a})

\* It is answered, or was refused, or its caller has gone.
End(c) ==
  /\ calls[c] # None
  /\ calls' = [calls EXCEPT ![c] = None]
  /\ UNCHANGED <<producers, clients, mail, requests, grants, pairs, desk, pipe>>

-----------------------------------------------------------------------------

People ==
  \/ ReviewerActs
  \/ \E r \in Request, offer \in Offer : Allow(r, offer)
  \/ \E g \in Grant : RevokeGrant(g)
  \/ \E n \in Name, offer \in Offer : MakeGrant(n, offer)
  \/ \E a \in Account : SeedAccount(a) \/ ForgetAccount(a)

Clients ==
  \/ \E c \in Client : RegisterClient(c)
  \/ \E r \in Request, c \in Client : Authorize(r, c)
  \/ \E d \in Desk, c \in Client, r \in Request : LoadCode(d, c, r)
  \/ \E d \in Desk, c \in Client, p \in Pair : LoadRefresh(d, c, p)
  \/ \E d \in Desk, r \in Request : ExchangeCode(d, r)
  \/ \E d \in Desk, p \in Pair : ExchangeRefresh(d, p)
  \/ \E d \in Desk : LeaveDesk(d)

Time ==
  \/ \E r \in Request : LapseRequest(r) \/ LapseCode(r)
  \/ \E p \in Pair : EndAccess(p) \/ EndRefresh(p)

Pipe ==
  \/ \E g \in Grant : AttachToken(g) \/ AttachLatest(g) \/ AttachNew(g)
  \/ ClosePipe

Calls ==
  \E c \in Call :
    \/ \E p \in Pair : LoadAccess(c, p)
    \/ \E g \in Grant : LoadGrant(c, g)
    \/ ReadPipe(c)
    \/ Observe(c) \/ Ask(c) \/ Suggest(c) \/ Assess(c) \/ ReadBundles(c)
    \/ End(c)

Next == People \/ Clients \/ Time \/ Pipe \/ Calls

Spec == Init /\ [][Next]_vars

-----------------------------------------------------------------------------
(* Properties                                                              *)

\* A code and a refresh token are each good for one pair of tokens, however
\* many token requests looked them up before one of them spent it
\* (oauth.exchange_authorization_code, exchange_refresh_token).
SpentOnce ==
  \A p, q \in Pair :
    pairs[p] # None /\ pairs[q] # None /\ pairs[p].from = pairs[q].from => p = q

\* A grant has one refresh token that works, through every rotation, and a
\* code not yet spent has none (oauth "a stolen refresh token stops working
\* the moment the real client uses its own").
OneRefreshWorks ==
  /\ \A p, q \in Pair :
       /\ pairs[p] # None /\ pairs[p].refresh
       /\ pairs[q] # None /\ pairs[q].refresh
       /\ pairs[p].grant = pairs[q].grant
       => p = q
  /\ \A p \in Pair, r \in Request :
       pairs[p] # None /\ requests[r] # None /\ requests[r].grant = pairs[p].grant
       => requests[r].used

\* A login is agreed to once, whatever tabs it was open in, for the client
\* that began it, and what was agreed is what its code is good for (web
\* _pending, decide_consent, oauth.consent).
AgreedOnce ==
  \A g \in Grant, r \in Request :
    grants[g] # None /\ grants[g].request = r =>
      /\ requests[r] # None
      /\ requests[r].grant = g
      /\ requests[r].client = grants[g].client

\* Tokens are in the hands of the client the person agreed to
\* (oauth.load_authorization_code, load_refresh_token).
HeldByItsClient ==
  \A p \in Pair : pairs[p] # None =>
    /\ grants[pairs[p].grant] # None
    /\ pairs[p].holder = grants[pairs[p].grant].client

\* No agent that logged in speaks as the person, whatever it calls itself and
\* whichever of the two came first (web decide_consent, reviewer).
NoAgentIsThePerson ==
  producers[Reviewer] = "person" =>
    \A g \in Grant : grants[g] # None /\ grants[g].request # None =>
      grants[g].producer # Reviewer

\* What a call says anything about is mail its grant covers at that moment,
\* although its view is older; the exception is an id that went to a new
\* account in between (server._account and its kin, cli forget_account).
SpeaksOfItsOwn ==
  [][\A c \in Call :
       calls[c] # None /\ calls'[c] # None /\ calls'[c].said # calls[c].said =>
         \A a \in calls'[c].said.accounts :
           a \in grants[calls[c].view.grant].accounts \/ mail[a] = "again"]_vars

\* What agents do is what Authority.tla promises, but for the two departures of
\* a pipe it names: a call by a token begins under a grant that stands and says
\* what that allows (oauth.load_access_token, server.grant_context, _require);
\* one on a pipe begins under what the pipe was attached with (server._grant).
Given == [g \in Grant |->
  IF grants[g] = None THEN None
  ELSE [producer |-> grants[g].producer,
        capabilities |-> grants[g].capabilities,
        accounts |-> grants[g].accounts]]

Over == {g \in Grant : grants[g] # None /\ grants[g].revoked}

Promise == INSTANCE Authority WITH
  given <- Given, over <- Over, attached <- pipe, serving <- calls

KeepsAuthority == Promise!Spec

=============================================================================
