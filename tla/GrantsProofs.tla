---------------------------- MODULE GrantsProofs ----------------------------
(***************************************************************************)
(* Proofs about Grants.tla: its types, what is spent once, who holds what, *)
(* what a call may speak of, and that it implements Authority.tla.         *)
(***************************************************************************)
EXTENDS Grants, TLAPS

-----------------------------------------------------------------------------
(* Types                                                                   *)

\* A desk holds what was there to be looked up, and for who looked it up.
\* Without it an exchange could be of a code that never was.
DeskHolds ==
  \A d \in Desk : desk[d] # None =>
    /\ \A r \in Request : desk[d].presents = r =>
         /\ requests[r] # None
         /\ requests[r].grant # None
         /\ requests[r].client = desk[d].client
    /\ \A p \in Pair : desk[d].presents = p =>
         /\ pairs[p] # None
         /\ pairs[p].client = desk[d].client

\* What minting does to the two tables it writes.
LEMMA MintType ==
  ASSUME TypeOK, NEW g \in Grant, NEW n \in Name, NEW offer,
         offer.capabilities \subseteq Capability, offer.accounts \subseteq Account,
         NEW client \in Client \cup {None}, NEW r \in Request \cup {None},
         NEW held \in BOOLEAN, Mint(g, n, offer, client, r, held)
  PROVE  /\ grants' \in [Grant -> GrantRow \cup {None}]
         /\ producers' \in [Name -> {"none", "agent", "person"}]
  BY DEF TypeOK, Mint, GrantRow

LEMMA ViewType ==
  ASSUME TypeOK, NEW g \in Grant, grants[g] # None
  PROVE  View(g) \in ViewRow
  BY DEF TypeOK, View, ViewRow, GrantRow

\* What issuing does, to a table of pairs and the desk.
LEMMA IssueType ==
  ASSUME TypeOK, NEW d \in Desk, desk[d] # None,
         NEW table \in [Pair -> PairRow \cup {None}],
         NEW g \in Grant, NEW client \in Client, Issue(d, table, g, client)
  PROVE  /\ pairs' \in [Pair -> PairRow \cup {None}]
         /\ desk' \in [Desk -> DeskRow \cup {None}]
<1>1. desk[d] \in DeskRow
  BY DEF TypeOK
<1>2. PICK p \in Pair :
        pairs' = [table EXCEPT ![p] =
          [grant |-> g, client |-> client, holder |-> desk[d].client,
           from |-> desk[d].presents, access |-> TRUE, refresh |-> TRUE]]
  BY DEF Issue
<1> QED
  BY <1>1, <1>2 DEF TypeOK, Issue, DeskRow, PairRow

LEMMA BeginType ==
  ASSUME TypeOK, NEW c \in Call, NEW view \in ViewRow, Begin(c, view)
  PROVE  TypeOK'
  BY DEF TypeOK, Begin, CallRow

LEMMA SaysType ==
  ASSUME TypeOK, NEW c \in Call, NEW capability, NEW A \in SUBSET Account,
         Says(c, capability, A)
  PROVE  TypeOK'
<1>1. calls[c] \in CallRow
  BY DEF TypeOK, Says
<1>2. [capability |-> capability, accounts |-> A] \in AnswerRow
  BY <1>1 DEF Says, CallRow, ViewRow, AnswerRow
<1> QED
  BY <1>1, <1>2 DEF TypeOK, Says, CallRow

\* A person's offer, and an account of a call's own, are of the types they
\* are used at.
LEMMA OfferType ==
  ASSUME NEW offer \in Offer
  PROVE  offer.capabilities \subseteq Capability /\ offer.accounts \subseteq Account
  BY GrantsOK

LEMMA WithinType ==
  ASSUME TypeOK, NEW c \in Call, calls[c] # None
  PROVE  Within(c) \subseteq Account
  BY DEF Within, Accounts

LEMMA PeopleType ==
  ASSUME TypeOK, People
  PROVE  TypeOK'
<1>1. CASE ReviewerActs
  BY <1>1, GrantsOK DEF ReviewerActs, TypeOK
<1>2. ASSUME NEW r \in Request, NEW offer \in Offer, Allow(r, offer)
      PROVE  TypeOK'
  <2>1. PICK g \in Grant :
          /\ Mint(g, NameOf[requests[r].client], offer, requests[r].client, r, FALSE)
          /\ requests' = [requests EXCEPT ![r].grant = g, ![r].code = "fresh"]
    BY <1>2 DEF Allow
  <2>2. requests[r] \in RequestRow
    BY <1>2 DEF Allow, Pending, TypeOK
  <2>3. requests[r].client \in Client /\ NameOf[requests[r].client] \in Name
    BY <2>2, GrantsOK DEF RequestRow
  <2>4. /\ grants' \in [Grant -> GrantRow \cup {None}]
        /\ producers' \in [Name -> {"none", "agent", "person"}]
    BY <2>1, <2>3, OfferType, MintType
  <2>5. requests' \in [Request -> RequestRow \cup {None}]
    BY <2>1, <2>2 DEF TypeOK, RequestRow
  <2> QED
    BY <1>2, <2>4, <2>5 DEF Allow, TypeOK
<1>3. ASSUME NEW g \in Grant, RevokeGrant(g)
      PROVE  TypeOK'
  BY <1>3, ZenonT(40) DEF RevokeGrant, LiveGrant, TypeOK, GrantRow
<1>4. ASSUME NEW n \in Name, NEW offer \in Offer, MakeGrant(n, offer)
      PROVE  TypeOK'
  <2>1. PICK g \in Grant : Mint(g, n, offer, None, None, TRUE)
    BY <1>4 DEF MakeGrant
  <2>2. /\ grants' \in [Grant -> GrantRow \cup {None}]
        /\ producers' \in [Name -> {"none", "agent", "person"}]
    BY <2>1, OfferType, MintType
  <2> QED
    BY <1>4, <2>2 DEF MakeGrant, TypeOK
<1>5. ASSUME NEW a \in Account, SeedAccount(a)
      PROVE  TypeOK'
  BY <1>5 DEF SeedAccount, TypeOK
<1>6. ASSUME NEW a \in Account, ForgetAccount(a)
      PROVE  TypeOK'
  <2>1. \A g \in Grant : grants[g] # None =>
          [grants[g] EXCEPT !.accounts = @ \ {a}] \in GrantRow
    BY DEF TypeOK, GrantRow
  <2> QED
    BY <1>6, <2>1 DEF ForgetAccount, TypeOK
<1> QED
  BY <1>1, <1>2, <1>3, <1>4, <1>5, <1>6 DEF People

LEMMA ClientsType ==
  ASSUME TypeOK, DeskHolds, Clients
  PROVE  TypeOK'
<1>1. ASSUME NEW c \in Client, RegisterClient(c)
      PROVE  TypeOK'
  BY <1>1 DEF RegisterClient, TypeOK
<1>2. ASSUME NEW r \in Request, NEW c \in Client, Authorize(r, c)
      PROVE  TypeOK'
  BY <1>2 DEF Authorize, TypeOK, RequestRow
<1>3. ASSUME NEW d \in Desk, NEW c \in Client, NEW r \in Request, LoadCode(d, c, r)
      PROVE  TypeOK'
  BY <1>3 DEF LoadCode, TypeOK, DeskRow
<1>4. ASSUME NEW d \in Desk, NEW c \in Client, NEW p \in Pair, LoadRefresh(d, c, p)
      PROVE  TypeOK'
  BY <1>4 DEF LoadRefresh, TypeOK, DeskRow
<1>5. ASSUME NEW d \in Desk, NEW r \in Request, ExchangeCode(d, r)
      PROVE  TypeOK'
  <2>1. requests[r] \in RequestRow /\ requests[r].grant # None
    BY <1>5 DEF ExchangeCode, DeskHolds, TypeOK
  <2>2. requests[r].grant \in Grant /\ requests[r].client \in Client
    BY <2>1 DEF RequestRow
  <2>3. pairs \in [Pair -> PairRow \cup {None}]
    BY DEF TypeOK
  <2>4. desk[d] # None /\ Issue(d, pairs, requests[r].grant, requests[r].client)
    BY <1>5 DEF ExchangeCode
  <2>5. /\ pairs' \in [Pair -> PairRow \cup {None}]
        /\ desk' \in [Desk -> DeskRow \cup {None}]
    BY <2>2, <2>3, <2>4, IssueType
  <2>6. requests' \in [Request -> RequestRow \cup {None}]
    BY <1>5, <2>1 DEF ExchangeCode, TypeOK, RequestRow
  <2> QED
    BY <1>5, <2>5, <2>6 DEF ExchangeCode, TypeOK
<1>6. ASSUME NEW d \in Desk, NEW p \in Pair, ExchangeRefresh(d, p)
      PROVE  TypeOK'
  <2> DEFINE spent == [pairs EXCEPT ![p].refresh = FALSE]
  <2>1. pairs[p] \in PairRow
    BY <1>6 DEF ExchangeRefresh, DeskHolds, TypeOK
  <2>2. pairs[p].grant \in Grant /\ pairs[p].client \in Client
    BY <2>1 DEF PairRow
  <2>3. spent \in [Pair -> PairRow \cup {None}]
    BY <2>1 DEF TypeOK, PairRow
  <2>4. desk[d] # None /\ Issue(d, spent, pairs[p].grant, pairs[p].client)
    BY <1>6 DEF ExchangeRefresh
  <2> HIDE DEF spent
  <2>5. /\ pairs' \in [Pair -> PairRow \cup {None}]
        /\ desk' \in [Desk -> DeskRow \cup {None}]
    BY <2>2, <2>3, <2>4, IssueType
  <2> QED
    BY <1>6, <2>5 DEF ExchangeRefresh, TypeOK
<1>7. ASSUME NEW d \in Desk, LeaveDesk(d)
      PROVE  TypeOK'
  BY <1>7 DEF LeaveDesk, TypeOK
<1> QED
  BY <1>1, <1>2, <1>3, <1>4, <1>5, <1>6, <1>7 DEF Clients

LEMMA TimeType ==
  ASSUME TypeOK, Time
  PROVE  TypeOK'
<1>1. ASSUME NEW r \in Request, LapseRequest(r)
      PROVE  TypeOK'
  <2>1. requests[r] \in RequestRow
    BY <1>1 DEF LapseRequest, Pending, TypeOK
  <2>2. [requests[r] EXCEPT !.open = FALSE] \in RequestRow
    BY <2>1 DEF RequestRow
  <2> QED
    BY <1>1, <2>2 DEF LapseRequest, TypeOK
<1>2. ASSUME NEW r \in Request, LapseCode(r)
      PROVE  TypeOK'
  <2>1. requests[r] \in RequestRow
    BY <1>2 DEF LapseCode, TypeOK
  <2>2. [requests[r] EXCEPT !.code = "lapsed"] \in RequestRow
    BY <2>1 DEF RequestRow
  <2> QED
    BY <1>2, <2>2 DEF LapseCode, TypeOK
<1>3. ASSUME NEW p \in Pair, EndAccess(p)
      PROVE  TypeOK'
  <2>1. pairs[p] \in PairRow
    BY <1>3 DEF EndAccess, TypeOK
  <2>2. [pairs[p] EXCEPT !.access = FALSE] \in PairRow
    BY <2>1 DEF PairRow
  <2> QED
    BY <1>3, <2>2 DEF EndAccess, TypeOK
<1>4. ASSUME NEW p \in Pair, EndRefresh(p)
      PROVE  TypeOK'
  <2>1. pairs[p] \in PairRow
    BY <1>4 DEF EndRefresh, TypeOK
  <2>2. [pairs[p] EXCEPT !.refresh = FALSE] \in PairRow
    BY <2>1 DEF PairRow
  <2> QED
    BY <1>4, <2>2 DEF EndRefresh, TypeOK
<1> QED
  BY <1>1, <1>2, <1>3, <1>4 DEF Time

LEMMA PipeType ==
  ASSUME TypeOK, Pipe
  PROVE  TypeOK'
<1>1. ASSUME NEW g \in Grant, AttachToken(g)
      PROVE  TypeOK'
  BY <1>1, ViewType DEF AttachToken, LiveGrant, TypeOK
<1>2. ASSUME NEW g \in Grant, AttachLatest(g)
      PROVE  TypeOK'
  BY <1>2, ViewType DEF AttachLatest, LiveGrant, TypeOK
<1>3. ASSUME NEW g \in Grant, AttachNew(g)
      PROVE  TypeOK'
  <2> DEFINE all == [capabilities |-> Capability, accounts |-> Accounts]
  <2>1. Mint(g, Local, all, None, None, FALSE)
    BY <1>3 DEF AttachNew
  <2>2. Local \in Name /\ Accounts \subseteq Account
    BY GrantsOK DEF Accounts
  <2>3. /\ grants' \in [Grant -> GrantRow \cup {None}]
        /\ producers' \in [Name -> {"none", "agent", "person"}]
    BY <2>1, <2>2, MintType
  <2>4. grants'[g] \in GrantRow
    BY <2>1, <2>2, <2>3 DEF Mint, GrantRow, TypeOK
  <2>5. pipe' \in ViewRow
    BY <1>3, <2>4 DEF AttachNew, View, ViewRow, GrantRow
  <2> QED
    BY <1>3, <2>3, <2>5 DEF AttachNew, TypeOK
<1>4. CASE ClosePipe
  BY <1>4 DEF ClosePipe, TypeOK
<1> QED
  BY <1>1, <1>2, <1>3, <1>4 DEF Pipe

\* What a call answers is one of these.
SaysSomething(c) == \E capability, A : A \subseteq Within(c) /\ Says(c, capability, A)

LEMMA ToolsSay ==
  ASSUME NEW c \in Call,
         Observe(c) \/ Ask(c) \/ Suggest(c) \/ Assess(c) \/ ReadBundles(c)
  PROVE  calls[c] # None /\ SaysSomething(c)
  BY DEF Observe, Ask, Suggest, Assess, ReadBundles, SaysSomething

LEMMA CallsType ==
  ASSUME TypeOK, Calls, \A p \in Pair : pairs[p] # None => pairs[p].grant \in Grant
  PROVE  TypeOK'
<1> SUFFICES ASSUME NEW c \in Call,
               \/ \E p \in Pair : LoadAccess(c, p)
               \/ \E g \in Grant : LoadGrant(c, g)
               \/ ReadPipe(c)
               \/ Observe(c) \/ Ask(c) \/ Suggest(c) \/ Assess(c) \/ ReadBundles(c)
               \/ End(c)
             PROVE TypeOK'
  BY DEF Calls
<1>1. ASSUME NEW p \in Pair, LoadAccess(c, p)
      PROVE  TypeOK'
  BY <1>1, ViewType, BeginType DEF LoadAccess, LiveGrant
<1>2. ASSUME NEW g \in Grant, LoadGrant(c, g)
      PROVE  TypeOK'
  BY <1>2, ViewType, BeginType DEF LoadGrant, LiveGrant
<1>3. CASE ReadPipe(c)
  <2>1. pipe \in ViewRow
    BY <1>3 DEF ReadPipe, TypeOK
  <2> QED
    BY <1>3, <2>1, BeginType DEF ReadPipe
<1>4. CASE Observe(c) \/ Ask(c) \/ Suggest(c) \/ Assess(c) \/ ReadBundles(c)
  <2>1. PICK capability, A : A \subseteq Within(c) /\ Says(c, capability, A)
    BY <1>4, ToolsSay DEF SaysSomething
  <2>2. A \subseteq Account
    BY <1>4, <2>1, ToolsSay, WithinType
  <2> QED
    BY <2>1, <2>2, SaysType
<1>5. CASE End(c)
  BY <1>5 DEF End, TypeOK
<1> QED
  BY <1>1, <1>2, <1>3, <1>4, <1>5

-----------------------------------------------------------------------------
(* Logins                                                                  *)

\* A request that was agreed to and the grant agreed on point at each other.
RequestsHold ==
  \A r \in Request :
    requests[r] # None /\ requests[r].grant # None =>
      /\ grants[requests[r].grant] # None
      /\ grants[requests[r].grant].request = r

\* What a pair was had for is spent, and was of the pair's own login.
PairsHold ==
  \A p \in Pair : pairs[p] # None =>
    /\ grants[pairs[p].grant].request \in Request
    /\ pairs[p].client = grants[pairs[p].grant].client
    /\ \A r \in Request : pairs[p].from = r =>
         requests[r] # None /\ requests[r].used /\ requests[r].grant = pairs[p].grant
    /\ \A q \in Pair : pairs[p].from = q =>
         pairs[q] # None /\ ~pairs[q].refresh /\ pairs[q].grant = pairs[p].grant

\* A login speaks as an agent.
AgentsSpeak ==
  \A g \in Grant : grants[g] # None /\ grants[g].request # None =>
    producers[grants[g].producer] = "agent"

LoginInv ==
  /\ TypeOK
  /\ DeskHolds
  /\ RequestsHold
  /\ PairsHold
  /\ AgentsSpeak
  /\ SpentOnce
  /\ OneRefreshWorks
  /\ AgreedOnce
  /\ HeldByItsClient

\* Everything LoginInv speaks of, but for the types.
logins == <<producers, requests, grants, pairs, desk>>

\* A step that changes nothing of them keeps it.
LEMMA LoginsUnchanged ==
  ASSUME LoginInv, TypeOK', UNCHANGED logins
  PROVE  LoginInv'
  BY DEF LoginInv, logins, DeskHolds, RequestsHold, PairsHold, AgentsSpeak, SpentOnce,
         OneRefreshWorks, AgreedOnce, HeldByItsClient

\* A grant keeps who it is for and how it came to be.
LEMMA GrantsKept ==
  ASSUME LoginInv, TypeOK', UNCHANGED <<producers, requests, pairs, desk>>,
         \A g \in Grant :
           /\ (grants'[g] = None) = (grants[g] = None)
           /\ grants[g] # None =>
                /\ grants'[g].request = grants[g].request
                /\ grants'[g].client = grants[g].client
                /\ grants'[g].producer = grants[g].producer
  PROVE  LoginInv'
<1>1. DeskHolds' /\ SpentOnce' /\ OneRefreshWorks'
  BY DEF LoginInv, DeskHolds, SpentOnce, OneRefreshWorks
<1>2. \A p \in Pair : pairs[p] # None => pairs[p].grant \in Grant
  BY DEF LoginInv, TypeOK, PairRow
<1>3. \A r \in Request : requests[r] # None /\ requests[r].grant # None =>
        requests[r].grant \in Grant
  BY DEF LoginInv, TypeOK, RequestRow
<1>4. RequestsHold'
  BY <1>3 DEF LoginInv, RequestsHold
<1>5. PairsHold' /\ HeldByItsClient'
  BY <1>2 DEF LoginInv, PairsHold, HeldByItsClient
<1>6. AgentsSpeak'
  BY DEF LoginInv, AgentsSpeak
<1>7. AgreedOnce'
  BY DEF LoginInv, AgreedOnce
<1> QED
  BY <1>1, <1>4, <1>5, <1>6, <1>7 DEF LoginInv

\* What minting changes, and for whom.
LEMMA MintChanges ==
  ASSUME TypeOK, NEW g \in Grant, NEW n \in Name, NEW offer,
         offer.capabilities \subseteq Capability, offer.accounts \subseteq Account,
         NEW client \in Client \cup {None}, NEW r \in Request \cup {None},
         NEW held \in BOOLEAN, Mint(g, n, offer, client, r, held)
  PROVE  /\ grants[g] = None
         /\ grants'[g] # None
         /\ grants'[g].request = r
         /\ grants'[g].client = client
         /\ grants'[g].producer = n
         /\ \A h \in Grant \ {g} : grants'[h] = grants[h]
         /\ \A m \in Name : producers[m] = "agent" => producers'[m] = "agent"
         /\ producers[n] # "person" => producers'[n] = "agent"
<1>1. grants'[g] = [producer |-> n, capabilities |-> offer.capabilities,
        accounts |-> offer.accounts, client |-> client, request |-> r,
        held |-> held, revoked |-> FALSE]
  BY DEF Mint, TypeOK
<1>2. grants'[g] # None
  <2>1. grants'[g] \in GrantRow
    BY <1>1 DEF GrantRow
  <2> QED
    BY <2>1, NoneIsNoRow
<1> QED
  BY <1>1, <1>2 DEF Mint, NextIn, TypeOK

\* A grant that is not of a login.
LEMMA MintKeeps ==
  ASSUME LoginInv, TypeOK', NEW g \in Grant, NEW n \in Name, NEW offer,
         offer.capabilities \subseteq Capability, offer.accounts \subseteq Account,
         NEW held \in BOOLEAN, Mint(g, n, offer, None, None, held),
         UNCHANGED <<requests, pairs, desk>>
  PROVE  LoginInv'
<1>1. /\ grants[g] = None
      /\ grants'[g].request = None
      /\ \A h \in Grant \ {g} : grants'[h] = grants[h]
      /\ \A m \in Name : producers[m] = "agent" => producers'[m] = "agent"
  BY MintChanges DEF LoginInv
<1>2. \A p \in Pair : pairs[p] # None =>
        pairs[p].grant \in Grant /\ grants[pairs[p].grant] # None
  BY DEF LoginInv, TypeOK, PairRow, HeldByItsClient
<1>3. \A r \in Request : requests[r] # None /\ requests[r].grant # None =>
        requests[r].grant \in Grant
  BY DEF LoginInv, TypeOK, RequestRow
<1>4. DeskHolds' /\ SpentOnce' /\ OneRefreshWorks'
  BY DEF LoginInv, DeskHolds, SpentOnce, OneRefreshWorks
<1>5. RequestsHold'
  BY <1>1, <1>3 DEF LoginInv, RequestsHold
<1>6. PairsHold' /\ HeldByItsClient'
  BY <1>1, <1>2 DEF LoginInv, PairsHold, HeldByItsClient
<1>7. AgentsSpeak'
  <2>1. \A h \in Grant : grants[h] # None => grants[h].producer \in Name
    BY DEF LoginInv, TypeOK, GrantRow
  <2> QED
    BY <1>1, <2>1 DEF LoginInv, AgentsSpeak
<1>8. AgreedOnce'
  BY <1>1, NoneIsNoRow, GrantsOK DEF LoginInv, AgreedOnce
<1> QED
  BY <1>4, <1>5, <1>6, <1>7, <1>8 DEF LoginInv

\* What the person agrees to is the login's, and it had been agreed to by no
\* other tab.
LEMMA AllowKeeps ==
  ASSUME LoginInv, TypeOK', NEW r \in Request, NEW offer \in Offer, Allow(r, offer)
  PROVE  LoginInv'
<1> DEFINE client == requests[r].client
           name   == NameOf[client]
<1>1. PICK g \in Grant :
        /\ Mint(g, name, offer, client, r, FALSE)
        /\ requests' = [requests EXCEPT ![r].grant = g, ![r].code = "fresh"]
  BY DEF Allow
<1>2. /\ requests[r] \in RequestRow /\ requests[r] # None
      /\ requests[r].grant = None
      /\ producers[name] # "person"
      /\ UNCHANGED <<clients, mail, pairs, desk, pipe, calls>>
  BY DEF Allow, Pending, MaySpeak, LoginInv, TypeOK
<1>3. client \in Client /\ name \in Name
  BY <1>2, GrantsOK DEF RequestRow
<1>4. /\ requests' \in [Request -> RequestRow \cup {None}]
      /\ requests'[r].grant = g /\ requests'[r].client = client
      /\ requests'[r].used = requests[r].used
      /\ requests'[r] # None
      /\ \A q \in Request \ {r} : requests'[q] = requests[q]
  <2> DEFINE agreed == [requests[r] EXCEPT !.grant = g, !.code = "fresh"]
  <2>1. /\ agreed \in RequestRow
        /\ agreed.grant = g /\ agreed.client = client /\ agreed.used = requests[r].used
    BY <1>2 DEF RequestRow
  <2>2. requests' = [requests EXCEPT ![r] = agreed]
    BY <1>1, <1>2 DEF LoginInv, TypeOK
  <2> HIDE DEF agreed, client
  <2>3. requests \in [Request -> RequestRow \cup {None}]
    BY DEF LoginInv, TypeOK
  <2>4. agreed # None
    BY <2>1, NoneIsNoRow
  <2>5. requests'[r] = agreed /\ \A q \in Request \ {r} : requests'[q] = requests[q]
    BY <2>2, <2>3
  <2>6. requests' \in [Request -> RequestRow \cup {None}]
    BY <2>1, <2>2, <2>3
  <2> QED
    BY <2>1, <2>4, <2>5, <2>6
<1>5. /\ grants[g] = None
      /\ grants'[g] # None
      /\ grants'[g].request = r
      /\ grants'[g].client = client
      /\ grants'[g].producer = name
      /\ \A h \in Grant \ {g} : grants'[h] = grants[h]
      /\ \A m \in Name : producers[m] = "agent" => producers'[m] = "agent"
      /\ producers'[name] = "agent"
  <2> HIDE DEF client, name
  <2>1. TypeOK /\ producers[name] # "person"
    BY <1>2 DEF LoginInv
  <2>2. offer.capabilities \subseteq Capability /\ offer.accounts \subseteq Account
    BY OfferType
  <2>3. client \in Client \cup {None} /\ name \in Name /\ r \in Request \cup {None}
    BY <1>3
  <2>4. Mint(g, name, offer, client, r, FALSE)
    BY <1>1
  <2> QED
    BY <2>1, <2>2, <2>3, <2>4, MintChanges
<1> HIDE DEF client, name
<1>6. \A p \in Pair : pairs[p] # None =>
        /\ pairs[p].grant \in Grant /\ grants[pairs[p].grant] # None
        /\ pairs[p].grant # g
  BY <1>5 DEF LoginInv, TypeOK, PairRow, HeldByItsClient
<1>7. \A q \in Request : requests[q] # None /\ requests[q].grant # None =>
        requests[q].grant \in Grant /\ requests[q].grant # g
  BY <1>5 DEF LoginInv, TypeOK, RequestRow, RequestsHold
<1>8. DeskHolds'
  BY <1>2, <1>4, GrantsOK DEF LoginInv, DeskHolds
<1>9. RequestsHold'
  BY <1>4, <1>5, <1>7 DEF LoginInv, RequestsHold
<1>10. PairsHold' /\ HeldByItsClient'
  BY <1>2, <1>4, <1>5, <1>6, GrantsOK DEF LoginInv, PairsHold, HeldByItsClient
<1>11. AgentsSpeak'
  <2>1. \A h \in Grant : grants[h] # None => grants[h].producer \in Name
    BY DEF LoginInv, TypeOK, GrantRow
  <2> QED
    BY <1>5, <2>1 DEF LoginInv, AgentsSpeak
<1>12. AgreedOnce'
  BY <1>2, <1>4, <1>5, GrantsOK DEF LoginInv, AgreedOnce
<1>13. SpentOnce' /\ OneRefreshWorks'
  <2>1. SpentOnce'
    BY <1>2 DEF LoginInv, SpentOnce
  <2>2. \A q \in Request, p \in Pair :
          pairs[p] # None /\ requests'[q] # None /\ requests'[q].grant = pairs[p].grant
          => requests'[q].used
    BY <1>4, <1>6 DEF LoginInv, OneRefreshWorks
  <2> QED
    BY <1>2, <2>1, <2>2 DEF LoginInv, OneRefreshWorks
<1> QED
  BY <1>8, <1>9, <1>10, <1>11, <1>12, <1>13 DEF LoginInv

\* A request is begun, or its time or its code's runs out.
LEMMA RequestsKeep ==
  ASSUME LoginInv, TypeOK', NEW r \in Request,
         UNCHANGED <<producers, grants, pairs, desk>>,
         requests'[r] # None,
         \A q \in Request \ {r} : requests'[q] = requests[q],
         \/ requests[r] = None /\ requests'[r].grant = None
         \/ /\ requests[r] # None
            /\ requests'[r].grant = requests[r].grant
            /\ requests'[r].client = requests[r].client
            /\ requests'[r].used = requests[r].used
  PROVE  LoginInv'
<1>1. \A p \in Pair : pairs[p] # None =>
        pairs[p].grant \in Grant /\ pairs[p].grant # None
  BY GrantsOK DEF LoginInv, TypeOK, PairRow
<1>2. DeskHolds'
  BY DEF LoginInv, DeskHolds
<1>3. RequestsHold'
  BY DEF LoginInv, RequestsHold
<1>4. PairsHold' /\ HeldByItsClient' /\ SpentOnce' /\ AgentsSpeak'
  BY <1>1 DEF LoginInv, PairsHold, HeldByItsClient, SpentOnce, AgentsSpeak
<1>5. AgreedOnce'
  BY DEF LoginInv, AgreedOnce
<1>6. OneRefreshWorks'
  <2>1. \A p \in Pair, q \in Request :
          pairs[p] # None /\ requests'[q] # None /\ requests'[q].grant = pairs[p].grant
          => requests'[q].used
    BY <1>1 DEF LoginInv, OneRefreshWorks
  <2> QED
    BY <2>1 DEF LoginInv, OneRefreshWorks
<1> QED
  BY <1>2, <1>3, <1>4, <1>5, <1>6 DEF LoginInv

\* A desk looks something up, or is left.
LEMMA DesksKeep ==
  ASSUME LoginInv, TypeOK', DeskHolds', UNCHANGED <<producers, requests, grants, pairs>>
  PROVE  LoginInv'
  BY DEF LoginInv, RequestsHold, PairsHold, AgentsSpeak, SpentOnce, OneRefreshWorks,
         AgreedOnce, HeldByItsClient

\* Tokens of a pair end.
LEMMA PairsEnd ==
  ASSUME LoginInv, TypeOK', UNCHANGED <<producers, requests, grants, desk>>,
         \A p \in Pair :
           /\ (pairs'[p] = None) = (pairs[p] = None)
           /\ pairs[p] # None =>
                /\ pairs'[p].grant = pairs[p].grant
                /\ pairs'[p].client = pairs[p].client
                /\ pairs'[p].holder = pairs[p].holder
                /\ pairs'[p].from = pairs[p].from
                /\ pairs'[p].refresh => pairs[p].refresh
  PROVE  LoginInv'
<1>1. DeskHolds' /\ RequestsHold' /\ AgentsSpeak' /\ AgreedOnce'
  BY DEF LoginInv, DeskHolds, RequestsHold, AgentsSpeak, AgreedOnce
<1>2. PairsHold' /\ HeldByItsClient'
  BY DEF LoginInv, PairsHold, HeldByItsClient
<1>3. SpentOnce'
  BY DEF LoginInv, SpentOnce
<1>4. OneRefreshWorks'
  BY DEF LoginInv, OneRefreshWorks
<1> QED
  BY <1>1, <1>2, <1>3, <1>4 DEF LoginInv

\* A pair is issued, for what its desk holds, which is spent by it: every
\* other pair is as it was, and no other refresh token of the grant works.
Issued(d, p, g) ==
  /\ desk[d] # None
  /\ pairs[p] = None
  /\ pairs'[p] # None
  /\ pairs'[p].grant = g
  /\ pairs'[p].client = desk[d].client
  /\ pairs'[p].holder = desk[d].client
  /\ pairs'[p].from = desk[d].presents
  /\ grants[g] # None
  /\ grants[g].request \in Request
  /\ grants[g].client = desk[d].client
  /\ \A q \in Pair \ {p} :
       /\ (pairs'[q] = None) = (pairs[q] = None)
       /\ pairs[q] # None =>
            /\ pairs'[q].grant = pairs[q].grant
            /\ pairs'[q].client = pairs[q].client
            /\ pairs'[q].holder = pairs[q].holder
            /\ pairs'[q].from = pairs[q].from
            /\ pairs[q].from # desk[d].presents
            /\ pairs'[q].refresh => pairs[q].refresh /\ pairs[q].grant # g
  /\ \A r \in Request : requests[r] # None =>
       /\ requests'[r] # None
       /\ requests'[r].grant = requests[r].grant
       /\ requests'[r].client = requests[r].client
       /\ requests[r].used => requests'[r].used
       /\ requests[r].grant = g => requests'[r].used
  /\ \A r \in Request : requests'[r] # None => requests[r] # None
  /\ \A r \in Request : desk[d].presents = r => requests[r].grant = g /\ requests'[r].used
  /\ \A q \in Pair : desk[d].presents = q => ~pairs'[q].refresh /\ pairs[q].grant = g
  /\ desk' = [desk EXCEPT ![d] = None]
  /\ UNCHANGED <<producers, grants>>

LEMMA IssueKeeps ==
  ASSUME LoginInv, TypeOK', NEW d \in Desk, NEW p \in Pair, NEW g \in Grant, Issued(d, p, g)
  PROVE  LoginInv'
<1> USE DEF Issued
<1>1. \A e \in Desk : desk'[e] # None => desk'[e] = desk[e] /\ desk[e] # None
  BY DEF LoginInv, TypeOK
<1>2. \A q \in Pair : pairs[q] # None => q # p /\ pairs'[q] # None
  OBVIOUS
<1>3. DeskHolds'
  <2> SUFFICES ASSUME NEW e \in Desk, desk'[e] # None
               PROVE  /\ \A r \in Request : desk[e].presents = r =>
                           /\ requests'[r] # None
                           /\ requests'[r].grant # None
                           /\ requests'[r].client = desk[e].client
                      /\ \A q \in Pair : desk[e].presents = q =>
                           /\ pairs'[q] # None
                           /\ pairs'[q].client = desk[e].client
    BY <1>1 DEF DeskHolds
  <2> QED
    BY <1>1, <1>2 DEF LoginInv, DeskHolds
<1>4. RequestsHold' /\ AgentsSpeak'
  BY DEF LoginInv, RequestsHold, AgentsSpeak
<1>5. AgreedOnce'
  BY DEF LoginInv, AgreedOnce
<1>6. \A q \in Pair : pairs'[q] # None /\ q # p => pairs[q] # None
  OBVIOUS
<1>7. HeldByItsClient'
  BY <1>6 DEF LoginInv, HeldByItsClient
<1>8. \A r \in Request : desk[d].presents = r => requests[r] # None
  BY DEF LoginInv, DeskHolds
<1>9. \A q \in Pair : desk[d].presents = q => pairs[q] # None
  BY DEF LoginInv, DeskHolds
<1>10. PairsHold'
  <2> SUFFICES ASSUME NEW o \in Pair, pairs'[o] # None
               PROVE  /\ grants[pairs'[o].grant].request \in Request
                      /\ pairs'[o].client = grants[pairs'[o].grant].client
                      /\ \A r \in Request : pairs'[o].from = r =>
                           /\ requests'[r] # None /\ requests'[r].used
                           /\ requests'[r].grant = pairs'[o].grant
                      /\ \A q \in Pair : pairs'[o].from = q =>
                           /\ pairs'[q] # None /\ ~pairs'[q].refresh
                           /\ pairs'[q].grant = pairs'[o].grant
    BY DEF PairsHold
  <2>1. CASE o = p
    BY <2>1, <1>2, <1>8, <1>9
  <2>2. CASE o # p
    BY <2>2, <1>2, <1>6 DEF LoginInv, PairsHold
  <2> QED
    BY <2>1, <2>2
<1>11. SpentOnce'
  BY <1>6 DEF LoginInv, SpentOnce
<1>12. OneRefreshWorks'
  BY <1>6 DEF LoginInv, OneRefreshWorks
<1> QED
  BY <1>3, <1>4, <1>5, <1>7, <1>10, <1>11, <1>12 DEF LoginInv

LEMMA ExchangeCodeKeeps ==
  ASSUME LoginInv, TypeOK', NEW d \in Desk, NEW r \in Request, ExchangeCode(d, r)
  PROVE  LoginInv'
<1> DEFINE g == requests[r].grant
           row == [grant |-> g, client |-> requests[r].client, holder |-> desk[d].client,
                   from |-> desk[d].presents, access |-> TRUE, refresh |-> TRUE]
<1>1. /\ desk[d] # None /\ desk[d].presents = r
      /\ ~requests[r].used
      /\ requests' = [requests EXCEPT ![r].used = TRUE]
      /\ UNCHANGED <<producers, grants>>
      /\ desk' = [desk EXCEPT ![d] = None]
  BY DEF ExchangeCode, Issue
<1>2. PICK p \in Pair : NextIn(pairs, p) /\ pairs' = [pairs EXCEPT ![p] = row]
  BY DEF ExchangeCode, Issue
<1>3. /\ requests[r] \in RequestRow /\ requests[r] # None
      /\ g \in Grant
      /\ requests[r].client = desk[d].client
      /\ grants[g] # None
      /\ grants[g].request = r
      /\ grants[g].client = desk[d].client
  <2>1. requests[r] # None /\ g # None /\ requests[r].client = desk[d].client
    BY <1>1 DEF LoginInv, DeskHolds
  <2>2. requests[r] \in RequestRow
    BY <2>1 DEF LoginInv, TypeOK
  <2>3. g \in Grant
    BY <2>1, <2>2 DEF RequestRow
  <2>4. grants[g] # None /\ grants[g].request = r
    BY <2>1 DEF LoginInv, RequestsHold
  <2>5. grants[g].client = requests[r].client
    BY <2>3, <2>4 DEF LoginInv, AgreedOnce
  <2> QED
    BY <2>1, <2>2, <2>3, <2>4, <2>5
<1>4. /\ pairs[p] = None /\ pairs'[p] = row /\ pairs'[p] # None
      /\ \A q \in Pair \ {p} : pairs'[q] = pairs[q]
  <2>1. pairs \in [Pair -> PairRow \cup {None}]
    BY DEF LoginInv, TypeOK
  <2>2. desk[d].client \in Client /\ desk[d].presents \in Request \cup Pair
    BY <1>1 DEF LoginInv, TypeOK, DeskRow
  <2>3. row \in PairRow
    BY <1>3, <2>2 DEF PairRow
  <2> QED
    BY <1>2, <2>1, <2>3, NoneIsNoRow DEF NextIn
<1>5. \A q \in Pair \ {p} : pairs[q] # None =>
        pairs[q].from # r /\ pairs[q].grant # g
  BY <1>1, <1>3 DEF LoginInv, PairsHold, OneRefreshWorks
<1>6. /\ requests'[r] # None /\ requests'[r].used /\ requests'[r].grant = g
      /\ requests'[r].client = requests[r].client
      /\ \A q \in Request \ {r} : requests'[q] = requests[q]
  <2> DEFINE spent == [requests[r] EXCEPT !.used = TRUE]
  <2>1. /\ spent \in RequestRow /\ spent.used /\ spent.grant = g
        /\ spent.client = requests[r].client
    BY <1>3 DEF RequestRow
  <2>2. requests' = [requests EXCEPT ![r] = spent]
    BY <1>1 DEF LoginInv, TypeOK
  <2> HIDE DEF spent
  <2> QED
    BY <2>1, <2>2, NoneIsNoRow DEF LoginInv, TypeOK
<1>7. \A q \in Request : requests[q] # None /\ requests[q].grant = g => q = r
  BY <1>3, GrantsOK DEF LoginInv, RequestsHold
<1>8. /\ \A q \in Pair : desk[d].presents = q => ~pairs'[q].refresh /\ pairs[q].grant = g
      /\ \A q \in Request : desk[d].presents = q => requests[q].grant = g
  BY <1>1, GrantsOK
<1>9. /\ pairs'[p].grant = g /\ pairs'[p].client = desk[d].client
      /\ pairs'[p].holder = desk[d].client /\ pairs'[p].from = desk[d].presents
  BY <1>3, <1>4
<1>10. \A q \in Request : requests[q] # None =>
         /\ requests'[q] # None
         /\ requests'[q].grant = requests[q].grant
         /\ requests'[q].client = requests[q].client
         /\ requests[q].used => requests'[q].used
         /\ requests[q].grant = g => requests'[q].used
  BY <1>3, <1>6, <1>7
<1>11. \A q \in Request : requests'[q] # None => requests[q] # None
  BY <1>3, <1>6
<1>12. \A q \in Pair \ {p} :
         /\ (pairs'[q] = None) = (pairs[q] = None)
         /\ pairs[q] # None =>
              /\ pairs'[q].grant = pairs[q].grant
              /\ pairs'[q].client = pairs[q].client
              /\ pairs'[q].holder = pairs[q].holder
              /\ pairs'[q].from = pairs[q].from
              /\ pairs[q].from # desk[d].presents
              /\ pairs'[q].refresh => pairs[q].refresh /\ pairs[q].grant # g
  BY <1>1, <1>4, <1>5
<1>13. grants[g].request \in Request
  BY <1>3
<1> HIDE DEF g, row
<1>14. Issued(d, p, g)
  BY <1>1, <1>3, <1>4, <1>6, <1>8, <1>9, <1>10, <1>11, <1>12, <1>13 DEF Issued
<1> QED
  BY <1>3, <1>14, IssueKeeps

LEMMA ExchangeRefreshKeeps ==
  ASSUME LoginInv, TypeOK', NEW d \in Desk, NEW o \in Pair, ExchangeRefresh(d, o)
  PROVE  LoginInv'
<1> DEFINE g == pairs[o].grant
           spent == [pairs[o] EXCEPT !.refresh = FALSE]
           table == [pairs EXCEPT ![o] = spent]
           row == [grant |-> g, client |-> pairs[o].client, holder |-> desk[d].client,
                   from |-> desk[d].presents, access |-> TRUE, refresh |-> TRUE]
<1>1. /\ desk[d] # None /\ desk[d].presents = o
      /\ pairs[o].refresh
      /\ UNCHANGED <<producers, requests, grants>>
      /\ desk' = [desk EXCEPT ![d] = None]
  BY DEF ExchangeRefresh, Issue
<1>2. pairs \in [Pair -> PairRow \cup {None}]
  BY DEF LoginInv, TypeOK
<1>3. /\ pairs[o] \in PairRow /\ pairs[o] # None
      /\ g \in Grant
      /\ pairs[o].client = desk[d].client
      /\ grants[g] # None
      /\ grants[g].request \in Request
      /\ grants[g].client = desk[d].client
  <2>1. pairs[o] # None /\ pairs[o].client = desk[d].client
    BY <1>1 DEF LoginInv, DeskHolds
  <2>2. pairs[o] \in PairRow
    BY <1>2, <2>1
  <2>3. g \in Grant
    BY <2>2 DEF PairRow
  <2> QED
    BY <2>1, <2>2, <2>3 DEF LoginInv, PairsHold, HeldByItsClient
<1>4. table = [pairs EXCEPT ![o].refresh = FALSE]
  BY <1>2
<1>5. PICK p \in Pair : NextIn(table, p) /\ pairs' = [table EXCEPT ![p] = row]
  BY <1>4 DEF ExchangeRefresh, Issue
<1>6. /\ spent \in PairRow /\ spent # None /\ ~spent.refresh
      /\ spent.grant = g /\ spent.client = pairs[o].client
      /\ spent.holder = pairs[o].holder /\ spent.from = pairs[o].from
  BY <1>3, NoneIsNoRow DEF PairRow
<1>7. /\ p # o /\ pairs[p] = None /\ pairs'[p] = row /\ pairs'[p] # None
      /\ pairs'[o] = spent
      /\ \A q \in Pair \ {p, o} : pairs'[q] = pairs[q]
  <2>1. desk[d].client \in Client /\ desk[d].presents \in Request \cup Pair
    BY <1>1 DEF LoginInv, TypeOK, DeskRow
  <2>2. row \in PairRow
    BY <1>3, <2>1 DEF PairRow
  <2> HIDE DEF row, spent
  <2>3. table[p] = None
    BY <1>5 DEF NextIn
  <2> QED
    BY <1>2, <1>5, <1>6, <2>2, <2>3, NoneIsNoRow
<1>8. \A q \in Pair : pairs[q] # None => pairs[q].from # o
  BY <1>1 DEF LoginInv, PairsHold
<1>9. \A q \in Pair \ {o} : pairs[q] # None /\ pairs[q].refresh => pairs[q].grant # g
  BY <1>1, <1>3 DEF LoginInv, OneRefreshWorks
<1>10. \A r \in Request : requests[r] # None /\ requests[r].grant = g => requests[r].used
  BY <1>3 DEF LoginInv, OneRefreshWorks
<1>11. /\ \A r \in Request : desk[d].presents = r => requests[r].grant = g
       /\ \A r \in Request : requests'[r] # None => requests[r] # None
       /\ \A r \in Request : requests[r] # None =>
            /\ requests'[r] # None
            /\ requests'[r].grant = requests[r].grant
            /\ requests'[r].client = requests[r].client
            /\ requests[r].used => requests'[r].used
            /\ requests[r].grant = g => requests'[r].used
  BY <1>1, <1>10, GrantsOK
<1>12. /\ pairs'[p].grant = g /\ pairs'[p].client = desk[d].client
       /\ pairs'[p].holder = desk[d].client /\ pairs'[p].from = desk[d].presents
  BY <1>3, <1>7
<1> HIDE DEF spent, row, table
<1>13. \A q \in Pair \ {p} :
         /\ (pairs'[q] = None) = (pairs[q] = None)
         /\ pairs[q] # None =>
              /\ pairs'[q].grant = pairs[q].grant
              /\ pairs'[q].client = pairs[q].client
              /\ pairs'[q].holder = pairs[q].holder
              /\ pairs'[q].from = pairs[q].from
              /\ pairs[q].from # desk[d].presents
              /\ pairs'[q].refresh => pairs[q].refresh /\ pairs[q].grant # g
  BY <1>1, <1>3, <1>6, <1>7, <1>8, <1>9
<1>14. \A q \in Pair : desk[d].presents = q => ~pairs'[q].refresh /\ pairs[q].grant = g
  BY <1>1, <1>6, <1>7
<1> HIDE DEF g
<1>15. Issued(d, p, g)
  BY <1>1, <1>3, <1>7, <1>11, <1>12, <1>13, <1>14, GrantsOK DEF Issued
<1> QED
  BY <1>3, <1>15, IssueKeeps

LEMMA PeopleKeep ==
  ASSUME LoginInv, TypeOK', People
  PROVE  LoginInv'
<1>1. CASE ReviewerActs
  <2>1. \A n \in Name : producers[n] = "agent" => producers'[n] = "agent"
    BY <1>1 DEF ReviewerActs, LoginInv, TypeOK
  <2>2. \A g \in Grant : grants[g] # None => grants[g].producer \in Name
    BY DEF LoginInv, TypeOK, GrantRow
  <2>3. AgentsSpeak'
    BY <1>1, <2>1, <2>2 DEF ReviewerActs, LoginInv, AgentsSpeak
  <2>4. /\ DeskHolds' /\ RequestsHold' /\ PairsHold' /\ SpentOnce'
        /\ OneRefreshWorks' /\ AgreedOnce' /\ HeldByItsClient'
    BY <1>1 DEF ReviewerActs, LoginInv, DeskHolds, RequestsHold, PairsHold, SpentOnce,
                OneRefreshWorks, AgreedOnce, HeldByItsClient
  <2> QED
    BY <2>3, <2>4 DEF LoginInv
<1>2. ASSUME NEW r \in Request, NEW offer \in Offer, Allow(r, offer)
      PROVE  LoginInv'
  BY <1>2, AllowKeeps
<1>3. ASSUME NEW g \in Grant, RevokeGrant(g)
      PROVE  LoginInv'
  <2>1. grants[g] \in GrantRow
    BY <1>3 DEF RevokeGrant, LiveGrant, LoginInv, TypeOK
  <2> DEFINE over == [grants[g] EXCEPT !.revoked = TRUE]
  <2>2. /\ over \in GrantRow /\ over.request = grants[g].request
        /\ over.client = grants[g].client /\ over.producer = grants[g].producer
    BY <2>1 DEF GrantRow
  <2>3. grants' = [grants EXCEPT ![g] = over]
    BY <1>3 DEF RevokeGrant, LoginInv, TypeOK
  <2> HIDE DEF over
  <2>4. grants[g] # None /\ over # None
    BY <2>1, <2>2, NoneIsNoRow
  <2>5. grants \in [Grant -> GrantRow \cup {None}]
    BY DEF LoginInv, TypeOK
  <2>6. \A h \in Grant :
          /\ (grants'[h] = None) = (grants[h] = None)
          /\ grants[h] # None =>
               /\ grants'[h].request = grants[h].request
               /\ grants'[h].client = grants[h].client
               /\ grants'[h].producer = grants[h].producer
    BY <2>2, <2>3, <2>4, <2>5
  <2> QED
    BY <1>3, <2>6, GrantsKept DEF RevokeGrant
<1>4. ASSUME NEW n \in Name, NEW offer \in Offer, MakeGrant(n, offer)
      PROVE  LoginInv'
  <2>1. PICK g \in Grant : Mint(g, n, offer, None, None, TRUE)
    BY <1>4 DEF MakeGrant
  <2> QED
    BY <1>4, <2>1, OfferType, MintKeeps DEF MakeGrant
<1>5. ASSUME NEW a \in Account, SeedAccount(a)
      PROVE  LoginInv'
  BY <1>5, LoginsUnchanged DEF SeedAccount, logins
<1>6. ASSUME NEW a \in Account, ForgetAccount(a)
      PROVE  LoginInv'
  <2>1. \A g \in Grant :
          /\ (grants'[g] = None) = (grants[g] = None)
          /\ grants[g] # None =>
               /\ grants'[g].request = grants[g].request
               /\ grants'[g].client = grants[g].client
               /\ grants'[g].producer = grants[g].producer
    <3> SUFFICES ASSUME NEW g \in Grant, grants[g] # None
                 PROVE  /\ grants'[g] # None
                        /\ grants'[g].request = grants[g].request
                        /\ grants'[g].client = grants[g].client
                        /\ grants'[g].producer = grants[g].producer
      BY <1>6 DEF ForgetAccount
    <3> DEFINE kept == [grants[g] EXCEPT !.accounts = @ \ {a}]
    <3>1. grants[g] \in GrantRow
      BY DEF LoginInv, TypeOK
    <3>2. /\ kept \in GrantRow /\ kept.request = grants[g].request
          /\ kept.client = grants[g].client /\ kept.producer = grants[g].producer
      BY <3>1 DEF GrantRow
    <3>3. grants'[g] = kept
      BY <1>6 DEF ForgetAccount
    <3> HIDE DEF kept
    <3> QED
      BY <3>2, <3>3, NoneIsNoRow
  <2> QED
    BY <1>6, <2>1, GrantsKept DEF ForgetAccount
<1> QED
  BY <1>1, <1>2, <1>3, <1>4, <1>5, <1>6 DEF People

LEMMA ClientsKeep ==
  ASSUME LoginInv, TypeOK', Clients
  PROVE  LoginInv'
<1>1. ASSUME NEW c \in Client, RegisterClient(c)
      PROVE  LoginInv'
  BY <1>1, LoginsUnchanged DEF RegisterClient, logins
<1>2. ASSUME NEW r \in Request, NEW c \in Client, Authorize(r, c)
      PROVE  LoginInv'
  <2> DEFINE row == [client |-> c, open |-> TRUE, grant |-> None, code |-> "none",
                     used |-> FALSE]
  <2>1. row # None /\ row.grant = None
    <3>1. row \in RequestRow
      BY DEF RequestRow
    <3>2. row.grant = None
      OBVIOUS
    <3> HIDE DEF row
    <3> QED
      BY <3>1, <3>2, NoneIsNoRow
  <2>2. requests' = [requests EXCEPT ![r] = row] /\ requests[r] = None
    BY <1>2 DEF Authorize
  <2> HIDE DEF row
  <2> QED
    BY <1>2, <2>1, <2>2, RequestsKeep DEF Authorize, LoginInv, TypeOK
<1>3. ASSUME NEW d \in Desk, NEW c \in Client, NEW r \in Request, LoadCode(d, c, r)
      PROVE  LoginInv'
  <2>1. DeskHolds'
    BY <1>3, GrantsOK DEF LoadCode, LoginInv, TypeOK, DeskHolds
  <2> QED
    BY <1>3, <2>1, DesksKeep DEF LoadCode
<1>4. ASSUME NEW d \in Desk, NEW c \in Client, NEW p \in Pair, LoadRefresh(d, c, p)
      PROVE  LoginInv'
  <2>1. DeskHolds'
    BY <1>4, GrantsOK DEF LoadRefresh, LoginInv, TypeOK, DeskHolds
  <2> QED
    BY <1>4, <2>1, DesksKeep DEF LoadRefresh
<1>5. ASSUME NEW d \in Desk, NEW r \in Request, ExchangeCode(d, r)
      PROVE  LoginInv'
  BY <1>5, ExchangeCodeKeeps
<1>6. ASSUME NEW d \in Desk, NEW p \in Pair, ExchangeRefresh(d, p)
      PROVE  LoginInv'
  BY <1>6, ExchangeRefreshKeeps
<1>7. ASSUME NEW d \in Desk, LeaveDesk(d)
      PROVE  LoginInv'
  <2>1. DeskHolds'
    BY <1>7 DEF LeaveDesk, LoginInv, TypeOK, DeskHolds
  <2> QED
    BY <1>7, <2>1, DesksKeep DEF LeaveDesk
<1> QED
  BY <1>1, <1>2, <1>3, <1>4, <1>5, <1>6, <1>7 DEF Clients

LEMMA TimeKeeps ==
  ASSUME LoginInv, TypeOK', Time
  PROVE  LoginInv'
<1>1. ASSUME NEW r \in Request, LapseRequest(r) \/ LapseCode(r)
      PROVE  LoginInv'
  <2>1. requests[r] \in RequestRow /\ requests[r] # None
    BY <1>1 DEF LapseRequest, LapseCode, Pending, LoginInv, TypeOK
  <2>2. PICK row \in RequestRow :
          /\ requests' = [requests EXCEPT ![r] = row]
          /\ row.grant = requests[r].grant
          /\ row.client = requests[r].client
          /\ row.used = requests[r].used
    <3>1. CASE LapseRequest(r)
      <4>1. [requests[r] EXCEPT !.open = FALSE] \in RequestRow
        BY <2>1 DEF RequestRow
      <4> QED
        BY <2>1, <3>1, <4>1 DEF LapseRequest, LoginInv, TypeOK, RequestRow
    <3>2. CASE LapseCode(r)
      <4>1. [requests[r] EXCEPT !.code = "lapsed"] \in RequestRow
        BY <2>1 DEF RequestRow
      <4> QED
        BY <2>1, <3>2, <4>1 DEF LapseCode, LoginInv, TypeOK, RequestRow
    <3> QED
      BY <1>1, <3>1, <3>2
  <2> QED
    BY <1>1, <2>1, <2>2, NoneIsNoRow, RequestsKeep
       DEF LapseRequest, LapseCode, LoginInv, TypeOK
<1>2. ASSUME NEW p \in Pair, EndAccess(p) \/ EndRefresh(p)
      PROVE  LoginInv'
  <2>1. pairs[p] \in PairRow /\ pairs[p] # None
    BY <1>2 DEF EndAccess, EndRefresh, LoginInv, TypeOK
  <2>2. PICK row \in PairRow :
          /\ pairs' = [pairs EXCEPT ![p] = row]
          /\ row.grant = pairs[p].grant
          /\ row.client = pairs[p].client
          /\ row.holder = pairs[p].holder
          /\ row.from = pairs[p].from
          /\ row.refresh => pairs[p].refresh
    <3>1. CASE EndAccess(p)
      <4>1. [pairs[p] EXCEPT !.access = FALSE] \in PairRow
        BY <2>1 DEF PairRow
      <4> QED
        BY <2>1, <3>1, <4>1 DEF EndAccess, LoginInv, TypeOK, PairRow
    <3>2. CASE EndRefresh(p)
      <4>1. [pairs[p] EXCEPT !.refresh = FALSE] \in PairRow
        BY <2>1 DEF PairRow
      <4> QED
        BY <2>1, <3>2, <4>1 DEF EndRefresh, LoginInv, TypeOK, PairRow
    <3> QED
      BY <1>2, <3>1, <3>2
  <2> QED
    BY <1>2, <2>1, <2>2, NoneIsNoRow, PairsEnd DEF EndAccess, EndRefresh, LoginInv, TypeOK
<1> QED
  BY <1>1, <1>2 DEF Time

LEMMA PipeKeeps ==
  ASSUME LoginInv, TypeOK', Pipe
  PROVE  LoginInv'
<1>1. ASSUME NEW g \in Grant, AttachNew(g)
      PROVE  LoginInv'
  <2>1. Local \in Name /\ Accounts \subseteq Account
    BY GrantsOK DEF Accounts
  <2>2. Mint(g, Local, [capabilities |-> Capability, accounts |-> Accounts],
             None, None, FALSE)
    BY <1>1 DEF AttachNew
  <2> QED
    BY <1>1, <2>1, <2>2, MintKeeps DEF AttachNew
<1>2. CASE ClosePipe \/ \E g \in Grant : AttachToken(g) \/ AttachLatest(g)
  BY <1>2, LoginsUnchanged DEF ClosePipe, AttachToken, AttachLatest, logins
<1> QED
  BY <1>1, <1>2 DEF Pipe

LEMMA CallsKeep ==
  ASSUME LoginInv, TypeOK', Calls
  PROVE  LoginInv'
<1>1. UNCHANGED logins
  BY DEF Calls, LoadAccess, LoadGrant, ReadPipe, Begin, Observe, Ask, Suggest, Assess,
         ReadBundles, Says, End, logins
<1> QED
  BY <1>1, LoginsUnchanged

LEMMA LoginStep == LoginInv /\ [Next]_vars => LoginInv'
<1> SUFFICES ASSUME LoginInv, [Next]_vars PROVE LoginInv'
  OBVIOUS
<1>1. TypeOK /\ DeskHolds
  BY DEF LoginInv
<1>2. \A p \in Pair : pairs[p] # None => pairs[p].grant \in Grant
  BY <1>1 DEF TypeOK, PairRow
<1>3. CASE People
  BY <1>1, <1>3, PeopleType, PeopleKeep
<1>4. CASE Clients
  BY <1>1, <1>4, ClientsType, ClientsKeep
<1>5. CASE Time
  BY <1>1, <1>5, TimeType, TimeKeeps
<1>6. CASE Pipe
  BY <1>1, <1>6, PipeType, PipeKeeps
<1>7. CASE Calls
  BY <1>1, <1>2, <1>7, CallsType, CallsKeep
<1>8. CASE UNCHANGED vars
  <2>1. TypeOK'
    BY <1>1, <1>8 DEF TypeOK, vars
  <2> QED
    BY <1>8, <2>1, LoginsUnchanged DEF vars, logins
<1> QED
  BY <1>3, <1>4, <1>5, <1>6, <1>7, <1>8 DEF Next

\* What desks, requests, pairs and grants say of one another, for any number
\* of clients, logins, tabs and token requests: the inductive invariant.
THEOREM LoginInvariant == Spec => []LoginInv
<1>1. Init => LoginInv
  BY GrantsOK DEF Init, LoginInv, TypeOK, DeskHolds, RequestsHold, PairsHold,
     AgentsSpeak, SpentOnce, OneRefreshWorks, AgreedOnce, HeldByItsClient
<1> QED
  BY <1>1, LoginStep, PTL DEF Spec

\* TypeOK is an invariant of Grants.
THEOREM TypeCorrect == Spec => []TypeOK
BY LoginInvariant, PTL DEF LoginInv

\* A code and a refresh token are each good for one pair.
THEOREM CredentialsAreSpentOnce == Spec => []SpentOnce
BY LoginInvariant, PTL DEF LoginInv

\* A grant has at most one refresh token that works.
THEOREM RotationLeavesOne == Spec => []OneRefreshWorks
BY LoginInvariant, PTL DEF LoginInv

\* A login is agreed to once, for its client.
THEOREM LoginIsAgreedOnce == Spec => []AgreedOnce
BY LoginInvariant, PTL DEF LoginInv

\* Tokens are in the hands of the client that was agreed to.
THEOREM TokensAreTheClients == Spec => []HeldByItsClient
BY LoginInvariant, PTL DEF LoginInv

\* No login speaks as the person.
THEOREM ThePersonIsNoAgent == Spec => []NoAgentIsThePerson
<1>1. LoginInv => NoAgentIsThePerson
  BY DEF LoginInv, AgentsSpeak, NoAgentIsThePerson
<1> QED
  BY <1>1, LoginInvariant, PTL


-----------------------------------------------------------------------------
(* What a call may speak of, although its view is older                    *)

\* Accounts that have, or have had, a row.
Had(accounts) == \A a \in accounts : mail[a] # "never"

\* Of a view's accounts, the ones whose row is the first of its id are still
\* its grant's: an account that goes takes every grant's hold on it along, and
\* what has its id later is another's.
Covers(view) ==
  /\ grants[view.grant] # None
  /\ Had(view.accounts)
  /\ \A a \in view.accounts : mail[a] = "here" => a \in grants[view.grant].accounts

ViewsHold ==
  /\ \A g \in Grant : grants[g] # None => Had(grants[g].accounts)
  /\ pipe # None => Covers(pipe)
  /\ \A c \in Call : calls[c] # None => Covers(calls[c].view)

LEMMA ViewCovers ==
  ASSUME ViewsHold, NEW g \in Grant, LiveGrant(g)
  PROVE  Covers(View(g))
  BY DEF ViewsHold, Covers, View, LiveGrant

LEMMA ViewsThere ==
  ASSUME TypeOK, ViewsHold
  PROVE  /\ pipe # None => pipe \in ViewRow /\ Covers(pipe)
         /\ \A c \in Call : calls[c] # None => calls[c].view \in ViewRow /\ Covers(calls[c].view)
  BY DEF TypeOK, ViewsHold, CallRow

\* A step after which a view that covered does so still: no account comes or
\* goes, or it takes each grant's hold along.
LEMMA ViewsOn ==
  ASSUME TypeOK, ViewsHold, UNCHANGED <<pipe, calls>>,
         \A a \in Account :
           /\ mail[a] # "never" => mail'[a] # "never"
           /\ mail'[a] = "here" => mail[a] \in {"here", "never"},
         \A g \in Grant : grants[g] # None =>
           /\ grants'[g] # None
           /\ \A a \in Account : mail'[a] = "here" /\ a \in grants[g].accounts
                                 => a \in grants'[g].accounts,
         \A g \in Grant : grants'[g] # None => grants'[g].accounts \subseteq Account /\ Had(grants'[g].accounts)
  PROVE  ViewsHold'
<1>1. ASSUME NEW view \in ViewRow, Covers(view) PROVE Covers(view)'
  BY <1>1 DEF Covers, Had, ViewRow
<1>2. \A g \in Grant : grants'[g] # None => Had(grants[g].accounts)'
  BY DEF Had
<1> QED
  BY <1>1, <1>2, ViewsThere DEF ViewsHold

\* Minting, which may be for a pipe.
LEMMA MintCovers ==
  ASSUME TypeOK, ViewsHold, UNCHANGED <<mail, calls>>, NEW g \in Grant, NEW n \in Name, NEW offer,
         offer.capabilities \subseteq Capability, offer.accounts \subseteq Account,
         NEW client \in Client \cup {None}, NEW r \in Request \cup {None},
         NEW held \in BOOLEAN, Mint(g, n, offer, client, r, held),
         pipe' = pipe \/ pipe' = View(g)'
  PROVE  ViewsHold'
<1>1. grants'[g] # None /\ \A h \in Grant \ {g} : grants'[h] = grants[h]
  BY MintChanges
<1>2. grants[g] = None /\ grants'[g].accounts = offer.accounts
  BY DEF Mint, NextIn, TypeOK
<1>3. \A h \in Grant : grants'[h] # None => Had(grants[h].accounts)'
  BY <1>1, <1>2 DEF Mint, Accounts, Had, ViewsHold
<1>4. ASSUME NEW view \in ViewRow, Covers(view) PROVE Covers(view)'
  BY <1>1, <1>2, <1>4 DEF Covers, Had, ViewRow
<1>5. Covers(View(g))'
  BY <1>1, <1>3 DEF Covers, View
<1> QED
  BY <1>3, <1>4, <1>5, ViewsThere DEF ViewsHold

LEMMA PeopleCover ==
  ASSUME TypeOK, ViewsHold, People
  PROVE  ViewsHold'
<1>1. \A g \in Grant : grants[g] # None =>
        grants[g] \in GrantRow /\ grants[g].accounts \subseteq Account /\ Had(grants[g].accounts)
  BY DEF TypeOK, GrantRow, ViewsHold
<1>2. CASE ReviewerActs
  BY <1>1, <1>2, ViewsOn DEF ReviewerActs, Had
<1>3. ASSUME NEW r \in Request, NEW offer \in Offer, Allow(r, offer) PROVE ViewsHold'
  <2>1. requests[r] \in RequestRow
    BY <1>3 DEF Allow, Pending, TypeOK
  <2>2. requests[r].client \in Client /\ NameOf[requests[r].client] \in Name
    BY <2>1, GrantsOK DEF RequestRow
  <2>3. PICK g \in Grant : Mint(g, NameOf[requests[r].client], offer, requests[r].client, r, FALSE)
    BY <1>3 DEF Allow
  <2>4. UNCHANGED <<mail, calls, pipe>>
    BY <1>3 DEF Allow
  <2> QED
    BY <2>2, <2>3, <2>4, OfferType, MintCovers
<1>4. ASSUME NEW g \in Grant, RevokeGrant(g) PROVE ViewsHold'
  <2>1. UNCHANGED <<pipe, calls, mail>>
    BY <1>4 DEF RevokeGrant
  <2>2. ASSUME NEW h \in Grant
        PROVE  /\ (grants'[h] = None) = (grants[h] = None)
               /\ grants[h] # None => grants'[h].accounts = grants[h].accounts
    <3>1. CASE h # g
      BY <1>4, <3>1 DEF RevokeGrant, TypeOK
    <3>2. CASE h = g
      <4>1. grants[g] \in GrantRow /\ grants'[g] = [grants[g] EXCEPT !.revoked = TRUE]
        BY <1>1, <1>4 DEF RevokeGrant, LiveGrant, TypeOK
      <4>2. grants'[g] \in GrantRow /\ grants'[g].accounts = grants[g].accounts
        BY <4>1 DEF GrantRow
      <4> QED
        BY <3>2, <4>1, <4>2, NoneIsNoRow
    <3> QED
      BY <3>1, <3>2
  <2> QED
    BY <1>1, <2>1, <2>2, ViewsOn DEF Had
<1>5. ASSUME NEW n \in Name, NEW offer \in Offer, MakeGrant(n, offer) PROVE ViewsHold'
  <2>1. PICK g \in Grant : Mint(g, n, offer, None, None, TRUE)
    BY <1>5 DEF MakeGrant
  <2>2. UNCHANGED <<mail, calls, pipe>>
    BY <1>5 DEF MakeGrant
  <2> QED
    BY <2>1, <2>2, OfferType, MintCovers
<1>6. ASSUME NEW a \in Account, SeedAccount(a) PROVE ViewsHold'
  <2>1. UNCHANGED <<pipe, calls, grants>>
    BY <1>6 DEF SeedAccount
  <2>2. ASSUME NEW o \in Account
        PROVE  /\ mail[o] # "never" => mail'[o] # "never"
               /\ mail'[o] = "here" => mail[o] \in {"here", "never"}
    BY <1>6, <2>2 DEF SeedAccount, TypeOK
  <2> QED
    BY <1>1, <2>1, <2>2, ViewsOn DEF Had
<1>7. ASSUME NEW a \in Account, ForgetAccount(a) PROVE ViewsHold'
  <2>1. UNCHANGED <<pipe, calls>>
    BY <1>7 DEF ForgetAccount
  <2>2. ASSUME NEW o \in Account
        PROVE  /\ mail[o] # "never" => mail'[o] # "never"
               /\ mail'[o] = "here" => mail[o] = "here" /\ o # a
    BY <1>7, <2>2 DEF ForgetAccount, TypeOK
  <2>3. ASSUME NEW g \in Grant, grants[g] # None
        PROVE  grants'[g] # None /\ grants'[g].accounts = grants[g].accounts \ {a}
    <3>1. grants[g] \in GrantRow /\ grants'[g] = [grants[g] EXCEPT !.accounts = @ \ {a}]
      BY <1>1, <1>7, <2>3 DEF ForgetAccount
    <3>2. grants'[g] \in GrantRow /\ grants'[g].accounts = grants[g].accounts \ {a}
      BY <3>1 DEF GrantRow
    <3> QED
      BY <3>2, NoneIsNoRow
  <2>4. \A g \in Grant : grants[g] = None => grants'[g] = None
    BY <1>7 DEF ForgetAccount
  <2> QED
    BY <1>1, <2>1, <2>2, <2>3, <2>4, ViewsOn DEF Had
<1> QED
  BY <1>2, <1>3, <1>4, <1>5, <1>6, <1>7 DEF People

LEMMA PipeCovers ==
  ASSUME TypeOK, ViewsHold, Pipe
  PROVE  ViewsHold'
<1>1. ASSUME NEW g \in Grant, AttachToken(g) \/ AttachLatest(g) PROVE ViewsHold'
  <2>1. LiveGrant(g) /\ pipe' = View(g) /\ UNCHANGED <<grants, mail, calls>>
    BY <1>1 DEF AttachToken, AttachLatest
  <2>2. Covers(View(g))
    BY <2>1, ViewCovers
  <2> QED
    BY <2>1, <2>2 DEF ViewsHold, Covers, Had
<1>2. ASSUME NEW g \in Grant, AttachNew(g) PROVE ViewsHold'
  <2> DEFINE all == [capabilities |-> Capability, accounts |-> Accounts]
  <2>1. /\ Mint(g, Local, all, None, None, FALSE) /\ pipe' = View(g)'
        /\ UNCHANGED <<mail, calls>>
    BY <1>2 DEF AttachNew
  <2>2. /\ Local \in Name /\ Accounts \subseteq Account
        /\ all.capabilities = Capability /\ all.accounts = Accounts
    BY GrantsOK DEF Accounts
  <2> HIDE DEF all
  <2> QED
    BY <2>1, <2>2, MintCovers
<1>3. CASE ClosePipe
  BY <1>3 DEF ClosePipe, ViewsHold, Covers, Had
<1> QED
  BY <1>1, <1>2, <1>3 DEF Pipe

LEMMA CallsCover ==
  ASSUME TypeOK, ViewsHold, Calls, \A p \in Pair : pairs[p] # None => pairs[p].grant \in Grant
  PROVE  ViewsHold'
<1> SUFFICES ASSUME NEW c \in Call,
               \/ \E p \in Pair : LoadAccess(c, p)
               \/ \E g \in Grant : LoadGrant(c, g)
               \/ ReadPipe(c)
               \/ Observe(c) \/ Ask(c) \/ Suggest(c) \/ Assess(c) \/ ReadBundles(c)
               \/ End(c)
             PROVE ViewsHold'
  BY DEF Calls
<1>1. ASSUME NEW view \in ViewRow, Covers(view), Begin(c, view) PROVE ViewsHold'
  <2>1. UNCHANGED <<grants, mail, pipe>> /\ calls'[c].view = view
    BY <1>1 DEF Begin, TypeOK
  <2>2. \A d \in Call \ {c} : calls'[d] = calls[d]
    BY <1>1 DEF Begin, TypeOK
  <2> QED
    BY <1>1, <2>1, <2>2 DEF ViewsHold, Covers, Had
<1>2. ASSUME NEW g \in Grant, LiveGrant(g), Begin(c, View(g)) PROVE ViewsHold'
  <2>1. View(g) \in ViewRow /\ Covers(View(g))
    BY <1>2, ViewType, ViewCovers DEF LiveGrant
  <2> QED
    BY <1>1, <1>2, <2>1
<1>3. ASSUME NEW p \in Pair, LoadAccess(c, p) PROVE ViewsHold'
  BY <1>2, <1>3 DEF LoadAccess
<1>4. ASSUME NEW g \in Grant, LoadGrant(c, g) PROVE ViewsHold'
  BY <1>2, <1>4 DEF LoadGrant
<1>5. CASE ReadPipe(c)
  BY <1>1, <1>5, ViewsThere DEF ReadPipe
<1>6. CASE SaysSomething(c)
  <2>1. PICK capability, A : Says(c, capability, A)
    BY <1>6 DEF SaysSomething
  <2>2. calls[c] \in CallRow
    BY <2>1 DEF Says, TypeOK
  <2>3. /\ UNCHANGED <<grants, mail, pipe>> /\ calls[c] # None
        /\ calls'[c].view = calls[c].view
        /\ \A d \in Call \ {c} : calls'[d] = calls[d]
    BY <2>1, <2>2 DEF Says, TypeOK, CallRow
  <2> QED
    BY <2>3 DEF ViewsHold, Covers, Had
<1>7. CASE End(c)
  <2>1. /\ UNCHANGED <<grants, mail, pipe>>
        /\ \A d \in Call : calls'[d] # None => calls'[d] = calls[d]
    BY <1>7 DEF End, TypeOK
  <2> QED
    BY <2>1 DEF ViewsHold, Covers, Had
<1> QED
  BY <1>3, <1>4, <1>5, <1>6, <1>7, ToolsSay

LEMMA ViewsStep ==
  ASSUME LoginInv, ViewsHold, [Next]_vars
  PROVE  ViewsHold'
<1>1. TypeOK /\ \A p \in Pair : pairs[p] # None => pairs[p].grant \in Grant
  BY DEF LoginInv, TypeOK, PairRow
<1>2. UNCHANGED <<grants, mail, pipe, calls>> => ViewsHold'
  BY DEF ViewsHold, Covers, Had
<1>3. Clients \/ Time => UNCHANGED <<grants, mail, pipe, calls>>
  BY DEF Clients, Time, RegisterClient, Authorize, LoadCode, LoadRefresh, ExchangeCode,
     ExchangeRefresh, LeaveDesk, LapseRequest, LapseCode, EndAccess, EndRefresh
<1>4. UNCHANGED vars => UNCHANGED <<grants, mail, pipe, calls>>
  BY DEF vars
<1> QED
  BY <1>1, <1>2, <1>3, <1>4, PeopleCover, PipeCovers, CallsCover DEF Next

\* What is said is of accounts that have a row and are the view's.
LEMMA SaidIsWithin ==
  ASSUME TypeOK, [Next]_vars, NEW c \in Call,
         calls[c] # None, calls'[c] # None, calls'[c].said # calls[c].said
  PROVE  calls'[c].said.accounts \subseteq Within(c)
<1>0. calls'[c] # calls[c]
  OBVIOUS
<1>1. Calls
  BY <1>0 DEF Next, vars, People, Clients, Time, Pipe, ReviewerActs, Allow, RevokeGrant,
     MakeGrant, SeedAccount, ForgetAccount, RegisterClient, Authorize, LoadCode,
     LoadRefresh, ExchangeCode, ExchangeRefresh, LeaveDesk, LapseRequest, LapseCode,
     EndAccess, EndRefresh, AttachToken, AttachLatest, AttachNew, ClosePipe
<1>2. PICK d \in Call :
        \/ \E view : Begin(d, view)
        \/ SaysSomething(d)
        \/ End(d)
  BY <1>1, ToolsSay DEF Calls, LoadAccess, LoadGrant, ReadPipe
<1>3. d = c
  BY <1>0, <1>2 DEF Begin, SaysSomething, Says, End, TypeOK
<1>4. SaysSomething(c)
  BY <1>2, <1>3 DEF Begin, End, TypeOK
<1>5. PICK capability, A : A \subseteq Within(c) /\ Says(c, capability, A)
  BY <1>4 DEF SaysSomething
<1>6. calls[c] \in CallRow
  BY DEF TypeOK
<1>7. calls'[c].said = [capability |-> capability, accounts |-> A]
  BY <1>5, <1>6 DEF Says, TypeOK, CallRow
<1> QED
  BY <1>5, <1>7

\* What ties a view to its grant holds through every step, although accounts
\* are forgotten and their ids used again (server._grant, cli forget_account).
THEOREM ViewsInvariant == Spec => []ViewsHold
<1>1. Init => ViewsHold
  BY DEF Init, ViewsHold
<1> QED
  BY <1>1, ViewsStep, LoginInvariant, PTL DEF Spec

\* What a call says anything about is mail its grant covers at that moment, or
\* has an id that went to a new account (_account and its kin, forget_account).
THEOREM CallsSpeakOfTheirOwn == Spec => SpeaksOfItsOwn
<1>1. TypeOK /\ ViewsHold /\ [Next]_vars =>
        \A c \in Call :
          calls[c] # None /\ calls'[c] # None /\ calls'[c].said # calls[c].said =>
            \A a \in calls'[c].said.accounts :
              a \in grants[calls[c].view.grant].accounts \/ mail[a] = "again"
  <2> SUFFICES ASSUME TypeOK, ViewsHold, [Next]_vars, NEW c \in Call,
                      calls[c] # None, calls'[c] # None, calls'[c].said # calls[c].said,
                      NEW a \in calls'[c].said.accounts
               PROVE  a \in grants[calls[c].view.grant].accounts \/ mail[a] = "again"
    OBVIOUS
  <2>1. a \in calls[c].view.accounts /\ mail[a] \in {"here", "again"}
    BY SaidIsWithin DEF Within, Accounts
  <2> QED
    BY <2>1, ViewsThere DEF Covers
<1> QED
  BY <1>1, TypeCorrect, ViewsInvariant, PTL DEF Spec, SpeaksOfItsOwn

-----------------------------------------------------------------------------
(* The promise                                                             *)

\* What Authority is shown of a grant that is there.
Shown(row) == [producer |-> row.producer, capabilities |-> row.capabilities,
               accounts |-> row.accounts]

LEMMA GivenShows ==
  ASSUME TypeOK, NEW g \in Grant
  PROVE  /\ grants[g] = None => Given[g] = None
         /\ grants[g] # None => /\ Given[g] = Shown(grants[g])
                               /\ Shown(grants[g]) \in Promise!Terms
                               /\ Given[g] # None
<1>1. CASE grants[g] = None
  BY <1>1 DEF Given
<1>2. CASE grants[g] # None
  <2>1. grants[g] \in GrantRow
    BY <1>2 DEF TypeOK
  <2>2. Shown(grants[g]) \in Promise!Terms
    BY <2>1 DEF Shown, GrantRow, Promise!Terms
  <2>3. Given[g] = Shown(grants[g])
    BY <1>2 DEF Given, Shown
  <2> QED
    BY <1>2, <2>2, <2>3, NoneIsNoRow DEF Promise!Terms
<1> QED
  BY <1>1, <1>2

\* A live grant stands, and its view is what was agreed to.
LEMMA LiveStands ==
  ASSUME TypeOK, NEW g \in Grant, LiveGrant(g)
  PROVE  Promise!Stands(g) /\ View(g) = Promise!ViewOf(g, Given[g])
<1>1. grants[g] # None /\ ~grants[g].revoked
  BY DEF LiveGrant
<1>2. Given[g] = Shown(grants[g]) /\ Given[g] # None
  BY <1>1, GivenShows
<1>3. g \notin Over
  BY <1>1 DEF Over
<1>4. /\ Given[g].producer = grants[g].producer
      /\ Given[g].capabilities = grants[g].capabilities
      /\ Given[g].accounts = grants[g].accounts
  BY <1>2 DEF Shown
<1> QED
  BY <1>2, <1>3, <1>4 DEF Promise!Stands, View, Promise!ViewOf

\* A step that leaves the grants, the pipe and the calls alone shows nothing.
LEMMA Unseen ==
  ASSUME UNCHANGED <<grants, pipe, calls>>
  PROVE  UNCHANGED Promise!vars
BY DEF Promise!vars, Given, Over

\* Minting is agreeing.
LEMMA MintGives ==
  ASSUME TypeOK, TypeOK', NEW g \in Grant, NEW n \in Name, NEW offer,
         offer.capabilities \subseteq Capability, offer.accounts \subseteq Account,
         NEW client \in Client \cup {None}, NEW r \in Request \cup {None},
         NEW held \in BOOLEAN, Mint(g, n, offer, client, r, held)
  PROVE  /\ Given[g] = None
         /\ g \notin Over
         /\ Given'[g] \in Promise!Terms
         /\ Given' = [Given EXCEPT ![g] = Given'[g]]
         /\ Over' = Over
         /\ View(g)' = Promise!ViewOf(g, Given'[g])
<1>1. /\ grants[g] = None
      /\ grants'[g] # None
      /\ \A h \in Grant \ {g} : grants'[h] = grants[h]
  BY MintChanges
<1>2. ~grants'[g].revoked
  BY DEF Mint, TypeOK
<1>3. Given'[g] = Shown(grants'[g]) /\ Shown(grants'[g]) \in Promise!Terms
  <2>1. grants'[g] \in GrantRow
    BY <1>1 DEF TypeOK
  <2> QED
    BY <1>1, <2>1 DEF Given, Shown, GrantRow, Promise!Terms
<1>4. Given' = [Given EXCEPT ![g] = Given'[g]]
  <2>1. \A h \in Grant \ {g} : Given'[h] = Given[h]
    BY <1>1 DEF Given
  <2>2. Given = [h \in Grant |-> Given[h]] /\ Given' = [h \in Grant |-> Given'[h]]
    BY DEF Given
  <2> QED
    BY <2>1, <2>2
<1>5. Over' = Over
  BY <1>1, <1>2 DEF Over
<1>6. View(g)' = Promise!ViewOf(g, Given'[g])
  BY <1>3 DEF View, Shown, Promise!ViewOf
<1> QED
  BY <1>1, <1>3, <1>4, <1>5, <1>6, GivenShows DEF Over

LEMMA PeopleAgree ==
  ASSUME TypeOK, TypeOK', People
  PROVE  Promise!Next \/ UNCHANGED Promise!vars
<1>1. CASE ReviewerActs
  BY <1>1, Unseen DEF ReviewerActs
<1>2. ASSUME NEW r \in Request, NEW offer \in Offer, Allow(r, offer)
      PROVE  Promise!Next
  <2>1. PICK g \in Grant :
          Mint(g, NameOf[requests[r].client], offer, requests[r].client, r, FALSE)
    BY <1>2 DEF Allow
  <2>2. requests[r].client \in Client /\ NameOf[requests[r].client] \in Name
    BY <1>2, GrantsOK DEF Allow, Pending, TypeOK, RequestRow
  <2>3. Promise!Agree(g)
    BY <1>2, <2>1, <2>2, OfferType, MintGives DEF Allow, Promise!Agree
  <2> QED
    BY <2>3 DEF Promise!Next, Promise!Promised
<1>3. ASSUME NEW g \in Grant, RevokeGrant(g)
      PROVE  Promise!Next
  <2>1. Promise!Stands(g)
    BY <1>3, LiveStands DEF RevokeGrant
  <2>2. /\ grants[g] \in GrantRow
        /\ grants' = [grants EXCEPT ![g].revoked = TRUE]
    BY <1>3 DEF RevokeGrant, LiveGrant, TypeOK
  <2>3. /\ grants'[g].revoked
        /\ grants'[g].producer = grants[g].producer
        /\ grants'[g].capabilities = grants[g].capabilities
        /\ grants'[g].accounts = grants[g].accounts
        /\ \A h \in Grant \ {g} : grants'[h] = grants[h]
    BY <2>2 DEF GrantRow, TypeOK
  <2>4. grants[g] # None /\ grants'[g] # None
    <3>1. grants'[g] \in GrantRow
      BY <2>2 DEF GrantRow, TypeOK
    <3> QED
      BY <1>3, <3>1, NoneIsNoRow DEF RevokeGrant, LiveGrant
  <2>5. Given' = Given /\ Over' = Over \cup {g}
    BY <2>3, <2>4 DEF Given, Over
  <2>6. Promise!TakeBack(g)
    BY <1>3, <2>1, <2>5 DEF RevokeGrant, Promise!TakeBack
  <2> QED
    BY <2>6 DEF Promise!Next, Promise!Promised
<1>4. ASSUME NEW n \in Name, NEW offer \in Offer, MakeGrant(n, offer)
      PROVE  Promise!Next
  <2>1. PICK g \in Grant : Mint(g, n, offer, None, None, TRUE)
    BY <1>4 DEF MakeGrant
  <2>2. Promise!Agree(g)
    BY <1>4, <2>1, OfferType, MintGives DEF MakeGrant, Promise!Agree
  <2> QED
    BY <2>2 DEF Promise!Next, Promise!Promised
<1>5. ASSUME NEW a \in Account, SeedAccount(a)
      PROVE  UNCHANGED Promise!vars
  BY <1>5, Unseen DEF SeedAccount
<1>6. ASSUME NEW a \in Account, ForgetAccount(a)
      PROVE  Promise!Next
  <2>1. \A g \in Grant :
          /\ grants[g] = None => grants'[g] = None
          /\ grants[g] # None => /\ grants'[g] = [grants[g] EXCEPT !.accounts = @ \ {a}]
                                 /\ grants[g] \in GrantRow
                                 /\ grants'[g] \in GrantRow
    <3> SUFFICES ASSUME NEW g \in Grant, grants[g] # None
                 PROVE  /\ grants'[g] = [grants[g] EXCEPT !.accounts = @ \ {a}]
                        /\ grants[g] \in GrantRow
                        /\ grants'[g] \in GrantRow
      BY <1>6 DEF ForgetAccount
    <3>1. grants[g] \in GrantRow
      BY DEF TypeOK
    <3>2. grants'[g] = [grants[g] EXCEPT !.accounts = @ \ {a}]
      BY <1>6 DEF ForgetAccount
    <3> QED
      BY <3>1, <3>2 DEF GrantRow
  <2>2. \A g \in Grant : grants[g] # None =>
          /\ grants'[g] # None
          /\ grants'[g].revoked = grants[g].revoked
          /\ Shown(grants'[g]) = [Shown(grants[g]) EXCEPT !.accounts = @ \ {a}]
    <3> SUFFICES ASSUME NEW g \in Grant, grants[g] # None
                 PROVE  /\ grants'[g] # None
                        /\ grants'[g].revoked = grants[g].revoked
                        /\ Shown(grants'[g]) = [Shown(grants[g]) EXCEPT !.accounts = @ \ {a}]
      OBVIOUS
    <3>1. /\ grants'[g] = [grants[g] EXCEPT !.accounts = @ \ {a}]
          /\ grants[g] \in GrantRow
          /\ grants'[g] \in GrantRow
      BY <2>1
    <3>2. /\ grants'[g].revoked = grants[g].revoked
          /\ grants'[g].producer = grants[g].producer
          /\ grants'[g].capabilities = grants[g].capabilities
          /\ grants'[g].accounts = grants[g].accounts \ {a}
      BY <3>1 DEF GrantRow
    <3>3. Shown(grants'[g]) = [Shown(grants[g]) EXCEPT !.accounts = @ \ {a}]
      BY <3>2 DEF Shown
    <3> QED
      BY <3>1, <3>2, <3>3, NoneIsNoRow
  <2>3. Over' = Over
    BY <2>1, <2>2 DEF Over
  <2>4. Given' = [g \in Grant |->
          IF Given[g] = None THEN None ELSE [Given[g] EXCEPT !.accounts = @ \ {a}]]
    <3>1. \A g \in Grant :
            Given'[g] = IF Given[g] = None THEN None
                        ELSE [Given[g] EXCEPT !.accounts = @ \ {a}]
      <4> SUFFICES ASSUME NEW g \in Grant
                   PROVE  Given'[g] = IF Given[g] = None THEN None
                                      ELSE [Given[g] EXCEPT !.accounts = @ \ {a}]
        OBVIOUS
      <4>1. CASE grants[g] = None
        BY <2>1, <4>1 DEF Given
      <4>2. CASE grants[g] # None
        <5>1. Given'[g] = Shown(grants'[g])
          BY <2>2, <4>2 DEF Given, Shown
        <5> QED
          BY <2>2, <4>2, <5>1, GivenShows
      <4> QED
        BY <4>1, <4>2
    <3>2. Given' = [g \in Grant |-> Given'[g]]
      BY DEF Given
    <3> QED
      BY <3>1, <3>2
  <2>5. Promise!Forget(a)
    BY <1>6, <2>3, <2>4 DEF ForgetAccount, Promise!Forget
  <2> QED
    BY <2>5 DEF Promise!Next, Promise!Promised
<1> QED
  BY <1>1, <1>2, <1>3, <1>4, <1>5, <1>6 DEF People

LEMMA PipeAgrees ==
  ASSUME TypeOK, TypeOK', Pipe
  PROVE  Promise!Next
<1>1. ASSUME NEW g \in Grant, pipe = None, LiveGrant(g), pipe' = View(g),
             UNCHANGED <<grants, calls>>
      PROVE  Promise!Next
  <2>1. Promise!Attach(g)
    BY <1>1, LiveStands DEF Promise!Attach, Given, Over
  <2> QED
    BY <2>1 DEF Promise!Next, Promise!Promised
<1>2. ASSUME NEW g \in Grant, AttachNew(g)
      PROVE  Promise!Next
  <2> DEFINE all == [capabilities |-> Capability, accounts |-> Accounts]
  <2>1. Mint(g, Local, all, None, None, FALSE)
    BY <1>2 DEF AttachNew
  <2>2. Local \in Name /\ Accounts \subseteq Account
    BY GrantsOK DEF Accounts
  <2>3. Promise!AgreeAttached(g, Local)
    <3>1. /\ Given[g] = None /\ g \notin Over /\ Over' = Over
          /\ Given'[g] \in Promise!Terms
          /\ Given' = [Given EXCEPT ![g] = Given'[g]]
          /\ View(g)' = Promise!ViewOf(g, Given'[g])
      BY <2>1, <2>2, MintGives
    <3>2. Given'[g].producer = Local
      <4>1. grants'[g] # None /\ grants'[g].producer = Local
        BY <2>1, <2>2, MintChanges
      <4> QED
        BY <4>1 DEF Given
    <3>3. pipe = None /\ pipe' = View(g)' /\ calls' = calls
      BY <1>2 DEF AttachNew
    <3> QED
      BY <3>1, <3>2, <3>3 DEF Promise!AgreeAttached
  <2>4. CASE GrantsOf(Local) = {}
    <3>1. Promise!For(Local) = {}
      BY <2>4 DEF Promise!For, GrantsOf, Given
    <3>2. Promise!AgreeAndAttach(g, Local)
      BY <2>3, <3>1 DEF Promise!AgreeAndAttach
    <3> QED
      BY <2>2, <3>2 DEF Promise!Next, Promise!Promised
  <2>5. ASSUME NEW h \in Grant, Latest(h, Local), grants[h].revoked
        PROVE  Promise!Next
    <3>1. grants[h] # None /\ grants[h].producer = Local
      BY <2>5 DEF Latest, GrantsOf
    <3>2. Given[h] # None /\ Given[h].producer = Local
      <4>1. Given[h] = Shown(grants[h]) /\ Given[h] # None
        BY <2>5, <3>1, GivenShows
      <4> QED
        BY <3>1, <4>1 DEF Shown
    <3>3. h \in Promise!For(Local) \cap Over
      <4>1. h \in Promise!For(Local)
        BY <2>5, <3>2 DEF Promise!For
      <4>2. h \in Over
        BY <2>5, <3>1 DEF Over
      <4> QED
        BY <4>1, <4>2
    <3>4. Promise!AgreeInItsPlace(g, Local)
      BY <2>3, <3>3 DEF Promise!AgreeInItsPlace
    <3> QED
      BY <2>2, <3>4 DEF Promise!Next, Promise!Departures
  <2> QED
    BY <1>2, <2>4, <2>5 DEF AttachNew
<1>3. CASE ClosePipe
  <2>1. Promise!Detach
    BY <1>3 DEF ClosePipe, Promise!Detach, Given, Over
  <2> QED
    BY <2>1 DEF Promise!Next, Promise!Promised
<1> QED
  BY <1>1, <1>2, <1>3 DEF Pipe, AttachToken, AttachLatest

LEMMA CallsAgree ==
  ASSUME TypeOK, ViewsHold, Calls
  PROVE  Promise!Next
<1> SUFFICES ASSUME NEW c \in Call,
               \/ \E p \in Pair : LoadAccess(c, p)
               \/ \E g \in Grant : LoadGrant(c, g)
               \/ ReadPipe(c)
               \/ Observe(c) \/ Ask(c) \/ Suggest(c) \/ Assess(c) \/ ReadBundles(c)
               \/ End(c)
             PROVE Promise!Next
  BY DEF Calls
<1>1. ASSUME NEW g \in Grant, LiveGrant(g), Begin(c, View(g))
      PROVE  Promise!Next
  <2>1. Promise!Begin(c, g)
    BY <1>1, LiveStands DEF Begin, Promise!Begin, Promise!Serve, Given, Over
  <2> QED
    BY <2>1 DEF Promise!Next, Promise!Promised
<1>2. ASSUME NEW p \in Pair, LoadAccess(c, p)
      PROVE  Promise!Next
  <2>1. pairs[p].grant \in Grant
    BY <1>2 DEF LoadAccess, TypeOK, PairRow
  <2> QED
    BY <1>1, <1>2, <2>1 DEF LoadAccess
<1>3. CASE ReadPipe(c)
  <2>1. Promise!Serve(c, pipe) /\ pipe # None
    BY <1>3 DEF ReadPipe, Begin, Promise!Serve, Given, Over
  <2>2. pipe.grant \in Grant /\ grants[pipe.grant] # None
    BY <2>1, ViewsThere DEF Covers, ViewRow
  <2>3. CASE LiveGrant(pipe.grant)
    <3>1. Promise!BeginAttached(c)
      BY <2>1, <2>2, <2>3, LiveStands DEF Promise!BeginAttached
    <3> QED
      BY <3>1 DEF Promise!Next, Promise!Promised
  <2>4. CASE ~LiveGrant(pipe.grant)
    <3>1. Promise!BeginOutlived(c)
      BY <2>1, <2>2, <2>4 DEF LiveGrant, Over, Promise!BeginOutlived
    <3> QED
      BY <3>1 DEF Promise!Next, Promise!Departures
  <2> QED
    BY <2>3, <2>4
<1>4. CASE Observe(c) \/ Ask(c) \/ Suggest(c) \/ Assess(c) \/ ReadBundles(c)
  <2>1. PICK capability, A : A \subseteq Within(c) /\ Says(c, capability, A)
    BY <1>4, ToolsSay DEF SaysSomething
  <2> DEFINE x == [capability |-> capability, accounts |-> A]
  <2>2. calls[c] \in CallRow
    BY <2>1 DEF Says, TypeOK
  <2>3. x \in Promise!Answer
    BY <2>1, <2>2 DEF Says, Within, CallRow, ViewRow, Promise!Answer
  <2>4. Promise!Say(c, x)
    BY <2>1 DEF Says, Within, Promise!Say, Given, Over
  <2> QED
    BY <2>3, <2>4 DEF Promise!Next, Promise!Promised
<1>5. CASE End(c)
  <2>1. Promise!End(c)
    BY <1>5 DEF End, Promise!End, Given, Over
  <2> QED
    BY <2>1 DEF Promise!Next, Promise!Promised
<1> QED
  BY <1>1, <1>2, <1>3, <1>4, <1>5 DEF LoadGrant

LEMMA StepKeepsAuthority ==
  ASSUME TypeOK, TypeOK', ViewsHold, [Next]_vars
  PROVE  Promise!Next \/ UNCHANGED Promise!vars
<1>1. Clients \/ Time \/ UNCHANGED vars => UNCHANGED <<grants, pipe, calls>>
  BY DEF Clients, RegisterClient, Authorize, LoadCode, LoadRefresh, ExchangeCode,
         ExchangeRefresh, LeaveDesk, Time, LapseRequest, LapseCode, EndAccess,
         EndRefresh, vars
<1> QED
  BY <1>1, Unseen, PeopleAgree, PipeAgrees, CallsAgree DEF Next

\* Grants implements Authority: with any number of clients, logins, tabs, token
\* requests and calls under way, a call by a token begins only under a grant
\* that stands, and no call says more than what it began under allowed.  A call
\* that has begun is not stopped by a revocation, and a pipe is bound only as
\* far as Authority's Departures: its calls begin under what it was attached
\* with, and the grant made for it may stand in for one that was revoked.
THEOREM AuthorityIsKept == Spec => KeepsAuthority
<1>1. Init => Promise!Init
  BY DEF Init, Promise!Init, Given, Over
<1>2. TypeOK /\ TypeOK' /\ ViewsHold /\ [Next]_vars => [Promise!Next]_(Promise!vars)
  BY StepKeepsAuthority
<1> QED
  BY <1>1, <1>2, TypeCorrect, ViewsInvariant, PTL DEF Spec, KeepsAuthority, Promise!Spec

=============================================================================
