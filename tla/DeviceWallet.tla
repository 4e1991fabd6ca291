---------------------------- MODULE DeviceWallet ----------------------------
(***************************************************************************)
(* The wallet of a phone, and its session with the bank.                    *)
(*                                                                         *)
(* The backend keeps no key: the account of a wallet is derived from the    *)
(* key its phone holds. It provisions an account on the network (friendbot, *)
(* then a USDC trustline) while the phone waits, and so it does with the    *)
(* accounts of the contacts, which all phones share. The phone saves its    *)
(* key, shows the account and reads its ledger. A flow that needs the bank  *)
(* first asks for a session: SEP-10, kept by the backend in memory, then    *)
(* SEP-12; the phone caches it until a minute before it expires.            *)
(*                                                                         *)
(* Requests of several phones overlap at each answer of the network; a      *)
(* phone or the backend may restart at any moment, and answers get lost.    *)
(***************************************************************************)
EXTENDS Integers, FiniteSets, Functions

CONSTANTS
    Devices,     \* phones
    Keys,        \* the wallet keys the backend may draw
    Contacts,    \* the seeded contacts
    EnvAccount,  \* the account of the environment's demo signer
    None,
    Requests,    \* provisions the backend may have under way
    Sids,        \* session ids the backend may draw
    Ensures,     \* flows of a phone that may want a session at once
    Life,        \* a session's life, 55 minutes, in ticks
    Margin,      \* the phone's margin, 60 seconds, in ticks
    MaxRestarts  \* the bound on restarts, of the phones and of the backend

\* The keys and the contacts name their accounts: signerFor and contactSigner
\* hash them in namespaces of their own.
Accounts == Keys \cup Contacts

ASSUME WalletAssumption ==
    /\ None \notin Accounts \cup Devices \cup Sids \cup {EnvAccount}
    /\ EnvAccount \notin Accounts
    /\ Keys \cap Contacts = {}
    /\ IsFiniteSet(Contacts) /\ IsFiniteSet(Devices) /\ IsFiniteSet(Keys)
    /\ Cardinality(Keys) >= Cardinality(Devices)
    /\ Life \in Nat
    /\ Margin \in 0..Life
    /\ MaxRestarts \in Nat

VARIABLES
    ledger,    \* the network: which accounts exist, and their trustlines
    request,   \* the provisions under way at the backend
    saved,     \* the wallet file of each phone
    app,       \* what the app of each phone holds in memory
    store,     \* AnchorSessionStore: the account of each session
    age,       \* the ticks since each session was made
    customers, \* the accounts the anchor knows under SEP-12
    cache,     \* cachedAnchor of each phone
    ensure,    \* where each flow of each phone stands with its session
    lost,      \* history: the sessions a restart of the backend wiped
    restarts

walletVars == <<ledger, request, saved, app>>
sessionVars == <<store, age, customers, cache, ensure, lost>>
vars == <<walletVars, sessionVars, restarts>>

NoAccount == [made |-> FALSE, trusted |-> FALSE, seq |-> 0]

Free == [at |-> "free", acct |-> None, by |-> None, seq |-> 0]

\* stored: whether the app starts with a wallet to reconnect.
FreshApp(stored) ==
    [boot |-> IF stored THEN "creating" ELSE "new", run |-> "none",
     header |-> None, shown |-> None, ledgerOf |-> None, contacts |-> "unknown"]

NoEnsure == [at |-> "none", sid |-> None]

Init ==
    /\ ledger = [a \in Accounts |-> NoAccount]
    /\ request = [r \in Requests |-> Free]
    /\ saved = [d \in Devices |-> None]
    /\ app = [d \in Devices |-> FreshApp(FALSE)]
    /\ store = [s \in Sids |-> None]
    /\ age = [s \in Sids |-> 0]
    /\ customers = {}
    /\ cache = [d \in Devices |-> None]
    /\ ensure = [d \in Devices |-> [e \in Ensures |-> NoEnsure]]
    /\ lost = {}
    /\ restarts = 0

-----------------------------------------------------------------------------
(* The provision of an account. *)

signerForRequest(header) == IF header = None THEN EnvAccount ELSE header

\* POST /demo/sign: whether a transaction of this account is signed.
demoSign(header, source) == source = signerForRequest(header)

\* Requests are numbered as they come.
IsNext(r) ==
    /\ request[r] = Free
    /\ \A q \in Requests : q < r => request[q] # Free

Asked(acct, by) == [Free EXCEPT !.at = "exists", !.acct = acct, !.by = by]

\* The request goes on; one that ended with nobody waiting is forgotten.
Goes(r, at) ==
    request' = [request EXCEPT ![r] =
        IF at \in {"done", "failed"} /\ @.by = None THEN Free ELSE [@ EXCEPT !.at = at]]

LedgerOf(r) == ledger[request[r].acct]

\* Mutant: an account that exists is taken to be complete.
ExistsIsEnough(r) ==
    /\ request[r].at = "exists"
    /\ Goes(r, IF LedgerOf(r).made THEN "done" ELSE "fund")
    /\ UNCHANGED ledger

accountExists(r) ==
    /\ request[r].at = "exists"
    /\ Goes(r, IF LedgerOf(r).made THEN "read" ELSE "fund")
    /\ UNCHANGED ledger

\* Friendbot creates an account, and refuses one that exists.
friendbotFund(r) ==
    /\ request[r].at = "fund"
    /\ Goes(r, IF LedgerOf(r).made THEN "failed" ELSE "read")
    /\ ledger' = [ledger EXCEPT ![request[r].acct].made = TRUE]

hasUsdcTrustline(r) == LedgerOf(r).trusted

TrustlineRead(r) ==
    /\ request[r].at = "read"
    /\ Goes(r, IF hasUsdcTrustline(r) THEN "done" ELSE "build")
    /\ UNCHANGED ledger

buildUsdcTrustlineXdr(r) ==
    /\ request[r].at = "build"
    /\ request' = [request EXCEPT ![r].at = "submit", ![r].seq = LedgerOf(r).seq]
    /\ UNCHANGED ledger

\* The network takes the transaction that follows the last one it took.
TrustlineTaken(r) ==
    LET now == LedgerOf(r)
    IN  ledger' = [ledger EXCEPT ![request[r].acct] =
            IF request[r].seq = now.seq
              THEN [made |-> now.made, trusted |-> TRUE, seq |-> now.seq + 1]
              ELSE now]

submitSignedXdr(r) ==
    /\ request[r].at = "submit"
    /\ Goes(r, IF request[r].seq = LedgerOf(r).seq THEN "done" ELSE "failed")
    /\ TrustlineTaken(r)

\* A call to the network fails. What it asked for may have happened.
ProvisionFails(r) ==
    /\ request[r].at \in {"exists", "fund", "read", "build", "submit"}
    /\ Goes(r, "failed")
    /\ \/ UNCHANGED ledger
       \/ /\ request[r].at = "fund"
          /\ ledger' = [ledger EXCEPT ![request[r].acct].made = TRUE]
       \/ /\ request[r].at = "submit"
          /\ TrustlineTaken(r)

provisionSigner(r) ==
    /\ \/ accountExists(r)
       \/ friendbotFund(r)
       \/ TrustlineRead(r)
       \/ buildUsdcTrustlineXdr(r)
       \/ submitSignedXdr(r)
       \/ ProvisionFails(r)
    /\ UNCHANGED <<saved, app, sessionVars, restarts>>

\* Another phone resolves the contacts. The bound on requests never keeps a
\* modelled phone from asking.
OtherPhoneAsks ==
    \E r \in Requests, c \in Contacts :
        /\ IsNext(r)
        /\ \E q \in Requests \ {r} : request[q] = Free
        /\ request' = [request EXCEPT ![r] = Asked(c, None)]
        /\ UNCHANGED <<ledger, saved, app, sessionVars, restarts>>

-----------------------------------------------------------------------------
(* The app gets its account: OnboardingScreen and bootstrapAccount. *)

\* Requests that nobody hears any more; those for a key that no phone has
\* saved are of no consequence, and neither are their accounts.
Vain(rs) == {r \in rs : request[r].acct \in Keys \ Range(saved)}

Unheard(rs) ==
    /\ request' = [r \in Requests |->
         IF r \notin rs THEN request[r]
         ELSE IF r \in Vain(rs) \/ request[r].at \in {"done", "failed"} THEN Free
         ELSE [request[r] EXCEPT !.by = None]]
    /\ ledger' = [a \in Accounts |->
         IF \E r \in Vain(rs) : request[r].acct = a THEN NoAccount ELSE ledger[a]]

WalletRequests(d) == {r \in Requests : request[r].by = d /\ request[r].acct \in Keys}

ContactRequests(d) == {r \in Requests : request[r].by = d /\ request[r].acct \in Contacts}

\* A button of the welcome screen or of the error screen.
AccountWanted(d) ==
    /\ app[d].boot \in {"new", "error"}
    /\ app' = [app EXCEPT ![d].boot = "creating"]
    /\ UNCHANGED <<ledger, request, saved, sessionVars, restarts>>

Cancelled(d) ==
    /\ app[d].boot = "error"
    /\ app' = [app EXCEPT ![d].boot = "new"]
    /\ UNCHANGED <<ledger, request, saved, sessionVars, restarts>>

\* newWalletKey: 32 random bytes. A key that nobody holds stands for a new one.
newWalletKey ==
    CHOOSE key \in Keys :
        /\ \A d \in Devices : saved[d] # key
        /\ \A r \in Requests : request[r].acct # key

\* Mutant: the stored key is not sent along.
AsksForNew(d) ==
    /\ app[d].boot = "creating"
    /\ app[d].run = "none"
    /\ app' = [app EXCEPT ![d].run = "wallet"]
    /\ \E r \in Requests :
         /\ IsNext(r)
         /\ request' = [request EXCEPT ![r] = Asked(newWalletKey, d)]
    /\ UNCHANGED <<ledger, saved, sessionVars, restarts>>

\* health and capabilities have answered: custodialSigner asks for the wallet
\* of the stored key, or for a new one.
demoWallet(d) ==
    /\ app[d].boot = "creating"
    /\ app[d].run = "none"
    /\ app' = [app EXCEPT ![d].run = "wallet"]
    /\ \E r \in Requests :
         /\ IsNext(r)
         /\ request' = [request EXCEPT ![r] =
              Asked(IF saved[d] = None THEN newWalletKey ELSE saved[d], d)]
    /\ UNCHANGED <<ledger, saved, sessionVars, restarts>>

\* Mutant: only a phone that sent a key saves it.
SavesOnlyAgain(d) ==
    \E r \in WalletRequests(d) :
        /\ request[r].at = "done"
        /\ request' = [request EXCEPT ![r] = Free]
        /\ saved' = [saved EXCEPT ![d] = IF @ = None THEN @ ELSE request[r].acct]
        /\ app' = [app EXCEPT ![d] =
             [@ EXCEPT !.run = "read", !.header = request[r].acct,
                       !.shown = request[r].acct, !.ledgerOf = None]]
        /\ UNCHANGED <<ledger, sessionVars, restarts>>

\* The phone holds the key before it shows the account.
custodialSigner(d) ==
    \E r \in WalletRequests(d) :
        /\ request[r].at = "done"
        /\ request' = [request EXCEPT ![r] = Free]
        /\ saved' = [saved EXCEPT ![d] = request[r].acct]
        /\ app' = [app EXCEPT ![d] =
             [@ EXCEPT !.run = "read", !.header = request[r].acct,
                       !.shown = request[r].acct, !.ledgerOf = None]]
        /\ UNCHANGED <<ledger, sessionVars, restarts>>

\* refreshLedger has its four answers.
refreshLedger(d) ==
    /\ app[d].run = "read"
    /\ app' = [app EXCEPT ![d] =
         [@ EXCEPT !.run = "none", !.boot = "ready", !.ledgerOf = app[d].shown]]
    /\ UNCHANGED <<ledger, request, saved, sessionVars, restarts>>

\* Mutant: the error is not shown.
GivesUpSilently(d) ==
    /\ Unheard(WalletRequests(d))
    /\ UNCHANGED <<app, saved, sessionVars, restarts>>

GivesUp(d) ==
    /\ app' = [app EXCEPT ![d] = [@ EXCEPT !.run = "none", !.boot = "error"]]
    /\ Unheard(WalletRequests(d))
    /\ UNCHANGED <<saved, sessionVars, restarts>>

WalletRefused(d) ==
    /\ \E r \in WalletRequests(d) : request[r].at = "failed"
    /\ GivesUp(d)

\* Any other answer may be an error, or be lost, and the file not be written.
BootstrapFails(d) ==
    /\ app[d].boot = "creating"
    /\ \A r \in WalletRequests(d) : request[r].at # "failed"
    /\ GivesUp(d)

-----------------------------------------------------------------------------
(* The contacts of the app: resolveAll. *)

resolveAll(d) ==
    /\ app[d].boot = "ready"
    /\ app[d].contacts = "unknown"
    /\ app' = [app EXCEPT ![d].contacts = "asked"]
    /\ \E f \in Injection(Contacts, {r \in Requests : request[r] = Free}) :
         request' = [r \in Requests |->
             IF \E c \in Contacts : f[c] = r
             THEN Asked(CHOOSE c \in Contacts : f[c] = r, d)
             ELSE request[r]]
    /\ UNCHANGED <<ledger, saved, sessionVars, restarts>>

\* Promise.all: every contact has its account.
ContactsResolved(d) ==
    /\ app[d].contacts = "asked"
    /\ Cardinality(ContactRequests(d)) = Cardinality(Contacts)
    /\ \A r \in ContactRequests(d) : request[r].at = "done"
    /\ app' = [app EXCEPT ![d].contacts = "known"]
    /\ Unheard(ContactRequests(d))
    /\ UNCHANGED <<saved, sessionVars, restarts>>

\* One failed, or the answer was lost; the others go on unheard.
ContactsFail(d) ==
    /\ app[d].contacts = "asked"
    /\ app' = [app EXCEPT ![d].contacts = "unknown"]
    /\ Unheard(ContactRequests(d))
    /\ UNCHANGED <<saved, sessionVars, restarts>>

-----------------------------------------------------------------------------
(* The session with the bank. *)

\* AnchorSessionStore.resolve: the session is there and its time is not over.
Resolves(s) == store[s] # None /\ age[s] <= Life

\* A session whose time is over leaves the store when it is asked for.
Resolved(s) == [store EXCEPT ![s] = IF age[s] > Life THEN None ELSE @]

\* ensureAnchorSession trusts its cache until a minute before the end.
CacheIsGood(d) == cache[d] # None /\ age[cache[d]] < Life - Margin

Flow(d, e, at, s) == ensure' = [ensure EXCEPT ![d][e] = [at |-> at, sid |-> s]]

\* A flow of the app asks for a session: the cached one, or a new one.
ensureAnchorSession(d, e) ==
    /\ app[d].boot = "ready"
    /\ ensure[d][e] = NoEnsure
    /\ IF CacheIsGood(d) THEN Flow(d, e, "call", cache[d]) ELSE Flow(d, e, "auth", None)
    /\ UNCHANGED <<walletVars, store, age, customers, cache, lost, restarts>>

\* Whether nobody holds the id.
IsNewSid(s) ==
    \A d \in Devices : cache[d] # s /\ \A e \in Ensures : ensure[d][e].sid # s

\* randomUUID. An id that nobody holds stands for a new one.
randomUUID == CHOOSE s \in Sids : IsNewSid(s)

\* Mutant: the session is cached before the customer is registered.
CachesBeforePut(d, e) ==
    /\ ensure[d][e].at = "auth"
    /\ \E s \in Sids : IsNewSid(s)
    /\ store' = [store EXCEPT ![randomUUID] = signerForRequest(app[d].header)]
    /\ age' = [age EXCEPT ![randomUUID] = 0]
    /\ lost' = lost \ {randomUUID}
    /\ cache' = [cache EXCEPT ![d] = randomUUID]
    /\ Flow(d, e, "put", randomUUID)
    /\ UNCHANGED <<walletVars, customers, restarts>>

\* The backend signs the challenge as the phone's wallet, and keeps the token.
demoSep10(d, e) ==
    /\ ensure[d][e].at = "auth"
    /\ \E s \in Sids : IsNewSid(s)
    /\ store' = [store EXCEPT ![randomUUID] = signerForRequest(app[d].header)]
    /\ age' = [age EXCEPT ![randomUUID] = 0]
    /\ lost' = lost \ {randomUUID}
    /\ Flow(d, e, "put", randomUUID)
    /\ UNCHANGED <<walletVars, customers, cache, restarts>>

\* SEP-12, and only then the cache.
anchorCustomerPut(d, e) ==
    /\ ensure[d][e].at = "put"
    /\ LET s == ensure[d][e].sid
       IN /\ store' = Resolved(s)
          /\ IF Resolves(s)
             THEN /\ customers' = customers \cup {store[s]}
                  /\ cache' = [cache EXCEPT ![d] = s]
                  /\ Flow(d, e, "call", s)
             ELSE /\ Flow(d, e, "none", None)
                  /\ UNCHANGED <<customers, cache>>
    /\ UNCHANGED <<walletVars, age, lost, restarts>>

\* Either call fails, or its answer is lost.
EnsureFails(d, e) ==
    /\ ensure[d][e].at \in {"auth", "put"}
    /\ Flow(d, e, "none", None)
    /\ \/ UNCHANGED customers
       \/ /\ ensure[d][e].at = "put"
          /\ Resolves(ensure[d][e].sid)
          /\ customers' = customers \cup {store[ensure[d][e].sid]}
    /\ UNCHANGED <<walletVars, store, age, cache, lost, restarts>>

\* The flow presents the session: a quote, a transfer, a poll.
jwtFromSession(d, e) ==
    /\ ensure[d][e].at = "call"
    /\ store' = Resolved(ensure[d][e].sid)
    /\ Flow(d, e, "none", None)
    /\ UNCHANGED <<walletVars, age, customers, cache, lost, restarts>>

\* The sessions somebody holds grow older.
TimePasses ==
    /\ age' = [s \in Sids |->
         IF IsNewSid(s) THEN 0 ELSE IF age[s] > Life THEN age[s] ELSE age[s] + 1]
    /\ UNCHANGED <<walletVars, store, customers, cache, ensure, lost, restarts>>

-----------------------------------------------------------------------------

\* The app starts again: its file is all it has.
AppStarts(d) ==
    /\ restarts < MaxRestarts
    /\ restarts' = restarts + 1
    /\ app' = [app EXCEPT ![d] = FreshApp(saved[d] # None)]
    /\ Unheard(WalletRequests(d) \cup ContactRequests(d))
    /\ cache' = [cache EXCEPT ![d] = None]
    /\ ensure' = [ensure EXCEPT ![d] = [e \in Ensures |-> NoEnsure]]
    /\ UNCHANGED <<saved, store, age, customers, lost>>

\* The backend starts again: it has no session, and no request under way.
BackendStarts ==
    /\ restarts < MaxRestarts
    /\ restarts' = restarts + 1
    /\ request' = [r \in Requests |->
         IF request[r].by = None THEN Free ELSE [request[r] EXCEPT !.at = "failed"]]
    /\ store' = [s \in Sids |-> None]
    /\ lost' = lost \cup {s \in Sids : store[s] # None /\ ~IsNewSid(s)}
    /\ UNCHANGED <<ledger, saved, app, age, customers, cache, ensure>>

\* What the app does when the answer it waits for is there.
BootstrapGoesOn(d) ==
    \/ demoWallet(d)
    \/ custodialSigner(d)
    \/ WalletRefused(d)
    \/ refreshLedger(d)

Next ==
    \/ \E r \in Requests : provisionSigner(r)
    \/ OtherPhoneAsks
    \/ \E d \in Devices :
         \/ AccountWanted(d)
         \/ Cancelled(d)
         \/ BootstrapGoesOn(d)
         \/ BootstrapFails(d)
         \/ resolveAll(d)
         \/ ContactsResolved(d)
         \/ ContactsFail(d)
         \/ AppStarts(d)
    \/ \E d \in Devices, e \in Ensures :
         \/ ensureAnchorSession(d, e)
         \/ demoSep10(d, e)
         \/ anchorCustomerPut(d, e)
         \/ EnsureFails(d, e)
         \/ jwtFromSession(d, e)
    \/ TimePasses
    \/ BackendStarts

Spec == Init /\ [][Next]_vars

\* The network answers or refuses, and the app takes the answer.
FairSpec ==
    /\ Spec
    /\ \A r \in Requests : WF_vars(provisionSigner(r))
    /\ \A d \in Devices : WF_vars(BootstrapGoesOn(d))

-----------------------------------------------------------------------------
(* Properties. *)

AppType ==
    [boot : {"new", "creating", "ready", "error"}, run : {"none", "wallet", "read"},
     header : Keys \cup {None}, shown : Keys \cup {None}, ledgerOf : Keys \cup {None},
     contacts : {"unknown", "asked", "known"}]

RequestType ==
    [at : {"free", "exists", "fund", "read", "build", "submit", "done", "failed"},
     acct : Accounts \cup {None}, by : Devices \cup {None}, seq : Nat]

EnsureType == [at : {"none", "auth", "put", "call"}, sid : Sids \cup {None}]

\* The types of the state: the backend, the network and the phones hold the
\* values their code gives them.
TypeOK ==
    /\ ledger \in [Accounts -> [made : BOOLEAN, trusted : BOOLEAN, seq : Nat]]
    /\ request \in [Requests -> RequestType]
    /\ saved \in [Devices -> Keys \cup {None}]
    /\ app \in [Devices -> AppType]
    /\ store \in [Sids -> Accounts \cup {None, EnvAccount}]
    /\ age \in [Sids -> 0..(Life + 1)]
    /\ customers \subseteq Accounts \cup {EnvAccount}
    /\ cache \in [Devices -> Sids \cup {None}]
    /\ ensure \in [Devices -> [Ensures -> EnsureType]]
    /\ lost \subseteq Sids
    /\ restarts \in 0..MaxRestarts

\* A phone in use has an account on the network that can hold USDC, and so has
\* each contact it would pay, however many provisions of one account overlap,
\* fail half way or are asked for again.
ReadyIsUsable ==
    \A d \in Devices :
        /\ app[d].boot = "ready" => app[d].shown # None /\ ledger[app[d].shown].trusted
        /\ app[d].contacts = "known" => \A c \in Contacts : ledger[c].trusted

\* An account is shown only when the phone's file leads back to it after a
\* restart, and only the signer of that account answers for it.
ShownIsKept ==
    \A d \in Devices :
        app[d].shown # None =>
            /\ saved[d] = app[d].shown
            /\ demoSign(app[d].header, app[d].shown)
            /\ app[d].ledgerOf \in {None, app[d].shown}

\* A phone that has saved a wallet never changes it for another.
KeepsItsWallet ==
    [][\A d \in Devices : saved[d] # None => saved'[d] = saved[d]]_vars

\* A session the phone still trusts is one the backend knows, for the account
\* the phone shows, and the anchor knows that customer. Only a restart of the
\* backend breaks the first.
CacheIsHonoured ==
    \A d \in Devices :
        CacheIsGood(d) =>
            /\ app[d].shown \in customers
            /\ cache[d] \in lost \/ (Resolves(cache[d]) /\ store[cache[d]] = app[d].shown)

\* Creating an account comes to an end.
BootstrapEnds ==
    \A d \in Devices : app[d].boot = "creating" ~> app[d].boot # "creating"
=============================================================================
