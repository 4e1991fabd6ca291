-------------------------- MODULE DeviceWallet_proofs --------------------------
(***************************************************************************)
(* Theorems about DeviceWallet, for any phones, contacts and sessions: a    *)
(* phone keeps the wallet it has, what it shows is usable and survives a    *)
(* restart, and the session it trusts is its own.                           *)
(***************************************************************************)
EXTENDS DeviceWallet, FiniteSetTheorems, TLAPS

\* The keys some phone has saved.
Kept == Range(saved)

AccountType == [made : BOOLEAN, trusted : BOOLEAN, seq : Nat]

WalletTypes ==
    /\ ledger \in [Accounts -> AccountType]
    /\ request \in [Requests -> RequestType]
    /\ saved \in [Devices -> Keys \cup {None}]
    /\ app \in [Devices -> AppType]

SessionTypes ==
    /\ store \in [Sids -> Accounts \cup {None, EnvAccount}]
    /\ age \in [Sids -> 0..(Life + 1)]
    /\ customers \subseteq Accounts \cup {EnvAccount}
    /\ cache \in [Devices -> Sids \cup {None}]
    /\ ensure \in [Devices -> [Ensures -> EnsureType]]
    /\ lost \subseteq Sids
    /\ restarts \in 0..MaxRestarts

\* A provision that is done left a trustline, and a phone waits for the wallet it asked
\* for: a key that no phone has saved is drawn for one request, that its phone hears.
RequestInv ==
    \A r \in Requests :
        /\ request[r].at # "free" => request[r].acct \in Accounts
        /\ request[r].at = "free" => request[r] = Free
        /\ request[r].at = "done" => ledger[request[r].acct].trusted
        /\ request[r].acct \in Keys /\ request[r].by # None =>
              /\ app[request[r].by].run = "wallet"
              /\ saved[request[r].by] \in {None, request[r].acct}
        /\ request[r].acct \in Keys \ Kept => request[r].by # None

SingleInv ==
    \A q, r \in Requests :
        /\ request[q].acct \in Keys /\ request[r].acct \in Keys
           /\ request[q].by = request[r].by /\ request[q].by # None => q = r
        /\ request[q].acct \in Keys \ Kept /\ request[r].acct = request[q].acct => q = r

\* What a phone shows is what it has saved, and can hold USDC.
PhoneInv(d) ==
    /\ app[d].boot # "creating" => app[d].run = "none"
    /\ app[d].run = "read" \/ app[d].boot = "ready" => app[d].shown # None
    /\ app[d].shown \in {None, saved[d]}
    /\ app[d].header = app[d].shown
    /\ app[d].ledgerOf \in {None, app[d].shown}
    /\ app[d].shown # None => ledger[app[d].shown].trusted
    /\ app[d].contacts = "known" => \A c \in Contacts : ledger[c].trusted
    /\ app[d].contacts = "asked" =>
          \A c \in Contacts : \E r \in Requests : request[r].by = d /\ request[r].acct = c

WalletInv ==
    /\ WalletTypes
    /\ RequestInv
    /\ SingleInv
    /\ \A d \in Devices : PhoneInv(d)

\* The sessions a phone holds.
Holds(d, s) == cache[d] = s \/ \E e \in Ensures : ensure[d][e].sid = s

\* A session that is held is for the account its phone shows, unless it is over.
SessionInv ==
    /\ \A d \in Devices, s \in Sids : Holds(d, s) =>
          /\ app[d].shown # None
          /\ s \in lost \/ age[s] > Life \/ store[s] = app[d].shown
    /\ \A d \in Devices, e \in Ensures :
          /\ ensure[d][e].at # "none" => app[d].shown # None
          /\ ensure[d][e].at \in {"put", "call"} => ensure[d][e].sid # None
    /\ \A d \in Devices : cache[d] # None => app[d].shown \in customers
    /\ \A s \in lost : store[s] = None

FullInv ==
    /\ WalletInv
    /\ SessionTypes
    /\ SessionInv

----------------------------------------------------------------------------
LEMMA Names ==
  /\ None \notin Accounts /\ None \notin Devices /\ None \notin Sids /\ None # EnvAccount
  /\ EnvAccount \notin Accounts
  /\ Keys \subseteq Accounts /\ Contacts \subseteq Accounts
  /\ \A a \in Accounts : a \in Keys \/ a \in Contacts
  /\ \A a \in Keys : a \notin Contacts
  /\ Life \in Nat /\ Margin \in Nat /\ Margin <= Life /\ MaxRestarts \in Nat
  BY WalletAssumption DEF Accounts

LEMMA FreeType == Free \in RequestType /\ Free.at = "free" /\ Free.acct = None /\ Free.by = None
  BY DEF Free, RequestType

LEMMA AskedType ==
  ASSUME NEW acct \in Accounts \cup {None}, NEW by \in Devices \cup {None}
  PROVE  /\ Asked(acct, by) \in RequestType /\ Asked(acct, by).at = "exists"
         /\ Asked(acct, by).acct = acct /\ Asked(acct, by).by = by
  BY DEF Asked, Free, RequestType

LEMMA FreshType ==
  ASSUME NEW stored
  PROVE  /\ FreshApp(stored) \in AppType
         /\ FreshApp(stored).run = "none" /\ FreshApp(stored).boot # "ready"
         /\ FreshApp(stored).header = None /\ FreshApp(stored).shown = None
         /\ FreshApp(stored).ledgerOf = None /\ FreshApp(stored).contacts = "unknown"
  BY DEF FreshApp, AppType

LEMMA SavedKept ==
  ASSUME WalletTypes
  PROVE  \A d \in Devices : saved[d] \in Kept
  BY DEF WalletTypes, Kept, Range

LEMMA WalletInit == Init => WalletInv
<1> SUFFICES ASSUME Init PROVE WalletInv
  OBVIOUS
<1>1. /\ ledger = [a \in Accounts |-> NoAccount] /\ request = [r \in Requests |-> Free]
      /\ saved = [d \in Devices |-> None] /\ app = [d \in Devices |-> FreshApp(FALSE)]
  BY Zenon DEF Init
<1>2. NoAccount \in AccountType
  BY DEF NoAccount, AccountType
<1>3. WalletTypes
  BY <1>1, <1>2, FreeType, FreshType DEF WalletTypes
<1>4. RequestInv /\ SingleInv
  BY <1>1, FreeType, Names DEF RequestInv, SingleInv
<1>5. \A d \in Devices : PhoneInv(d)
  BY <1>1, FreshType DEF PhoneInv
<1> QED BY <1>3, <1>4, <1>5 DEF WalletInv

LEMMA SessionInit == Init => SessionTypes /\ SessionInv
<1> SUFFICES ASSUME Init PROVE SessionTypes /\ SessionInv
  OBVIOUS
<1>1. /\ store = [s \in Sids |-> None] /\ age = [s \in Sids |-> 0] /\ customers = {}
      /\ cache = [d \in Devices |-> None] /\ lost = {} /\ restarts = 0
      /\ ensure = [d \in Devices |-> [e \in Ensures |-> NoEnsure]]
  BY Zenon DEF Init
<1>2. NoEnsure \in EnsureType /\ NoEnsure.at = "none" /\ NoEnsure.sid = None
  BY DEF NoEnsure, EnsureType
<1>3. SessionTypes
  BY <1>1, <1>2, Names DEF SessionTypes
<1>4. SessionInv
  BY <1>1, <1>2, Names DEF SessionInv, Holds
<1> QED BY <1>3, <1>4

----------------------------------------------------------------------------
(* The provision of an account *)

\* A step of a provision: it goes on, or ends and is forgotten, and no trustline is lost.
LEMMA ProvisionMoves ==
  ASSUME WalletInv, NEW r \in Requests, UNCHANGED <<saved, app>>,
         request' \in [Requests -> RequestType],
         ledger' \in [Accounts -> AccountType],
         request[r].at # "free",
         \A q \in Requests : q # r => request'[q] = request[q],
         \A a \in Accounts : ledger[a].trusted => ledger'[a].trusted,
         \/ /\ request'[r].acct = request[r].acct /\ request'[r].by = request[r].by
            /\ request'[r].at # "free"
            /\ request'[r].at = "done" => ledger'[request[r].acct].trusted
         \/ request'[r] = Free /\ request[r].by = None
  PROVE  WalletInv'
<1>0. /\ WalletTypes /\ RequestInv /\ SingleInv /\ \A d \in Devices : PhoneInv(d)
      /\ Kept' = Kept
  BY DEF WalletInv, Kept
<1>1. WalletTypes'
  BY <1>0 DEF WalletTypes
<1>2. RequestInv'
  <2> SUFFICES ASSUME NEW q \in Requests
               PROVE  /\ request'[q].at # "free" => request'[q].acct \in Accounts
                      /\ request'[q].at = "free" => request'[q] = Free
                      /\ request'[q].at = "done" => ledger'[request'[q].acct].trusted
                      /\ request'[q].acct \in Keys /\ request'[q].by # None =>
                            /\ app[request'[q].by].run = "wallet"
                            /\ saved[request'[q].by] \in {None, request'[q].acct}
                      /\ request'[q].acct \in Keys \ Kept => request'[q].by # None
    BY <1>0 DEF RequestInv
  <2>1. CASE q # r
    BY <1>0, <2>1 DEF RequestInv
  <2>2. CASE q = r /\ request'[r] = Free
    BY <2>2, FreeType, Names
  <2>3. CASE q = r /\ request'[r] # Free
    BY <1>0, <2>3 DEF RequestInv
  <2> QED BY <2>1, <2>2, <2>3
<1>3. \A q \in Requests : \/ request'[q].acct = request[q].acct /\ request'[q].by = request[q].by
                          \/ request'[q].acct = None
  BY FreeType
<1>4. SingleInv'
  BY <1>0, <1>3, Names DEF SingleInv
<1>5. ASSUME NEW d \in Devices PROVE PhoneInv(d)'
  <2>1. app[d].shown \in Keys \cup {None}
    BY <1>0 DEF WalletTypes, AppType
  <2>2. app[d].shown # None => ledger'[app[d].shown].trusted
    BY <1>0, <2>1, Names DEF PhoneInv
  <2>3. app[d].contacts = "known" => \A c \in Contacts : ledger'[c].trusted
    BY <1>0, Names DEF PhoneInv
  <2>4. \A q \in Requests : request[q].by = d =>
           request'[q].acct = request[q].acct /\ request'[q].by = d
    BY Names
  <2>5. app[d].contacts = "asked" =>
          \A c \in Contacts : \E q \in Requests : request'[q].by = d /\ request'[q].acct = c
    BY <1>0, <2>4 DEF PhoneInv
  <2> QED BY <1>0, <2>2, <2>3, <2>5 DEF PhoneInv
<1> QED BY <1>1, <1>2, <1>4, <1>5 DEF WalletInv

LEMMA GoesOn ==
  ASSUME WalletTypes, NEW r \in Requests,
         NEW at \in {"exists", "fund", "read", "build", "submit", "done", "failed"}, Goes(r, at)
  PROVE  /\ request' \in [Requests -> RequestType]
         /\ \A q \in Requests : q # r => request'[q] = request[q]
         /\ \/ /\ request'[r].acct = request[r].acct /\ request'[r].by = request[r].by
               /\ request'[r].at = at
            \/ request'[r] = Free /\ request[r].by = None
<1> DEFINE k == [request[r] EXCEPT !.at = at]
<1>0. request[r] \in RequestType /\ request \in [Requests -> RequestType]
  BY DEF WalletTypes
<1>1. k \in RequestType /\ k.at = at /\ k.acct = request[r].acct /\ k.by = request[r].by
  BY <1>0 DEF RequestType
<1>2. request' = [request EXCEPT ![r] =
         IF at \in {"done", "failed"} /\ request[r].by = None THEN Free ELSE k]
  BY DEF Goes
<1> HIDE DEF k
<1> QED BY <1>0, <1>1, <1>2, FreeType

LEMMA ProvisionSteps ==
  ASSUME WalletInv, NEW r \in Requests, provisionSigner(r)
  PROVE  WalletInv' /\ UNCHANGED <<saved, app, sessionVars, restarts>>
<1> DEFINE a == request[r].acct
<1>0. /\ WalletTypes /\ UNCHANGED <<saved, app, sessionVars, restarts>>
      /\ request[r] \in RequestType /\ ledger \in [Accounts -> AccountType]
  BY DEF WalletInv, WalletTypes, provisionSigner
<1>1. request[r].at # "free" => a \in Accounts /\ ledger[a] \in AccountType
  BY <1>0 DEF WalletInv, RequestInv
<1>2. ASSUME NEW at \in {"exists", "fund", "read", "build", "submit", "done", "failed"},
             Goes(r, at), request[r].at # "free", ledger' \in [Accounts -> AccountType],
             \A b \in Accounts : ledger[b].trusted => ledger'[b].trusted,
             at = "done" => ledger'[a].trusted
      PROVE  WalletInv'
  <2>1. /\ request' \in [Requests -> RequestType]
        /\ \A q \in Requests : q # r => request'[q] = request[q]
        /\ \/ /\ request'[r].acct = request[r].acct /\ request'[r].by = request[r].by
              /\ request'[r].at = at
           \/ request'[r] = Free /\ request[r].by = None
    BY <1>0, <1>2, GoesOn
  <2>2. \/ /\ request'[r].acct = request[r].acct /\ request'[r].by = request[r].by
           /\ request'[r].at # "free"
           /\ request'[r].at = "done" => ledger'[request[r].acct].trusted
        \/ request'[r] = Free /\ request[r].by = None
    BY <1>2, <2>1
  <2> QED BY <1>0, <1>2, <2>1, <2>2, ProvisionMoves
\* Friendbot makes the account, the network takes the trustline.
<1>3. ASSUME request[r].at # "free", ledger' = [ledger EXCEPT ![a].made = TRUE]
      PROVE  ledger' \in [Accounts -> AccountType]
             /\ \A b \in Accounts : ledger[b].trusted => ledger'[b].trusted
  <2> DEFINE k == [ledger[a] EXCEPT !.made = TRUE]
  <2>1. k \in AccountType /\ k.trusted = ledger[a].trusted
    BY <1>1, <1>3 DEF AccountType
  <2>2. ledger' = [ledger EXCEPT ![a] = k]
    BY <1>3
  <2> HIDE DEF k
  <2> QED BY <1>0, <1>1, <1>3, <2>1, <2>2
<1>4. ASSUME request[r].at # "free", TrustlineTaken(r)
      PROVE  /\ ledger' \in [Accounts -> AccountType]
             /\ \A b \in Accounts : ledger[b].trusted => ledger'[b].trusted
             /\ request[r].seq = ledger[a].seq => ledger'[a].trusted
  <2> DEFINE k == [made |-> ledger[a].made, trusted |-> TRUE, seq |-> ledger[a].seq + 1]
  <2>0. ledger[a] \in AccountType
    BY <1>1, <1>4
  <2>1. k \in AccountType
    BY <2>0 DEF AccountType
  <2>3. k.trusted
    BY <2>0 DEF AccountType
  <2>2. ledger' = [ledger EXCEPT ![a] = IF request[r].seq = ledger[a].seq THEN k ELSE ledger[a]]
    BY <1>4 DEF TrustlineTaken, LedgerOf
  <2> HIDE DEF k
  <2> QED BY <1>0, <1>1, <1>4, <2>1, <2>2, <2>3
<1>5. CASE accountExists(r)
  BY <1>0, <1>2, <1>5 DEF accountExists
<1>6. CASE friendbotFund(r)
  <2>1. /\ Goes(r, "failed") \/ Goes(r, "read")
        /\ request[r].at # "free" /\ ledger' = [ledger EXCEPT ![a].made = TRUE]
    BY <1>6 DEF friendbotFund
  <2>2. /\ ledger' \in [Accounts -> AccountType]
        /\ \A b \in Accounts : ledger[b].trusted => ledger'[b].trusted
    BY <1>3, <2>1
  <2>3. CASE Goes(r, "failed")
    BY <1>0, <1>2, <2>1, <2>2, <2>3
  <2>4. CASE Goes(r, "read")
    BY <1>0, <1>2, <2>1, <2>2, <2>4
  <2> QED BY <2>1, <2>3, <2>4
<1>7. CASE TrustlineRead(r)
  BY <1>0, <1>2, <1>7 DEF TrustlineRead, hasUsdcTrustline, LedgerOf
<1>8. CASE buildUsdcTrustlineXdr(r)
  <2> DEFINE k == [request[r] EXCEPT !.at = "submit", !.seq = ledger[a].seq]
  <2>1. request[r].at = "build" /\ ledger' = ledger
        /\ request' = [request EXCEPT ![r].at = "submit", ![r].seq = ledger[a].seq]
    BY <1>8 DEF buildUsdcTrustlineXdr, LedgerOf
  <2>2. /\ k \in RequestType /\ k.at = "submit" /\ k.acct = a /\ k.by = request[r].by
    BY <1>0, <1>1, <2>1 DEF RequestType, AccountType
  <2>3. request' = [request EXCEPT ![r] = k]
    BY <2>1
  <2> HIDE DEF k
  <2>4. /\ request' \in [Requests -> RequestType] /\ request'[r] = k
        /\ \A q \in Requests : q # r => request'[q] = request[q]
    BY <1>0, <2>2, <2>3 DEF WalletTypes
  <2> QED BY <1>0, <2>1, <2>2, <2>4, ProvisionMoves
<1>9. CASE submitSignedXdr(r)
  <2>1. /\ \/ request[r].seq = ledger[a].seq /\ Goes(r, "done")
           \/ Goes(r, "failed")
        /\ request[r].at # "free" /\ TrustlineTaken(r)
    BY <1>9 DEF submitSignedXdr, LedgerOf
  <2>2. /\ ledger' \in [Accounts -> AccountType]
        /\ \A b \in Accounts : ledger[b].trusted => ledger'[b].trusted
        /\ request[r].seq = ledger[a].seq => ledger'[a].trusted
    BY <1>4, <2>1
  <2>3. CASE Goes(r, "done") /\ ledger'[a].trusted
    BY <1>0, <1>2, <2>1, <2>2, <2>3
  <2>4. CASE Goes(r, "failed")
    BY <1>0, <1>2, <2>1, <2>2, <2>4
  <2> QED BY <2>1, <2>2, <2>3, <2>4
<1>10. CASE ProvisionFails(r)
  BY <1>0, <1>2, <1>3, <1>4, <1>10 DEF ProvisionFails
<1> QED BY <1>0, <1>5, <1>6, <1>7, <1>8, <1>9, <1>10 DEF provisionSigner

LEMMA OtherPhoneSteps ==
  ASSUME WalletInv, NEW r \in Requests, NEW c \in Contacts, request[r] = Free,
         request' = [request EXCEPT ![r] = Asked(c, None)],
         UNCHANGED <<ledger, saved, app>>
  PROVE  WalletInv'
<1>0. /\ WalletTypes /\ RequestInv /\ SingleInv /\ \A d \in Devices : PhoneInv(d)
      /\ Kept' = Kept /\ c \in Accounts /\ c \notin Keys
  BY Names DEF WalletInv, Kept
<1>1. /\ Asked(c, None) \in RequestType /\ Asked(c, None).at = "exists"
      /\ Asked(c, None).acct = c /\ Asked(c, None).by = None
  BY <1>0, AskedType
<1>2. /\ request' \in [Requests -> RequestType] /\ request'[r] = Asked(c, None)
      /\ \A q \in Requests : q # r => request'[q] = request[q]
  BY <1>0, <1>1 DEF WalletTypes
<1>3. WalletTypes'
  BY <1>0, <1>2 DEF WalletTypes
<1>4. RequestInv'
  BY <1>0, <1>1, <1>2 DEF RequestInv
<1>5. SingleInv'
  BY <1>0, <1>1, <1>2 DEF SingleInv
<1>6. ASSUME NEW d \in Devices PROVE PhoneInv(d)'
  <2>1. app[d].contacts = "asked" =>
          \A b \in Contacts : \E q \in Requests : request'[q].by = d /\ request'[q].acct = b
    BY <1>0, <1>2, FreeType, Names DEF PhoneInv
  <2> QED BY <1>0, <2>1 DEF PhoneInv
<1> QED BY <1>3, <1>4, <1>5, <1>6 DEF WalletInv

----------------------------------------------------------------------------
(* The app gets its account *)

\* A step of the app alone, which leaves it waiting for the wallet if it did.
LEMMA PhoneKeeps ==
  ASSUME WalletInv, NEW d \in Devices, UNCHANGED <<ledger, request, saved>>,
         app' \in [Devices -> AppType],
         \A x \in Devices : x # d => app'[x] = app[x],
         app[d].run = "wallet" => app'[d].run = "wallet",
         PhoneInv(d)'
  PROVE  WalletInv'
<1>0. /\ WalletTypes /\ RequestInv /\ SingleInv /\ \A x \in Devices : PhoneInv(x)
      /\ Kept' = Kept
  BY DEF WalletInv, Kept
<1>1. WalletTypes' /\ SingleInv'
  BY <1>0 DEF WalletTypes, SingleInv
<1>2. RequestInv'
  <2>1. \A r \in Requests : request[r].by \in Devices \cup {None}
    BY <1>0 DEF WalletTypes, RequestType
  <2> QED BY <1>0, <2>1 DEF RequestInv
<1>3. ASSUME NEW x \in Devices PROVE PhoneInv(x)'
  BY <1>0 DEF PhoneInv
<1> QED BY <1>1, <1>2, <1>3 DEF WalletInv

LEMMA AppSteps ==
  ASSUME WalletInv, NEW d \in Devices, AccountWanted(d) \/ Cancelled(d) \/ refreshLedger(d)
  PROVE  WalletInv' /\ app'[d].shown = app[d].shown
         /\ UNCHANGED <<saved, sessionVars, restarts>>
         /\ \A x \in Devices : x # d => app'[x] = app[x]
<1>0. /\ WalletTypes /\ app[d] \in AppType /\ app \in [Devices -> AppType] /\ PhoneInv(d)
      /\ UNCHANGED <<ledger, request, saved, sessionVars, restarts>>
  BY DEF WalletInv, WalletTypes, AccountWanted, Cancelled, refreshLedger
<1>1. ASSUME NEW b \in {"new", "creating"}, app[d].boot \in {"new", "error"},
             app' = [app EXCEPT ![d].boot = b]
      PROVE  /\ app' \in [Devices -> AppType] /\ \A x \in Devices : x # d => app'[x] = app[x]
             /\ app'[d].run = app[d].run /\ app'[d].shown = app[d].shown /\ PhoneInv(d)'
  <2> DEFINE k == [app[d] EXCEPT !.boot = b]
  <2>1. /\ k \in AppType /\ k.run = app[d].run /\ k.shown = app[d].shown /\ k.boot = b
        /\ k.header = app[d].header /\ k.ledgerOf = app[d].ledgerOf
        /\ k.contacts = app[d].contacts
    BY <1>0, <1>1 DEF AppType
  <2>2. app' = [app EXCEPT ![d] = k]
    BY <1>1
  <2> HIDE DEF k
  <2>3. /\ app' \in [Devices -> AppType] /\ \A x \in Devices : x # d => app'[x] = app[x]
        /\ app'[d] = k
    BY <1>0, <2>1, <2>2
  <2>4. app[d].run = "none"
    BY <1>0, <1>1 DEF PhoneInv
  <2>5. PhoneInv(d)'
    BY <1>0, <1>1, <2>1, <2>3, <2>4 DEF PhoneInv
  <2> QED BY <2>1, <2>3, <2>5
<1>2. CASE AccountWanted(d)
  BY <1>0, <1>1, <1>2, PhoneKeeps DEF AccountWanted
<1>3. CASE Cancelled(d)
  BY <1>0, <1>1, <1>3, PhoneKeeps DEF Cancelled
<1>4. CASE refreshLedger(d)
  <2> DEFINE k == [app[d] EXCEPT !.run = "none", !.boot = "ready", !.ledgerOf = app[d].shown]
  <2>1. /\ k \in AppType /\ k.run = "none" /\ k.shown = app[d].shown /\ k.boot = "ready"
        /\ k.header = app[d].header /\ k.ledgerOf = app[d].shown
        /\ k.contacts = app[d].contacts
    BY <1>0 DEF AppType
  <2>2. app[d].run = "read" /\ app' = [app EXCEPT ![d] = k]
    BY <1>4 DEF refreshLedger
  <2> HIDE DEF k
  <2>3. /\ app' \in [Devices -> AppType] /\ \A x \in Devices : x # d => app'[x] = app[x]
        /\ app'[d] = k
    BY <1>0, <2>1, <2>2
  <2>4. PhoneInv(d)'
    BY <1>0, <2>1, <2>2, <2>3 DEF PhoneInv
  <2> QED BY <1>0, <2>1, <2>2, <2>3, <2>4, PhoneKeeps
<1> QED BY <1>2, <1>3, <1>4

\* The keys a phone holds: the one it has saved, and the one it waits for.
HasKey(x, k) == saved[x] = k \/ \E r \in Requests : request[r].by = x /\ request[r].acct = k

LEMMA OneKeyEach ==
  ASSUME WalletInv, NEW x \in Devices, NEW j \in Keys, NEW k \in Keys, HasKey(x, j), HasKey(x, k)
  PROVE  j = k
<1>0. RequestInv /\ SingleInv /\ x # None
  BY Names DEF WalletInv
<1>1. \A r \in Requests : request[r].by = x /\ request[r].acct \in Keys =>
         saved[x] \in {None, request[r].acct}
  BY <1>0 DEF RequestInv
<1>2. \A q, r \in Requests :
         request[q].by = x /\ request[q].acct \in Keys /\ request[r].by = x /\ request[r].acct \in Keys
            => q = r
  <2> SUFFICES ASSUME NEW q \in Requests, NEW r \in Requests,
                      request[q].by = x, request[q].acct \in Keys,
                      request[r].by = x, request[r].acct \in Keys
               PROVE  q = r
    OBVIOUS
  <2>1. request[q].acct \in Keys /\ request[r].acct \in Keys
           /\ request[q].by = request[r].by /\ request[q].by # None => q = r
    BY <1>0 DEF SingleInv
  <2> QED BY <1>0, <2>1
<1>3. j # None /\ k # None
  BY Names
<1> QED BY <1>1, <1>2, <1>3 DEF HasKey

\* There are as many keys as phones, and a phone that has none leaves one free.
LEMMA FreeKey ==
  ASSUME WalletInv, NEW d \in Devices, saved[d] = None, app[d].run # "wallet"
  PROVE  /\ newWalletKey \in Keys
         /\ \A x \in Devices : saved[x] # newWalletKey
         /\ \A r \in Requests : request[r].acct # newWalletKey
<1>0. WalletTypes /\ RequestInv /\ d # None
  BY Names DEF WalletInv
<1> DEFINE Others == Devices \ {d}
           Keeper == [k \in Keys |-> CHOOSE x \in Others : HasKey(x, k)]
<1>1. \A k \in Keys : ~HasKey(d, k)
  BY <1>0, Names DEF HasKey, RequestInv
<1>2. \E k \in Keys : \A x \in Devices : ~HasKey(x, k)
  <2> SUFFICES ASSUME \A k \in Keys : \E x \in Devices : HasKey(x, k) PROVE FALSE
    OBVIOUS
  <2>1. \A k \in Keys : \E x \in Others : HasKey(x, k)
    BY <1>1
  <2>2. \A k \in Keys : Keeper[k] \in Others /\ HasKey(Keeper[k], k)
    <3> SUFFICES ASSUME NEW k \in Keys
                 PROVE  (CHOOSE x \in Others : HasKey(x, k)) \in Others
                        /\ HasKey(CHOOSE x \in Others : HasKey(x, k), k)
      OBVIOUS
    <3>1. \E x \in Others : HasKey(x, k)
      BY <2>1
    <3> QED BY <3>1, Zenon
  <2>3. Keeper \in [Keys -> Others]
    BY <2>2
  <2>4. /\ IsFiniteSet(Others) /\ Cardinality(Others) = Cardinality(Devices) - 1
        /\ Cardinality(Devices) \in Nat /\ Cardinality(Keys) \in Nat
        /\ IsFiniteSet(Keys) /\ Cardinality(Keys) >= Cardinality(Devices)
    BY WalletAssumption, FS_RemoveElement, FS_CardinalityType
  <2>5. Cardinality(Others) < Cardinality(Keys)
    BY <2>4
  <2> HIDE DEF Others, Keeper
  <2>6. \E j, k \in Keys : j # k /\ Keeper[j] = Keeper[k]
    BY <2>3, <2>4, <2>5, FS_PigeonHole
  <2>7. \A k \in Keys : Keeper[k] \in Devices
    BY <2>2 DEF Others
  <2> QED BY <2>2, <2>6, <2>7, OneKeyEach
<1>3. \E k \in Keys : /\ \A x \in Devices : saved[x] # k
                      /\ \A r \in Requests : request[r].acct # k
  <2>1. PICK k \in Keys : \A x \in Devices : ~HasKey(x, k)
    BY <1>2
  <2>2. \A x \in Devices : saved[x] # k
    BY <2>1 DEF HasKey
  <2>3. k \notin Kept
    BY <1>0, <2>2 DEF Kept, Range, WalletTypes
  <2>4. ASSUME NEW r \in Requests PROVE request[r].acct # k
    <3>1. request[r].acct = k => request[r].by \in Devices
      BY <1>0, <2>3 DEF RequestInv, WalletTypes, RequestType
    <3> QED BY <2>1, <3>1 DEF HasKey
  <2> QED BY <2>2, <2>4
<1> QED BY <1>3, Zenon DEF newWalletKey

LEMMA WalletAsked ==
  ASSUME WalletInv, NEW d \in Devices, demoWallet(d)
  PROVE  WalletInv' /\ app'[d].shown = app[d].shown
         /\ UNCHANGED <<saved, sessionVars, restarts>>
         /\ \A x \in Devices : x # d => app'[x] = app[x]
<1> DEFINE key == IF saved[d] = None THEN newWalletKey ELSE saved[d]
           k == [app[d] EXCEPT !.run = "wallet"]
<1>0. /\ WalletTypes /\ RequestInv /\ SingleInv /\ \A x \in Devices : PhoneInv(x)
      /\ app[d] \in AppType /\ app \in [Devices -> AppType] /\ saved[d] \in Keys \cup {None}
      /\ request \in [Requests -> RequestType] /\ d # None
  BY Names DEF WalletInv, WalletTypes
<1>1. /\ app[d].boot = "creating" /\ app[d].run = "none"
      /\ UNCHANGED <<ledger, saved, sessionVars, restarts>>
      /\ app' = [app EXCEPT ![d] = k]
  BY DEF demoWallet
<1>2. PICK r \in Requests : request[r] = Free /\ request' = [request EXCEPT ![r] = Asked(key, d)]
  BY DEF demoWallet, IsNext
<1>3. saved[d] = None =>
         /\ newWalletKey \in Keys /\ \A x \in Devices : saved[x] # newWalletKey
         /\ \A q \in Requests : request[q].acct # newWalletKey
  <2>1. app[d].run # "wallet"
    BY <1>1
  <2> QED BY <2>1, FreeKey
<1>4. /\ key \in Keys /\ key \in Accounts /\ saved[d] \in {None, key}
      /\ key \notin Kept => \A q \in Requests : request[q].acct # key
  <2>1. saved[d] \in Kept
    BY <1>0, SavedKept
  <2> QED BY <1>0, <1>3, <2>1, Names
<1> HIDE DEF key
<1>5. /\ Asked(key, d) \in RequestType /\ Asked(key, d).at = "exists"
      /\ Asked(key, d).acct = key /\ Asked(key, d).by = d
  BY <1>4, AskedType
<1>6. /\ request' \in [Requests -> RequestType] /\ request'[r] = Asked(key, d)
      /\ \A q \in Requests : q # r => request'[q] = request[q]
  BY <1>0, <1>2, <1>5
<1>7. /\ k \in AppType /\ k.run = "wallet" /\ k.boot = "creating"
      /\ k.shown = app[d].shown /\ k.header = app[d].header /\ k.ledgerOf = app[d].ledgerOf
      /\ k.contacts = app[d].contacts
  BY <1>0, <1>1 DEF AppType
<1> HIDE DEF k
<1>8. /\ app' \in [Devices -> AppType] /\ app'[d] = k
      /\ \A x \in Devices : x # d => app'[x] = app[x]
  BY <1>0, <1>1, <1>7
<1>9. \A q \in Requests : ~(request[q].by = d /\ request[q].acct \in Keys)
  BY <1>0, <1>1 DEF RequestInv
<1>10. Kept' = Kept
  BY <1>1 DEF Kept
<1>11. WalletTypes'
  BY <1>0, <1>1, <1>6, <1>8 DEF WalletTypes
<1>12. RequestInv'
  <2> SUFFICES ASSUME NEW q \in Requests
               PROVE  /\ request'[q].at # "free" => request'[q].acct \in Accounts
                      /\ request'[q].at = "free" => request'[q] = Free
                      /\ request'[q].at = "done" => ledger[request'[q].acct].trusted
                      /\ request'[q].acct \in Keys /\ request'[q].by # None =>
                            /\ app'[request'[q].by].run = "wallet"
                            /\ saved[request'[q].by] \in {None, request'[q].acct}
                      /\ request'[q].acct \in Keys \ Kept => request'[q].by # None
    BY <1>1, <1>10 DEF RequestInv
  <2>1. CASE q = r
    BY <1>0, <1>4, <1>5, <1>6, <1>7, <1>8, <2>1
  <2>2. CASE q # r
    <3>1. request'[q] = request[q] /\ request[q].by \in Devices \cup {None}
      BY <1>0, <1>6, <2>2 DEF RequestType
    <3> QED BY <1>0, <1>7, <1>8, <3>1 DEF RequestInv
  <2> QED BY <2>1, <2>2
<1>13. SingleInv'
  BY <1>0, <1>4, <1>5, <1>6, <1>9, <1>10 DEF SingleInv
<1>14. ASSUME NEW x \in Devices PROVE PhoneInv(x)'
  <2>1. /\ app'[x].shown = app[x].shown /\ app'[x].header = app[x].header
        /\ app'[x].ledgerOf = app[x].ledgerOf /\ app'[x].contacts = app[x].contacts
        /\ x # d => app'[x] = app[x]
    BY <1>7, <1>8
  <2>2. app[x].contacts = "asked" =>
          \A c \in Contacts : \E q \in Requests : request'[q].by = x /\ request'[q].acct = c
    BY <1>0, <1>2, <1>6, FreeType, Names DEF PhoneInv
  <2> QED BY <1>0, <1>1, <1>7, <1>8, <2>1, <2>2 DEF PhoneInv
<1> QED BY <1>1, <1>7, <1>8, <1>11, <1>12, <1>13, <1>14 DEF WalletInv

\* The key a phone saves is the one it has, if it has one.
LEMMA WalletSaved ==
  ASSUME WalletInv, NEW d \in Devices, custodialSigner(d)
  PROVE  /\ WalletInv'
         /\ \A x \in Devices : app[x].shown # None => app'[x].shown = app[x].shown
         /\ \A x \in Devices : saved[x] # None => saved'[x] = saved[x]
         /\ UNCHANGED <<sessionVars, restarts>>
<1>0. /\ WalletTypes /\ RequestInv /\ SingleInv /\ \A x \in Devices : PhoneInv(x)
      /\ app[d] \in AppType /\ app \in [Devices -> AppType] /\ saved \in [Devices -> Keys \cup {None}]
      /\ request \in [Requests -> RequestType] /\ d # None
  BY Names DEF WalletInv, WalletTypes
<1>1. PICK r \in WalletRequests(d) :
        /\ request[r].at = "done"
        /\ request' = [request EXCEPT ![r] = Free]
        /\ saved' = [saved EXCEPT ![d] = request[r].acct]
        /\ app' = [app EXCEPT ![d] =
             [@ EXCEPT !.run = "read", !.header = request[r].acct,
                       !.shown = request[r].acct, !.ledgerOf = None]]
        /\ UNCHANGED <<ledger, sessionVars, restarts>>
  BY Zenon DEF custodialSigner
<1> DEFINE a == request[r].acct
           k == [app[d] EXCEPT !.run = "read", !.header = a, !.shown = a, !.ledgerOf = None]
<1>2. /\ r \in Requests /\ request[r].by = d /\ a \in Keys /\ a # None /\ ledger[a].trusted
      /\ saved[d] \in {None, a} /\ app[d].run = "wallet"
  BY <1>0, <1>1, Names DEF WalletRequests, RequestInv
<1>3. /\ k \in AppType /\ k.run = "read" /\ k.shown = a /\ k.header = a /\ k.ledgerOf = None
      /\ k.boot = app[d].boot /\ k.contacts = app[d].contacts
  BY <1>0, <1>2 DEF AppType
<1>4. app' = [app EXCEPT ![d] = k]
  BY <1>1
<1> HIDE DEF k
<1>5. /\ app' \in [Devices -> AppType] /\ app'[d] = k
      /\ \A x \in Devices : x # d => app'[x] = app[x]
  BY <1>0, <1>3, <1>4
<1>6. /\ saved' \in [Devices -> Keys \cup {None}] /\ saved'[d] = a
      /\ \A x \in Devices : x # d => saved'[x] = saved[x]
  BY <1>0, <1>1, <1>2
<1>7. /\ request' \in [Requests -> RequestType] /\ request'[r] = Free
      /\ \A q \in Requests : q # r => request'[q] = request[q]
  BY <1>0, <1>1, <1>2, FreeType
<1>8. ASSUME NEW b \in Keys, b \notin Kept' PROVE b \notin Kept
  <2>1. \A x \in Devices : saved'[x] # b
    BY <1>6, <1>8 DEF Kept, Range
  <2>2. \A x \in Devices : saved[x] # b
    BY <1>2, <1>6, <1>8, <2>1, Names
  <2> QED BY <1>0, <2>2 DEF Kept, Range
<1>9. \A q \in Requests : request[q].by = d /\ request[q].acct \in Keys => q = r
  BY <1>0, <1>2 DEF SingleInv
<1> HIDE DEF a
<1>10. WalletTypes'
  BY <1>0, <1>1, <1>5, <1>6, <1>7 DEF WalletTypes
<1>11. RequestInv'
  <2> SUFFICES ASSUME NEW q \in Requests
               PROVE  /\ request'[q].at # "free" => request'[q].acct \in Accounts
                      /\ request'[q].at = "free" => request'[q] = Free
                      /\ request'[q].at = "done" => ledger[request'[q].acct].trusted
                      /\ request'[q].acct \in Keys /\ request'[q].by # None =>
                            /\ app'[request'[q].by].run = "wallet"
                            /\ saved'[request'[q].by] \in {None, request'[q].acct}
                      /\ request'[q].acct \in Keys \ Kept' => request'[q].by # None
    BY <1>1 DEF RequestInv
  <2>1. CASE q = r
    BY <1>7, <2>1, FreeType, Names
  <2>2. CASE q # r
    <3>1. request'[q] = request[q] /\ request[q].by \in Devices \cup {None}
      BY <1>0, <1>7, <2>2 DEF RequestType
    <3>2. request[q].acct \in Keys => request[q].by # d
      BY <1>9, <2>2
    <3> QED BY <1>0, <1>5, <1>6, <1>8, <3>1, <3>2 DEF RequestInv
  <2> QED BY <2>1, <2>2
<1>12. SingleInv'
  <2>1. \A q \in Requests : request'[q].acct \in Keys => request'[q] = request[q]
    BY <1>7, FreeType, Names
  <2> QED BY <1>0, <1>8, <2>1 DEF SingleInv
<1>13. ASSUME NEW x \in Devices PROVE PhoneInv(x)'
  <2>1. app[x].contacts = "asked" =>
          \A c \in Contacts : \E q \in Requests : request'[q].by = x /\ request'[q].acct = c
    BY <1>0, <1>2, <1>7, Names DEF PhoneInv, a
  <2>2. CASE x = d
    BY <1>0, <1>1, <1>2, <1>3, <1>5, <1>6, <2>1, <2>2 DEF PhoneInv, a
  <2>3. CASE x # d
    BY <1>0, <1>1, <1>5, <1>6, <2>1, <2>3 DEF PhoneInv
  <2> QED BY <2>2, <2>3
<1>14. \A x \in Devices : app[x].shown # None => app'[x].shown = app[x].shown
  BY <1>0, <1>2, <1>3, <1>5 DEF PhoneInv
<1>15. \A x \in Devices : saved[x] # None => saved'[x] = saved[x]
  BY <1>2, <1>6
<1> QED BY <1>1, <1>10, <1>11, <1>12, <1>13, <1>14, <1>15 DEF WalletInv

\* Requests of a phone that it does not hear any more: what it shows, and what the
\* other phones wait for, is as it was.
LEMMA UnheardKeeps ==
  ASSUME WalletInv, NEW d \in Devices, NEW rs \in SUBSET Requests, Unheard(rs), saved' = saved,
         \A r \in rs : request[r].by = d,
         app' \in [Devices -> AppType],
         \A x \in Devices : x # d => app'[x] = app[x],
         \/ app'[d].run = app[d].run
         \/ WalletRequests(d) \subseteq rs,
         app'[d].boot # "creating" => app'[d].run = "none",
         app'[d].run = "read" \/ app'[d].boot = "ready" => app'[d].shown # None,
         app'[d].shown \in {None, app[d].shown},
         app'[d].header = app'[d].shown,
         app'[d].ledgerOf \in {None, app'[d].shown},
         app'[d].contacts = "known" => \A c \in Contacts : ledger[c].trusted,
         app'[d].contacts = "asked" =>
            app[d].contacts = "asked" /\ \A r \in rs : request[r].acct \in Keys
  PROVE  WalletInv'
<1>0. /\ WalletTypes /\ RequestInv /\ SingleInv /\ \A x \in Devices : PhoneInv(x)
      /\ ledger \in [Accounts -> AccountType] /\ request \in [Requests -> RequestType]
      /\ saved \in [Devices -> Keys \cup {None}] /\ app \in [Devices -> AppType]
      /\ Kept' = Kept
  BY DEF WalletInv, WalletTypes, Kept
<1>1. Vain(rs) = {r \in rs : request[r].acct \in Keys \ Kept}
  BY DEF Vain, Kept
<1>2. request' = [r \in Requests |->
         IF r \notin rs THEN request[r]
         ELSE IF r \in Vain(rs) \/ request[r].at \in {"done", "failed"} THEN Free
         ELSE [request[r] EXCEPT !.by = None]]
  BY Zenon DEF Unheard
<1>3. ledger' = [a \in Accounts |->
         IF \E r \in Vain(rs) : request[r].acct = a THEN NoAccount ELSE ledger[a]]
  BY Zenon DEF Unheard
<1>4. ASSUME NEW r \in rs
      PROVE  /\ request'[r] \in RequestType /\ request'[r].by = None
             /\ \/ request'[r] = Free
                \/ /\ request'[r].acct = request[r].acct /\ request'[r].at = request[r].at
                   /\ request[r].at # "done" /\ request[r].acct \notin Keys \ Kept
  <2> DEFINE k == [request[r] EXCEPT !.by = None]
  <2>1. /\ request[r] \in RequestType
        /\ k \in RequestType /\ k.by = None /\ k.acct = request[r].acct /\ k.at = request[r].at
    BY <1>0 DEF RequestType
  <2> HIDE DEF k
  <2>2. request'[r] = IF r \in Vain(rs) \/ request[r].at \in {"done", "failed"} THEN Free ELSE k
    BY <1>2 DEF k
  <2>3. CASE r \in Vain(rs) \/ request[r].at \in {"done", "failed"}
    BY <2>2, <2>3, FreeType
  <2>4. CASE ~(r \in Vain(rs) \/ request[r].at \in {"done", "failed"})
    BY <1>1, <2>1, <2>2, <2>4
  <2> QED BY <2>3, <2>4
<1>5. \A r \in Requests : r \notin rs => request'[r] = request[r]
  BY <1>2
<1>6. request' \in [Requests -> RequestType]
  <2>1. ASSUME NEW r \in Requests PROVE request'[r] \in RequestType
    BY <1>0, <1>4, <1>5
  <2> QED BY <1>2, <2>1
<1>7. ASSUME NEW a \in Accounts
      PROVE  \/ ledger'[a] = ledger[a]
             \/ a \in Keys \ Kept /\ \E r \in rs : request[r].acct = a
  BY <1>1, <1>3
<1>8. ledger' \in [Accounts -> AccountType]
  <2>1. NoAccount \in AccountType
    BY DEF NoAccount, AccountType
  <2> QED BY <1>0, <1>3, <2>1
<1>9. WalletTypes'
  BY <1>0, <1>6, <1>8 DEF WalletTypes
<1>10. RequestInv'
  <2> SUFFICES ASSUME NEW q \in Requests
               PROVE  /\ request'[q].at # "free" => request'[q].acct \in Accounts
                      /\ request'[q].at = "free" => request'[q] = Free
                      /\ request'[q].at = "done" => ledger'[request'[q].acct].trusted
                      /\ request'[q].acct \in Keys /\ request'[q].by # None =>
                            /\ app'[request'[q].by].run = "wallet"
                            /\ saved[request'[q].by] \in {None, request'[q].acct}
                      /\ request'[q].acct \in Keys \ Kept => request'[q].by # None
    BY <1>0 DEF RequestInv
  <2>1. CASE q \in rs
    <3>1. CASE request'[q] = Free
      BY <3>1, FreeType, Names
    <3>2. CASE request'[q] # Free
      <4>1. /\ request'[q].acct = request[q].acct /\ request'[q].at = request[q].at
            /\ request[q].at # "done" /\ request[q].acct \notin Keys \ Kept
            /\ request'[q].by = None
        BY <1>4, <2>1, <3>2
      <4>2. request[q].at # "free"
        <5>1. request[q].by = d /\ d # None
          BY <2>1, Names
        <5> QED BY <1>0, <5>1, FreeType DEF RequestInv
      <4> QED BY <1>0, <4>1, <4>2 DEF RequestInv
    <3> QED BY <3>1, <3>2
  <2>2. CASE q \notin rs
    <3>1. request'[q] = request[q] /\ request[q].by \in Devices \cup {None}
      BY <1>0, <1>5, <2>2 DEF RequestType
    <3>2. request[q].at = "done" => ledger'[request[q].acct].trusted
      <4> SUFFICES ASSUME request[q].at = "done" PROVE ledger'[request[q].acct].trusted
        OBVIOUS
      <4>1. request[q].acct \in Accounts /\ ledger[request[q].acct].trusted
        BY <1>0 DEF RequestInv
      <4>2. ASSUME request[q].acct \in Keys \ Kept, NEW r \in rs, request[r].acct = request[q].acct
            PROVE  FALSE
        <5>1. q = r
          BY <1>0, <4>2 DEF SingleInv
        <5> QED BY <2>2, <5>1
      <4> QED BY <1>7, <4>1, <4>2
    <3>3. request[q].acct \in Keys /\ request[q].by = d => app'[d].run = "wallet"
      <4>1. request[q].acct \in Keys /\ request[q].by = d => q \in WalletRequests(d)
        BY DEF WalletRequests
      <4>2. request[q].acct \in Keys /\ request[q].by = d => app[d].run = "wallet"
        BY <1>0, Names DEF RequestInv
      <4> QED BY <2>2, <4>1, <4>2
    <3> QED BY <1>0, <3>1, <3>2, <3>3 DEF RequestInv
  <2> QED BY <2>1, <2>2
<1>11. SingleInv'
  <2>1. \A q \in Requests : /\ request'[q].acct \in {None, request[q].acct}
                            /\ request'[q].by \in {None, request[q].by}
    BY <1>4, <1>5, FreeType
  <2> QED BY <1>0, <2>1, Names DEF SingleInv
<1>12. ASSUME NEW x \in Devices PROVE PhoneInv(x)'
  <2>1. app[x].shown \in Keys \cup {None} /\ app[x].shown \in {None, saved[x]} /\ saved[x] \in Kept
    BY <1>0, SavedKept DEF AppType, PhoneInv
  <2>2. app[x].shown # None => ledger'[app[x].shown].trusted
    <3> SUFFICES ASSUME app[x].shown # None PROVE ledger'[app[x].shown].trusted
      OBVIOUS
    <3>1. app[x].shown \in Accounts /\ app[x].shown \in Kept /\ ledger[app[x].shown].trusted
      BY <1>0, <2>1, Names DEF PhoneInv
    <3> QED BY <1>7, <3>1
  <2>3. \A c \in Contacts : ledger'[c] = ledger[c]
    BY <1>7, Names
  <2>4. x # d => app'[x] = app[x]
    OBVIOUS
  <2>5. app'[x].contacts = "asked" =>
          \A c \in Contacts : \E q \in Requests : request'[q].by = x /\ request'[q].acct = c
    <3> SUFFICES ASSUME app'[x].contacts = "asked", NEW c \in Contacts
                 PROVE  \E q \in Requests : request'[q].by = x /\ request'[q].acct = c
      OBVIOUS
    <3>1. app[x].contacts = "asked"
      BY <2>4
    <3>2. PICK q \in Requests : request[q].by = x /\ request[q].acct = c
      BY <1>0, <3>1 DEF PhoneInv
    <3>3. q \notin rs
      BY <3>2, Names
    <3> QED BY <1>5, <3>2, <3>3
  <2>6. CASE x = d
    BY <2>1, <2>2, <2>3, <2>5, <2>6 DEF PhoneInv
  <2>7. CASE x # d
    BY <1>0, <2>1, <2>2, <2>3, <2>4, <2>5, <2>7 DEF PhoneInv
  <2> QED BY <2>6, <2>7
<1> QED BY <1>9, <1>10, <1>11, <1>12 DEF WalletInv

LEMMA GivesUpKeeps ==
  ASSUME WalletInv, NEW d \in Devices, GivesUp(d)
  PROVE  WalletInv' /\ app'[d].shown = app[d].shown
         /\ UNCHANGED <<saved, sessionVars, restarts>>
         /\ \A x \in Devices : x # d => app'[x] = app[x]
<1> DEFINE k == [app[d] EXCEPT !.run = "none", !.boot = "error"]
           rs == WalletRequests(d)
<1>0. /\ app[d] \in AppType /\ app \in [Devices -> AppType] /\ PhoneInv(d)
      /\ app' = [app EXCEPT ![d] = k] /\ Unheard(rs)
      /\ UNCHANGED <<saved, sessionVars, restarts>>
  BY DEF WalletInv, WalletTypes, GivesUp
<1>1. /\ k \in AppType /\ k.run = "none" /\ k.boot = "error"
      /\ k.shown = app[d].shown /\ k.header = app[d].header /\ k.ledgerOf = app[d].ledgerOf
      /\ k.contacts = app[d].contacts
  BY <1>0 DEF AppType
<1> HIDE DEF k
<1>2. /\ app' \in [Devices -> AppType] /\ app'[d] = k
      /\ \A x \in Devices : x # d => app'[x] = app[x]
  BY <1>0, <1>1
<1>3. rs \in SUBSET Requests /\ \A r \in rs : request[r].by = d /\ request[r].acct \in Keys
  BY DEF WalletRequests
<1>4. /\ app'[d].header = app'[d].shown /\ app'[d].ledgerOf \in {None, app'[d].shown}
      /\ app'[d].contacts = "known" => \A c \in Contacts : ledger[c].trusted
  BY <1>0, <1>1, <1>2 DEF PhoneInv
<1> HIDE DEF rs
<1>5. WalletRequests(d) \subseteq rs
  BY DEF rs
<1>6. WalletInv'
  BY <1>0, <1>1, <1>2, <1>3, <1>4, <1>5, UnheardKeeps
<1> QED BY <1>0, <1>1, <1>2, <1>6

LEMMA ContactSteps ==
  ASSUME WalletInv, NEW d \in Devices, ContactsResolved(d) \/ ContactsFail(d)
  PROVE  WalletInv' /\ app'[d].shown = app[d].shown
         /\ UNCHANGED <<saved, sessionVars, restarts>>
         /\ \A x \in Devices : x # d => app'[x] = app[x]
<1> DEFINE rs == ContactRequests(d)
<1>0. /\ app[d] \in AppType /\ app \in [Devices -> AppType] /\ PhoneInv(d) /\ RequestInv
      /\ app[d].contacts = "asked" /\ Unheard(rs)
      /\ UNCHANGED <<saved, sessionVars, restarts>>
  BY DEF WalletInv, WalletTypes, ContactsResolved, ContactsFail
<1>1. rs \in SUBSET Requests /\ \A r \in rs : request[r].by = d
  BY DEF ContactRequests
<1>2. PICK next \in {"known", "unknown"} :
        /\ app' = [app EXCEPT ![d].contacts = next]
        /\ next = "known" => \A r \in ContactRequests(d) : request[r].at = "done"
  BY DEF ContactsResolved, ContactsFail
<1>3. next = "known" => \A c \in Contacts : ledger[c].trusted
  <2> SUFFICES ASSUME next = "known", NEW c \in Contacts PROVE ledger[c].trusted
    OBVIOUS
  <2>1. PICK r \in Requests : request[r].by = d /\ request[r].acct = c
    BY <1>0 DEF PhoneInv
  <2>2. r \in ContactRequests(d)
    BY <2>1 DEF ContactRequests
  <2>3. request[r].at = "done"
    BY <1>2, <2>2
  <2> QED BY <1>0, <2>1, <2>3 DEF RequestInv
<1> DEFINE k == [app[d] EXCEPT !.contacts = next]
<1>4. /\ k \in AppType /\ k.run = app[d].run /\ k.boot = app[d].boot
      /\ k.shown = app[d].shown /\ k.header = app[d].header /\ k.ledgerOf = app[d].ledgerOf
      /\ k.contacts = next
  BY <1>0 DEF AppType
<1>5. app' = [app EXCEPT ![d] = k]
  BY <1>2
<1> HIDE DEF k, rs
<1>6. /\ app' \in [Devices -> AppType] /\ app'[d] = k
      /\ \A x \in Devices : x # d => app'[x] = app[x]
  BY <1>0, <1>4, <1>5
<1>7. /\ app'[d].header = app'[d].shown /\ app'[d].ledgerOf \in {None, app'[d].shown}
      /\ app'[d].boot # "creating" => app'[d].run = "none"
      /\ app'[d].run = "read" \/ app'[d].boot = "ready" => app'[d].shown # None
      /\ app'[d].shown = app[d].shown /\ app'[d].run = app[d].run /\ app'[d].contacts = next
  BY <1>0, <1>4, <1>6 DEF PhoneInv
<1>8. WalletInv'
  BY <1>0, <1>1, <1>3, <1>6, <1>7, UnheardKeeps
<1> QED BY <1>0, <1>6, <1>7, <1>8

LEMMA ContactsAsked ==
  ASSUME WalletInv, NEW d \in Devices, resolveAll(d)
  PROVE  WalletInv' /\ app'[d].shown = app[d].shown
         /\ UNCHANGED <<saved, sessionVars, restarts>>
         /\ \A x \in Devices : x # d => app'[x] = app[x]
<1> DEFINE k == [app[d] EXCEPT !.contacts = "asked"]
<1>0. /\ WalletTypes /\ RequestInv /\ SingleInv /\ \A x \in Devices : PhoneInv(x)
      /\ app[d] \in AppType /\ app \in [Devices -> AppType]
      /\ request \in [Requests -> RequestType]
      /\ app' = [app EXCEPT ![d] = k]
      /\ UNCHANGED <<ledger, saved, sessionVars, restarts>>
      /\ Kept' = Kept
  BY DEF WalletInv, WalletTypes, resolveAll, Kept
<1>1. PICK f \in Injection(Contacts, {r \in Requests : request[r] = Free}) :
         request' = [r \in Requests |->
             IF \E c \in Contacts : f[c] = r
             THEN Asked(CHOOSE c \in Contacts : f[c] = r, d)
             ELSE request[r]]
  BY Zenon DEF resolveAll
<1>2. /\ \A c \in Contacts : f[c] \in Requests /\ request[f[c]] = Free
      /\ \A b, c \in Contacts : f[b] = f[c] => b = c
  BY DEF Injection, IsInjective
<1>3. ASSUME NEW c \in Contacts
      PROVE  request'[f[c]] = Asked(c, d)
  <2>1. \A b \in Contacts : f[b] = f[c] => b = c
    BY <1>2
  <2>2. (CHOOSE b \in Contacts : f[b] = f[c]) \in Contacts
        /\ f[CHOOSE b \in Contacts : f[b] = f[c]] = f[c]
    BY Zenon
  <2>3. (CHOOSE b \in Contacts : f[b] = f[c]) = c
    BY <2>1, <2>2
  <2>4. request'[f[c]] = Asked(CHOOSE b \in Contacts : f[b] = f[c], d)
    BY <1>1, <1>2
  <2> QED BY <2>3, <2>4
<1>4. \A r \in Requests : (\A c \in Contacts : f[c] # r) => request'[r] = request[r]
  BY <1>1
<1>5. \A c \in Contacts : /\ Asked(c, d) \in RequestType /\ Asked(c, d).at = "exists"
                          /\ Asked(c, d).acct = c /\ Asked(c, d).by = d
                          /\ c \in Accounts /\ c \notin Keys
  BY AskedType, Names
<1>6. ASSUME NEW r \in Requests
      PROVE  \/ request'[r] = request[r]
             \/ /\ request[r] = Free
                /\ \E c \in Contacts : request'[r] = Asked(c, d)
  <2>1. CASE \E c \in Contacts : f[c] = r
    BY <1>2, <1>3, <2>1
  <2>2. CASE \A c \in Contacts : f[c] # r
    BY <1>4, <2>2
  <2> QED BY <2>1, <2>2
<1>7. /\ k \in AppType /\ k.run = app[d].run /\ k.boot = app[d].boot
      /\ k.shown = app[d].shown /\ k.header = app[d].header /\ k.ledgerOf = app[d].ledgerOf
      /\ k.contacts = "asked"
  BY <1>0 DEF AppType
<1> HIDE DEF k
<1>8. /\ app' \in [Devices -> AppType] /\ app'[d] = k
      /\ \A x \in Devices : x # d => app'[x] = app[x]
  BY <1>0, <1>7
<1>9. WalletTypes'
  <2>1. \A r \in Requests : request'[r] \in RequestType
    BY <1>0, <1>5, <1>6
  <2>2. request' \in [Requests -> RequestType]
    BY <1>1, <2>1
  <2> QED BY <1>0, <1>8, <2>2 DEF WalletTypes
<1>10. \A x \in Devices : app'[x].run = app[x].run
  BY <1>7, <1>8
<1>11. RequestInv'
  <2> SUFFICES ASSUME NEW q \in Requests
               PROVE  /\ request'[q].at # "free" => request'[q].acct \in Accounts
                      /\ request'[q].at = "free" => request'[q] = Free
                      /\ request'[q].at = "done" => ledger[request'[q].acct].trusted
                      /\ request'[q].acct \in Keys /\ request'[q].by # None =>
                            /\ app'[request'[q].by].run = "wallet"
                            /\ saved[request'[q].by] \in {None, request'[q].acct}
                      /\ request'[q].acct \in Keys \ Kept => request'[q].by # None
    BY <1>0 DEF RequestInv
  <2>1. CASE request'[q] = request[q]
    <3>1. request[q].by \in Devices \cup {None}
      BY <1>0 DEF RequestType
    <3> QED BY <1>0, <1>10, <2>1, <3>1 DEF RequestInv
  <2>2. CASE \E c \in Contacts : request'[q] = Asked(c, d)
    BY <1>5, <2>2
  <2> QED BY <1>6, <2>1, <2>2
<1>12. SingleInv'
  <2>1. \A q \in Requests : request'[q].acct \in Keys => request'[q] = request[q]
    BY <1>5, <1>6
  <2> QED BY <1>0, <2>1 DEF SingleInv
<1>13. ASSUME NEW x \in Devices PROVE PhoneInv(x)'
  <2>1. /\ app'[x].shown = app[x].shown /\ app'[x].header = app[x].header
        /\ app'[x].ledgerOf = app[x].ledgerOf /\ app'[x].run = app[x].run
        /\ app'[x].boot = app[x].boot
    BY <1>7, <1>8
  <2>2. CASE x = d
    <3>1. \A c \in Contacts : \E r \in Requests : request'[r].by = d /\ request'[r].acct = c
      BY <1>2, <1>3, <1>5
    <3> QED BY <1>0, <1>7, <1>8, <2>1, <2>2, <3>1 DEF PhoneInv
  <2>3. CASE x # d
    <3>1. \A r \in Requests : request[r].by = x => request'[r] = request[r]
      BY <1>6, FreeType, Names
    <3>2. app[x].contacts = "asked" =>
            \A c \in Contacts : \E r \in Requests : request'[r].by = x /\ request'[r].acct = c
      BY <1>0, <3>1 DEF PhoneInv
    <3> QED BY <1>0, <1>8, <2>1, <2>3, <3>2 DEF PhoneInv
  <2> QED BY <2>2, <2>3
<1> QED BY <1>0, <1>7, <1>8, <1>9, <1>11, <1>12, <1>13 DEF WalletInv

----------------------------------------------------------------------------
(* Restarts *)

LEMMA AppStartsWallet ==
  ASSUME WalletInv, NEW d \in Devices, AppStarts(d)
  PROVE  WalletInv' /\ app'[d].shown = None /\ saved' = saved
         /\ \A x \in Devices : x # d => app'[x] = app[x]
<1> DEFINE k == FreshApp(saved[d] # None)
           rs == WalletRequests(d) \cup ContactRequests(d)
<1>0. /\ app \in [Devices -> AppType] /\ app' = [app EXCEPT ![d] = k] /\ Unheard(rs)
      /\ saved' = saved
  BY DEF WalletInv, WalletTypes, AppStarts
<1>1. /\ k \in AppType /\ k.run = "none" /\ k.boot # "ready" /\ k.header = None
      /\ k.shown = None /\ k.ledgerOf = None /\ k.contacts = "unknown"
  BY FreshType
<1> HIDE DEF k
<1>2. /\ app' \in [Devices -> AppType] /\ app'[d] = k
      /\ \A x \in Devices : x # d => app'[x] = app[x]
  BY <1>0, <1>1
<1>3. /\ rs \in SUBSET Requests /\ \A r \in rs : request[r].by = d
      /\ WalletRequests(d) \subseteq rs
  BY DEF WalletRequests, ContactRequests
<1> HIDE DEF rs
<1>4. WalletInv'
  BY <1>0, <1>1, <1>2, <1>3, UnheardKeeps
<1> QED BY <1>0, <1>1, <1>2, <1>4

LEMMA BackendStartsWallet ==
  ASSUME WalletInv, BackendStarts
  PROVE  WalletInv'
<1>0. /\ WalletTypes /\ RequestInv /\ SingleInv /\ \A x \in Devices : PhoneInv(x)
      /\ request \in [Requests -> RequestType]
      /\ UNCHANGED <<ledger, saved, app>> /\ Kept' = Kept
      /\ request' = [r \in Requests |->
            IF request[r].by = None THEN Free ELSE [request[r] EXCEPT !.at = "failed"]]
  BY DEF WalletInv, WalletTypes, BackendStarts, Kept
<1>1. ASSUME NEW r \in Requests
      PROVE  /\ request'[r] \in RequestType
             /\ \/ request'[r] = Free /\ request[r].by = None
                \/ /\ request'[r].acct = request[r].acct /\ request'[r].by = request[r].by
                   /\ request'[r].at = "failed" /\ request[r].by # None
  <2> DEFINE k == [request[r] EXCEPT !.at = "failed"]
  <2>1. k \in RequestType /\ k.acct = request[r].acct /\ k.by = request[r].by /\ k.at = "failed"
    BY <1>0 DEF RequestType
  <2>2. request'[r] = IF request[r].by = None THEN Free ELSE k
    BY <1>0
  <2> HIDE DEF k
  <2> QED BY <2>1, <2>2, FreeType
<1>2. WalletTypes'
  BY <1>0, <1>1 DEF WalletTypes
<1>3. RequestInv'
  <2> SUFFICES ASSUME NEW q \in Requests
               PROVE  /\ request'[q].at # "free" => request'[q].acct \in Accounts
                      /\ request'[q].at = "free" => request'[q] = Free
                      /\ request'[q].at = "done" => ledger[request'[q].acct].trusted
                      /\ request'[q].acct \in Keys /\ request'[q].by # None =>
                            /\ app[request'[q].by].run = "wallet"
                            /\ saved[request'[q].by] \in {None, request'[q].acct}
                      /\ request'[q].acct \in Keys \ Kept => request'[q].by # None
    BY <1>0 DEF RequestInv
  <2>1. CASE request'[q] = Free
    BY <2>1, FreeType, Names
  <2>2. CASE request'[q] # Free
    <3>1. /\ request'[q].acct = request[q].acct /\ request'[q].by = request[q].by
          /\ request'[q].at = "failed" /\ request[q].by # None
      BY <1>1, <2>2
    <3>2. request[q].at # "free"
      BY <1>0, <3>1, FreeType DEF RequestInv
    <3> QED BY <1>0, <3>1, <3>2 DEF RequestInv
  <2> QED BY <2>1, <2>2
<1>4. SingleInv'
  <2>1. \A q \in Requests : request'[q].acct \in Keys =>
           request'[q].acct = request[q].acct /\ request'[q].by = request[q].by
    BY <1>1, FreeType, Names
  <2> QED BY <1>0, <2>1 DEF SingleInv
<1>5. ASSUME NEW x \in Devices PROVE PhoneInv(x)'
  <2>1. \A q \in Requests : request[q].by = x =>
           request'[q].acct = request[q].acct /\ request'[q].by = x
    BY <1>1, Names
  <2>2. app[x].contacts = "asked" =>
          \A c \in Contacts : \E q \in Requests : request'[q].by = x /\ request'[q].acct = c
    BY <1>0, <2>1 DEF PhoneInv
  <2> QED BY <1>0, <2>2 DEF PhoneInv
<1> QED BY <1>2, <1>3, <1>4, <1>5 DEF WalletInv

----------------------------------------------------------------------------
(* The session with the bank *)

\* What a phone does about its wallet leaves the account it shows, and its sessions.
LEMMA SessionKept ==
  ASSUME FullInv, UNCHANGED <<sessionVars, restarts>>,
         \A x \in Devices : app[x].shown # None => app'[x].shown = app[x].shown
  PROVE  SessionTypes' /\ SessionInv'
<1>0. /\ SessionTypes /\ SessionInv
      /\ UNCHANGED <<store, age, customers, cache, ensure, lost, restarts>>
  BY DEF FullInv, sessionVars
<1>1. SessionTypes'
  BY <1>0 DEF SessionTypes
<1>2. \A d \in Devices, s \in Sids : Holds(d, s)' = Holds(d, s)
  BY <1>0 DEF Holds
<1>3. \A d \in Devices : cache[d] # None => app[d].shown # None
  BY <1>0 DEF SessionTypes, SessionInv, Holds
<1>4. SessionInv'
  BY <1>0, <1>2, <1>3 DEF SessionInv
<1> QED BY <1>1, <1>4

LEMMA FlowGives ==
  ASSUME SessionTypes, NEW d \in Devices, NEW e \in Ensures,
         NEW at \in {"none", "auth", "put", "call"}, NEW s \in Sids \cup {None}, Flow(d, e, at, s)
  PROVE  /\ ensure' \in [Devices -> [Ensures -> EnsureType]]
         /\ ensure'[d][e].at = at /\ ensure'[d][e].sid = s
         /\ \A x \in Devices, f \in Ensures :
               ensure'[x][f] = ensure[x][f] \/ (x = d /\ f = e)
<1> DEFINE k == [at |-> at, sid |-> s]
           g == [ensure[d] EXCEPT ![e] = k]
<1>0. ensure \in [Devices -> [Ensures -> EnsureType]] /\ ensure[d] \in [Ensures -> EnsureType]
  BY DEF SessionTypes
<1>1. k \in EnsureType /\ k.at = at /\ k.sid = s
  BY DEF EnsureType
<1>2. ensure' = [ensure EXCEPT ![d] = g]
  BY DEF Flow
<1> HIDE DEF k
<1>3. /\ g \in [Ensures -> EnsureType] /\ g[e] = k
      /\ \A f \in Ensures : f # e => g[f] = ensure[d][f]
  BY <1>0, <1>1
<1> HIDE DEF g
<1>4. /\ ensure' \in [Devices -> [Ensures -> EnsureType]] /\ ensure'[d] = g
      /\ \A x \in Devices : x # d => ensure'[x] = ensure[x]
  BY <1>0, <1>2, <1>3
<1> QED BY <1>1, <1>3, <1>4

\* A flow that holds no session it did not hold: the sessions that go leave the store
\* when their time is over.
LEMMA EnsureKeeps ==
  ASSUME FullInv, NEW d \in Devices, NEW e \in Ensures,
         NEW at \in {"none", "auth", "put", "call"}, NEW s \in Sids \cup {None}, Flow(d, e, at, s),
         UNCHANGED <<walletVars, age, lost, restarts>>,
         s # None => Holds(d, s),
         at # "none" => app[d].shown # None, at \in {"put", "call"} => s # None,
         store' = store \/ \E z \in Sids : store' = Resolved(z),
         customers \subseteq customers', customers' \subseteq Accounts \cup {EnvAccount},
         \/ cache' = cache
         \/ s \in Sids /\ cache' = [cache EXCEPT ![d] = s] /\ app[d].shown \in customers'
  PROVE  WalletInv' /\ SessionTypes' /\ SessionInv'
<1>0. /\ WalletInv /\ SessionTypes /\ SessionInv /\ None \notin Sids
      /\ UNCHANGED <<ledger, request, saved, app>>
  BY Names DEF FullInv, walletVars
<1>1. /\ ensure' \in [Devices -> [Ensures -> EnsureType]]
      /\ ensure'[d][e].at = at /\ ensure'[d][e].sid = s
      /\ \A x \in Devices, f \in Ensures :
            ensure'[x][f] = ensure[x][f] \/ (x = d /\ f = e)
  BY <1>0, FlowGives
<1>2. /\ store' \in [Sids -> Accounts \cup {None, EnvAccount}]
      /\ \A z \in Sids : store'[z] = store[z] \/ (store'[z] = None /\ age[z] > Life)
  BY <1>0 DEF SessionTypes, Resolved
<1>3. /\ cache' \in [Devices -> Sids \cup {None}]
      /\ \A x \in Devices : cache'[x] = cache[x] \/ (x = d /\ cache'[x] = s /\ s \in Sids)
  BY <1>0 DEF SessionTypes
<1>4. SessionTypes'
  BY <1>0, <1>1, <1>2, <1>3 DEF SessionTypes
<1>5. WalletInv'
  BY <1>0 DEF WalletInv, WalletTypes, RequestInv, SingleInv, PhoneInv, Kept
<1>6. ASSUME NEW x \in Devices, NEW z \in Sids, Holds(x, z)' PROVE Holds(x, z)
  <2>1. CASE cache'[x] = z
    BY <1>0, <1>3, <2>1 DEF Holds
  <2>2. CASE \E f \in Ensures : ensure'[x][f].sid = z
    <3>1. PICK f \in Ensures : ensure'[x][f].sid = z
      BY <2>2
    <3> QED BY <1>0, <1>1, <3>1 DEF Holds
  <2> QED BY <1>6, <2>1, <2>2 DEF Holds
<1>7. ASSUME NEW x \in Devices, NEW z \in Sids, Holds(x, z)'
      PROVE  app[x].shown # None /\ (z \in lost \/ age[z] > Life \/ store'[z] = app[x].shown)
  BY <1>0, <1>2, <1>6, <1>7 DEF SessionInv
<1>8. ASSUME NEW x \in Devices, NEW f \in Ensures
      PROVE  /\ ensure'[x][f].at # "none" => app[x].shown # None
             /\ ensure'[x][f].at \in {"put", "call"} => ensure'[x][f].sid # None
  BY <1>0, <1>1 DEF SessionInv
<1>9. \A x \in Devices : cache'[x] # None => app[x].shown \in customers'
  BY <1>0, <1>3 DEF SessionInv
<1>10. \A z \in lost : store'[z] = None
  BY <1>0, <1>2 DEF SessionInv, SessionTypes
<1>11. SessionInv'
  BY <1>0, <1>7, <1>8, <1>9, <1>10 DEF SessionInv
<1> QED BY <1>4, <1>5, <1>11

LEMMA EnsureSteps ==
  ASSUME FullInv, NEW d \in Devices, NEW e \in Ensures,
         \/ ensureAnchorSession(d, e) \/ anchorCustomerPut(d, e)
         \/ EnsureFails(d, e) \/ jwtFromSession(d, e)
  PROVE  WalletInv' /\ SessionTypes' /\ SessionInv' /\ UNCHANGED saved
<1>0. /\ WalletInv /\ SessionTypes /\ SessionInv /\ None \notin Sids
      /\ cache[d] \in Sids \cup {None} /\ ensure[d][e] \in EnsureType
      /\ ensure[d][e].sid \in Sids \cup {None} /\ PhoneInv(d)
      /\ customers \subseteq Accounts \cup {EnvAccount}
      /\ store \in [Sids -> Accounts \cup {None, EnvAccount}]
  BY Names DEF FullInv, SessionTypes, EnsureType, WalletInv
<1>1. /\ ensure[d][e].at # "none" => app[d].shown # None
      /\ ensure[d][e].at \in {"put", "call"} => ensure[d][e].sid \in Sids
      /\ \A s \in Sids : Resolves(s) /\ Holds(d, s) => store[s] = app[d].shown
  <2>1. ASSUME NEW s \in Sids, Resolves(s), Holds(d, s) PROVE store[s] = app[d].shown
    <3>1. store[s] # None /\ ~(age[s] > Life)
      BY <1>0, <2>1, Names DEF Resolves, SessionTypes
    <3> QED BY <1>0, <2>1, <3>1 DEF SessionInv
  <2> QED BY <1>0, <2>1 DEF SessionInv
<1>2. CASE ensureAnchorSession(d, e)
  <2>1. /\ UNCHANGED <<walletVars, store, age, customers, cache, lost, restarts>>
        /\ app[d].boot = "ready" /\ app[d].shown # None
    BY <1>0, <1>2 DEF ensureAnchorSession, PhoneInv
  <2>2. CASE CacheIsGood(d) /\ Flow(d, e, "call", cache[d])
    <3>1. cache[d] # None /\ Holds(d, cache[d])
      BY <2>2 DEF CacheIsGood, Holds
    <3> QED BY <1>0, <2>1, <2>2, <3>1, EnsureKeeps DEF walletVars
  <2>3. CASE Flow(d, e, "auth", None)
    BY <1>0, <2>1, <2>3, EnsureKeeps DEF walletVars
  <2> QED BY <1>2, <2>2, <2>3 DEF ensureAnchorSession
<1>3. CASE anchorCustomerPut(d, e)
  <2> DEFINE s == ensure[d][e].sid
  <2>1. /\ ensure[d][e].at = "put" /\ store' = Resolved(s)
        /\ UNCHANGED <<walletVars, age, lost, restarts>>
    BY <1>3 DEF anchorCustomerPut
  <2>2. s \in Sids /\ s # None /\ Holds(d, s) /\ app[d].shown # None
    BY <1>0, <1>1, <2>1 DEF Holds
  <2>3. CASE Resolves(s)
    <3>1. /\ customers' = customers \cup {store[s]} /\ cache' = [cache EXCEPT ![d] = s]
          /\ Flow(d, e, "call", s)
      BY <1>3, <2>3 DEF anchorCustomerPut
    <3>2. store[s] = app[d].shown /\ store[s] # None
      BY <1>1, <2>2, <2>3
    <3>3. /\ customers \subseteq customers' /\ app[d].shown \in customers'
          /\ customers' \subseteq Accounts \cup {EnvAccount}
      BY <1>0, <2>2, <3>1, <3>2
    <3> QED BY <2>1, <2>2, <3>1, <3>3, EnsureKeeps DEF walletVars
  <2>4. CASE ~Resolves(s)
    <3>1. UNCHANGED <<customers, cache>> /\ Flow(d, e, "none", None)
      BY <1>3, <2>4 DEF anchorCustomerPut
    <3> QED BY <1>0, <2>1, <2>2, <3>1, EnsureKeeps DEF walletVars
  <2> QED BY <2>3, <2>4
<1>4. CASE EnsureFails(d, e)
  <2> DEFINE s == ensure[d][e].sid
  <2>1. /\ Flow(d, e, "none", None) /\ UNCHANGED <<walletVars, store, age, cache, lost, restarts>>
    BY <1>4 DEF EnsureFails
  <2>2. \/ customers' = customers
        \/ ensure[d][e].at = "put" /\ Resolves(s) /\ customers' = customers \cup {store[s]}
    BY <1>4 DEF EnsureFails
  <2>3. ensure[d][e].at = "put" => store[s] \in Accounts \cup {EnvAccount, None}
    BY <1>0, <1>1
  <2>4. Resolves(s) => store[s] # None
    BY DEF Resolves
  <2>5. customers \subseteq customers' /\ customers' \subseteq Accounts \cup {EnvAccount}
    BY <1>0, <2>2, <2>3, <2>4
  <2> QED BY <1>0, <2>1, <2>5, EnsureKeeps DEF walletVars
<1>5. CASE jwtFromSession(d, e)
  <2>1. /\ Flow(d, e, "none", None) /\ UNCHANGED <<walletVars, age, customers, cache, lost, restarts>>
        /\ ensure[d][e].at = "call" /\ store' = Resolved(ensure[d][e].sid)
    BY <1>5 DEF jwtFromSession
  <2>2. ensure[d][e].sid \in Sids
    BY <1>1, <2>1
  <2> QED BY <1>0, <2>1, <2>2, EnsureKeeps DEF walletVars
<1> QED BY <1>2, <1>3, <1>4, <1>5

\* The rest of the steps leave the wallets alone.
LEMMA WalletKept ==
  WalletInv /\ UNCHANGED walletVars => WalletInv'
  BY DEF walletVars, WalletInv, WalletTypes, RequestInv, SingleInv, PhoneInv, Kept

\* A new session is for the account its phone shows, and nobody held its id.
LEMMA SessionMade ==
  ASSUME FullInv, NEW d \in Devices, NEW e \in Ensures, demoSep10(d, e)
  PROVE  SessionTypes' /\ SessionInv' /\ UNCHANGED walletVars
<1> DEFINE n == randomUUID
<1>0. /\ WalletInv /\ SessionTypes /\ SessionInv /\ None \notin Sids /\ PhoneInv(d)
      /\ store \in [Sids -> Accounts \cup {None, EnvAccount}]
      /\ age \in [Sids -> 0..(Life + 1)] /\ Life \in Nat
      /\ app[d].shown \in Keys \cup {None}
  BY Names DEF FullInv, SessionTypes, WalletInv, WalletTypes, AppType
<1>1. /\ ensure[d][e].at = "auth" /\ \E s \in Sids : IsNewSid(s)
      /\ store' = [store EXCEPT ![n] = signerForRequest(app[d].header)]
      /\ age' = [age EXCEPT ![n] = 0] /\ lost' = lost \ {n} /\ Flow(d, e, "put", n)
      /\ UNCHANGED <<walletVars, customers, cache, restarts>>
  BY DEF demoSep10
<1>2. n \in Sids /\ IsNewSid(n)
  <2>1. \E s \in Sids : IsNewSid(s)
    BY <1>1
  <2> QED BY <2>1, Zenon DEF randomUUID
<1> HIDE DEF n
<1>3. \A x \in Devices : ~Holds(x, n)
  BY <1>2 DEF IsNewSid, Holds
<1>4. app[d].shown # None /\ signerForRequest(app[d].header) = app[d].shown
  BY <1>0, <1>1 DEF SessionInv, PhoneInv, signerForRequest
<1>5. /\ ensure' \in [Devices -> [Ensures -> EnsureType]]
      /\ ensure'[d][e].at = "put" /\ ensure'[d][e].sid = n
      /\ \A x \in Devices, f \in Ensures :
            ensure'[x][f] = ensure[x][f] \/ (x = d /\ f = e)
  BY <1>0, <1>1, <1>2, FlowGives
<1>6. /\ store' \in [Sids -> Accounts \cup {None, EnvAccount}] /\ store'[n] = app[d].shown
      /\ \A s \in Sids : s # n => store'[s] = store[s]
  BY <1>0, <1>1, <1>2, <1>4, Names
<1>7. /\ age' \in [Sids -> 0..(Life + 1)]
      /\ \A s \in Sids : s # n => age'[s] = age[s]
  BY <1>0, <1>1, <1>2
<1>8. SessionTypes'
  BY <1>0, <1>1, <1>5, <1>6, <1>7 DEF SessionTypes
<1>9. UNCHANGED <<app, cache, customers>>
  BY <1>1 DEF walletVars
<1>10. ASSUME NEW x \in Devices, NEW s \in Sids, Holds(x, s)'
       PROVE  /\ app[x].shown # None
              /\ s \in lost' \/ age'[s] > Life \/ store'[s] = app[x].shown
  <2>1. CASE s # n
    <3>1. Holds(x, s)
      <4>1. CASE cache'[x] = s
        BY <1>9, <4>1 DEF Holds
      <4>2. CASE \E f \in Ensures : ensure'[x][f].sid = s
        BY <1>5, <2>1, <4>2 DEF Holds
      <4> QED BY <1>10, <4>1, <4>2 DEF Holds
    <3> QED BY <1>0, <1>1, <1>6, <1>7, <2>1, <3>1 DEF SessionInv
  <2>2. CASE s = n
    <3>1. x = d
      BY <1>3, <1>5, <1>9, <1>10, <2>2 DEF Holds
    <3> QED BY <1>4, <1>6, <2>2, <3>1
  <2> QED BY <2>1, <2>2
<1>11. ASSUME NEW x \in Devices, NEW f \in Ensures
       PROVE  /\ ensure'[x][f].at # "none" => app[x].shown # None
              /\ ensure'[x][f].at \in {"put", "call"} => ensure'[x][f].sid # None
  BY <1>0, <1>2, <1>4, <1>5 DEF SessionInv
<1>12. \A s \in lost' : store'[s] = None
  BY <1>0, <1>1, <1>6 DEF SessionInv, SessionTypes
<1>13. SessionInv'
  BY <1>0, <1>9, <1>10, <1>11, <1>12 DEF SessionInv
<1> QED BY <1>1, <1>8, <1>13

LEMMA TimeKeeps ==
  ASSUME FullInv, TimePasses
  PROVE  SessionTypes' /\ SessionInv' /\ UNCHANGED walletVars
<1>0. /\ SessionTypes /\ SessionInv /\ Life \in Nat /\ age \in [Sids -> 0..(Life + 1)]
      /\ UNCHANGED <<walletVars, store, customers, cache, ensure, lost, restarts>>
      /\ UNCHANGED app
  BY Names DEF FullInv, SessionTypes, TimePasses, walletVars
<1>1. age' = [s \in Sids |->
         IF IsNewSid(s) THEN 0 ELSE IF age[s] > Life THEN age[s] ELSE age[s] + 1]
  BY DEF TimePasses
<1>2. ASSUME NEW s \in Sids PROVE age'[s] \in 0..(Life + 1)
  BY <1>0, <1>1
<1>3. age' \in [Sids -> 0..(Life + 1)]
  BY <1>1, <1>2
<1>4. SessionTypes'
  BY <1>0, <1>3 DEF SessionTypes
<1>5. \A x \in Devices, s \in Sids : Holds(x, s)' = Holds(x, s)
  BY <1>0 DEF Holds
<1>6. ASSUME NEW x \in Devices, NEW s \in Sids, Holds(x, s), age[s] > Life PROVE age'[s] > Life
  <2>1. ~IsNewSid(s)
    BY <1>6 DEF IsNewSid, Holds
  <2> QED BY <1>1, <1>6, <2>1
<1>7. SessionInv'
  BY <1>0, <1>5, <1>6 DEF SessionInv
<1> QED BY <1>0, <1>4, <1>7

LEMMA AppStartsKeeps ==
  ASSUME FullInv, NEW d \in Devices, AppStarts(d)
  PROVE  FullInv' /\ saved' = saved
<1>0. /\ WalletInv /\ SessionTypes /\ SessionInv /\ None \notin Sids
      /\ UNCHANGED <<store, age, customers, lost>>
      /\ restarts < MaxRestarts /\ restarts' = restarts + 1
      /\ cache' = [cache EXCEPT ![d] = None]
      /\ ensure' = [ensure EXCEPT ![d] = [e \in Ensures |-> NoEnsure]]
  BY Names DEF FullInv, AppStarts
<1>1. /\ WalletInv' /\ app'[d].shown = None /\ saved' = saved
      /\ \A x \in Devices : x # d => app'[x] = app[x]
  BY <1>0, AppStartsWallet
<1>2. NoEnsure \in EnsureType /\ NoEnsure.at = "none" /\ NoEnsure.sid = None
  BY DEF NoEnsure, EnsureType
<1>3. /\ cache' \in [Devices -> Sids \cup {None}] /\ cache'[d] = None
      /\ \A x \in Devices : x # d => cache'[x] = cache[x]
  BY <1>0 DEF SessionTypes
<1>4. /\ ensure' \in [Devices -> [Ensures -> EnsureType]]
      /\ \A e \in Ensures : ensure'[d][e] = NoEnsure
      /\ \A x \in Devices : x # d => ensure'[x] = ensure[x]
  BY <1>0, <1>2 DEF SessionTypes
<1>5. restarts' \in 0..MaxRestarts
  BY <1>0, Names DEF SessionTypes
<1>6. SessionTypes'
  BY <1>0, <1>3, <1>4, <1>5 DEF SessionTypes
<1>7. ASSUME NEW x \in Devices, NEW s \in Sids, Holds(x, s)' PROVE x # d /\ Holds(x, s)
  BY <1>0, <1>2, <1>3, <1>4, <1>7 DEF Holds
<1>8. SessionInv'
  BY <1>0, <1>1, <1>2, <1>3, <1>4, <1>7 DEF SessionInv
<1> QED BY <1>1, <1>6, <1>8 DEF FullInv

LEMMA BackendStartsKeeps ==
  ASSUME FullInv, BackendStarts
  PROVE  FullInv' /\ saved' = saved
<1>0. /\ WalletInv /\ SessionTypes /\ SessionInv /\ None \notin Sids
      /\ UNCHANGED <<saved, app, age, customers, cache, ensure>>
      /\ restarts < MaxRestarts /\ restarts' = restarts + 1
      /\ store' = [s \in Sids |-> None]
      /\ lost' = lost \cup {s \in Sids : store[s] # None /\ ~IsNewSid(s)}
  BY Names DEF FullInv, BackendStarts
<1>1. WalletInv'
  BY <1>0, BackendStartsWallet
<1>2. restarts' \in 0..MaxRestarts
  BY <1>0, Names DEF SessionTypes
<1>3. SessionTypes'
  BY <1>0, <1>2 DEF SessionTypes
<1>4. \A x \in Devices, s \in Sids : Holds(x, s)' = Holds(x, s)
  BY <1>0 DEF Holds
<1>5. ASSUME NEW x \in Devices, NEW s \in Sids, Holds(x, s)
      PROVE  app[x].shown # None /\ (s \in lost' \/ age[s] > Life \/ store'[s] = app[x].shown)
  <2>1. ~IsNewSid(s)
    BY <1>5 DEF IsNewSid, Holds
  <2> QED BY <1>0, <1>5, <2>1 DEF SessionInv
<1>6. \A s \in lost' : store'[s] = None
  BY <1>0 DEF SessionTypes
<1>7. SessionInv'
  BY <1>0, <1>4, <1>5, <1>6 DEF SessionInv
<1> QED BY <1>0, <1>1, <1>3, <1>7 DEF FullInv

----------------------------------------------------------------------------
WalletsStay == \A d \in Devices : saved[d] # None => saved'[d] = saved[d]

LEMMA FullStep == FullInv /\ [Next]_vars => FullInv' /\ WalletsStay
<1> SUFFICES ASSUME FullInv, [Next]_vars PROVE FullInv' /\ WalletsStay
  OBVIOUS
<1>0. WalletInv
  BY DEF FullInv
<1>1. ASSUME NEW r \in Requests, provisionSigner(r) PROVE FullInv' /\ WalletsStay
  <2>1. WalletInv' /\ UNCHANGED <<saved, app, sessionVars, restarts>>
    BY <1>0, <1>1, ProvisionSteps
  <2> QED BY <2>1, SessionKept DEF FullInv, WalletsStay
<1>2. CASE OtherPhoneAsks
  <2>1. PICK r \in Requests, c \in Contacts :
          /\ request[r] = Free /\ request' = [request EXCEPT ![r] = Asked(c, None)]
          /\ UNCHANGED <<ledger, saved, app, sessionVars, restarts>>
    BY <1>2 DEF OtherPhoneAsks, IsNext
  <2>2. WalletInv'
    BY <1>0, <2>1, OtherPhoneSteps
  <2> QED BY <2>1, <2>2, SessionKept DEF FullInv, WalletsStay
<1>3. ASSUME NEW d \in Devices,
             \/ AccountWanted(d) \/ Cancelled(d) \/ BootstrapGoesOn(d) \/ BootstrapFails(d)
             \/ resolveAll(d) \/ ContactsResolved(d) \/ ContactsFail(d)
      PROVE  FullInv' /\ WalletsStay
  <2>1. CASE custodialSigner(d)
    BY <1>0, <2>1, WalletSaved, SessionKept DEF FullInv, WalletsStay
  <2>2. CASE ~custodialSigner(d)
    <3>1. WalletRefused(d) \/ BootstrapFails(d) => GivesUp(d)
      BY DEF WalletRefused, BootstrapFails
    <3>2. /\ WalletInv' /\ app'[d].shown = app[d].shown /\ UNCHANGED <<saved, sessionVars, restarts>>
          /\ \A x \in Devices : x # d => app'[x] = app[x]
      BY <1>0, <1>3, <2>2, <3>1, AppSteps, WalletAsked, GivesUpKeeps, ContactsAsked, ContactSteps
         DEF BootstrapGoesOn
    <3>3. \A x \in Devices : app'[x].shown = app[x].shown
      BY <3>2
    <3> QED BY <3>2, <3>3, SessionKept DEF FullInv, WalletsStay
  <2> QED BY <2>1, <2>2
<1>4. ASSUME NEW d \in Devices, NEW e \in Ensures,
             \/ ensureAnchorSession(d, e) \/ anchorCustomerPut(d, e)
             \/ EnsureFails(d, e) \/ jwtFromSession(d, e)
      PROVE  FullInv' /\ WalletsStay
  BY <1>4, EnsureSteps DEF FullInv, WalletsStay
<1>5. ASSUME NEW d \in Devices, NEW e \in Ensures, demoSep10(d, e)
      PROVE  FullInv' /\ WalletsStay
  BY <1>0, <1>5, SessionMade, WalletKept DEF FullInv, WalletsStay, walletVars
<1>6. CASE TimePasses
  BY <1>0, <1>6, TimeKeeps, WalletKept DEF FullInv, WalletsStay, walletVars
<1>7. ASSUME NEW d \in Devices, AppStarts(d) PROVE FullInv' /\ WalletsStay
  BY <1>7, AppStartsKeeps DEF WalletsStay
<1>8. CASE BackendStarts
  BY <1>8, BackendStartsKeeps DEF WalletsStay
<1>9. CASE UNCHANGED vars
  <2>1. UNCHANGED walletVars /\ UNCHANGED <<sessionVars, restarts>> /\ UNCHANGED <<saved, app>>
    BY <1>9 DEF vars, walletVars
  <2> QED BY <1>0, <2>1, WalletKept, SessionKept DEF FullInv, WalletsStay
<1> QED BY <1>1, <1>2, <1>3, <1>4, <1>5, <1>6, <1>7, <1>8, <1>9 DEF Next

\* The invariant from which the following theorems are read off: who waits for which
\* account, and for whom the sessions are.
THEOREM WalletInductive == Spec => []FullInv
<1>1. Init => FullInv
  BY WalletInit, SessionInit DEF FullInv
<1>2. FullInv /\ [Next]_vars => FullInv'
  BY FullStep
<1> QED BY <1>1, <1>2, PTL DEF Spec

\* The state of the phones, the backend and the network has its shape.
THEOREM WalletTypeSafe == Spec => []TypeOK
<1>1. FullInv => TypeOK
  BY DEF FullInv, WalletInv, WalletTypes, SessionTypes, AccountType, TypeOK
<1> QED BY <1>1, WalletInductive, PTL

\* A phone in use has an account with a trustline, and so has each contact it resolved,
\* for any number of phones provisioning at once, answers lost and restarts.
THEOREM ReadyMeansUsable == Spec => []ReadyIsUsable
<1>1. FullInv => ReadyIsUsable
  BY DEF FullInv, WalletInv, PhoneInv, ReadyIsUsable
<1> QED BY <1>1, WalletInductive, PTL

\* The account a phone shows is the one its file holds, and its signer answers for it.
THEOREM ShownMeansKept == Spec => []ShownIsKept
<1>1. FullInv => ShownIsKept
  BY DEF FullInv, WalletInv, PhoneInv, ShownIsKept, demoSign, signerForRequest
<1> QED BY <1>1, WalletInductive, PTL

\* The session a phone trusts is one of its account, and the anchor knows the customer.
THEOREM TrustedIsHonoured == Spec => []CacheIsHonoured
<1>1. FullInv => CacheIsHonoured
  <2> SUFFICES ASSUME FullInv, NEW d \in Devices, CacheIsGood(d)
               PROVE  /\ app[d].shown \in customers
                      /\ cache[d] \in lost \/ (Resolves(cache[d]) /\ store[cache[d]] = app[d].shown)
    BY DEF CacheIsHonoured
  <2>1. cache[d] \in Sids /\ Holds(d, cache[d]) /\ age[cache[d]] \in 0..(Life + 1)
    BY Names DEF FullInv, SessionTypes, CacheIsGood, Holds
  <2>2. age[cache[d]] <= Life /\ ~(age[cache[d]] > Life)
    BY <2>1, Names DEF CacheIsGood
  <2>3. app[d].shown # None /\ (cache[d] \in lost \/ store[cache[d]] = app[d].shown)
    BY <2>1, <2>2 DEF FullInv, SessionInv
  <2>4. app[d].shown \in customers
    BY DEF FullInv, SessionInv, CacheIsGood
  <2>5. CASE store[cache[d]] = app[d].shown
    BY <2>2, <2>3, <2>4, <2>5 DEF Resolves
  <2> QED BY <2>3, <2>4, <2>5
<1> QED BY <1>1, WalletInductive, PTL

\* A wallet that was saved is never exchanged for another.
THEOREM WalletsAreKept == Spec => KeepsItsWallet
<1>1. FullInv /\ [Next]_vars => [WalletsStay]_vars
  BY FullStep
<1>2. WalletsStay <=> \A d \in Devices : saved[d] # None => saved'[d] = saved[d]
  BY DEF WalletsStay
<1> QED BY <1>1, WalletInductive, PTL DEF Spec, KeepsItsWallet, WalletsStay
=============================================================================
