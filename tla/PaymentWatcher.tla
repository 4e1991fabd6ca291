-------------------------- MODULE PaymentWatcher --------------------------
(***************************************************************************)
(* Notices of incoming payments. Every interval a pass of the watcher reads *)
(* from Horizon, for each account with a registered device, the payments    *)
(* after the account's cursor, hands each incoming one to the push sender   *)
(* and then moves the cursor. The sender asks Expo to deliver to every      *)
(* device of the account and drops the tokens Expo calls dead. The app      *)
(* registers its device and keeps a note that it has done so.               *)
(*                                                                         *)
(* The cursors and the tokens are files and outlive the process; a pass and *)
(* a delivery in flight do not. A handler is atomic between two answers of  *)
(* Horizon or Expo: the stores answer at once.                              *)
(***************************************************************************)
EXTENDS Integers, FiniteSets, Sequences

CONSTANTS
    Accounts,    \* the accounts of the wallet
    Devices,     \* push tokens, one per device
    Payments,    \* the payments that may reach the ledger
    Passes,      \* 1..n: ticks of the timer that may be under way
    None,        \* no account
    Outside,     \* whoever else pays or is paid
    PageLimit,   \* records per request to Horizon
    MaxPayments, \* the bound on the ledger
    MaxRestarts  \* the bound on restarts

ASSUME WatcherAssumption ==
    /\ PageLimit \in Nat \ {0}
    /\ MaxPayments \in Nat
    /\ MaxRestarts \in Nat
    /\ None \notin Accounts
    /\ Passes \subseteq Nat
    \* credits: a payment in USDC, of a kind that credits its destination.
    /\ Payments \subseteq [from : Accounts \cup {Outside}, to : Accounts \cup {Outside},
                           credits : BOOLEAN]

VARIABLES
    ledger,    \* the network's payments, in order; a paging token is a place in it
    cursor,    \* HorizonCursorStore: a place, 0 for '', Unseen for undefined
    ticking,   \* the watcher's flag
    pass,      \* where each pass stands
    registry,  \* PushTokenRegistry: the account of each token
    send,      \* where each call of notify stands
    live,      \* the devices Expo can deliver to
    wallet,    \* the account of the app on each device
    note,      \* the account of the app's saved registration
    posting,   \* the account of a registration under way
    restarts,  \* restarts so far
    pinned,    \* history: where the cursor of an account began
    announced, \* history: how often a payment was handed to the sender
    outcome    \* history: what became of the last notice of a payment

watcherVars == <<cursor, ticking, pass, pinned, announced>>
appVars == <<live, wallet, note, posting>>
vars == <<ledger, watcherVars, registry, send, appVars, restarts, outcome>>

Unseen == -1

Positions == 1..MaxPayments

Places == Positions \cup {0, Unseen}

\* nobody: the account had no device when the payment was handed over.
Outcomes == {"none", "nobody", "refused", "taken"}

Idle == [at |-> "idle", todo |-> {}, acct |-> None, base |-> 0, next |-> 0, rest |-> {}]

Quiet == [acct |-> None, news |-> 0, left |-> {}, dead |-> {}]

Init ==
    /\ ledger = << >>
    /\ cursor = [a \in Accounts |-> Unseen]
    /\ ticking = FALSE
    /\ pass = [t \in Passes |-> Idle]
    /\ registry = [d \in Devices |-> None]
    /\ send = [t \in Passes |-> Quiet]
    /\ live = [d \in Devices |-> TRUE]
    /\ wallet \in [Devices -> Accounts]
    /\ note = [d \in Devices |-> None]
    /\ posting = [d \in Devices |-> None]
    /\ restarts = 0
    /\ pinned = [a \in Accounts |-> Unseen]
    /\ announced = [a \in Accounts |-> [p \in Positions |-> 0]]
    /\ outcome = [a \in Accounts |-> [p \in Positions |-> "none"]]

----------------------------------------------------------------------------
(* The ledger *)

\* A payment is applied.
Pay(p) ==
    /\ Len(ledger) < MaxPayments
    /\ ledger' = Append(ledger, p)
    /\ UNCHANGED <<watcherVars, registry, send, appVars, restarts, outcome>>

\* horizon.payments().forAccount(a).cursor(c): sent or received, after c.
After(a, c) ==
    {p \in DOMAIN ledger : p > c /\ a \in {ledger[p].from, ledger[p].to}}

\* paymentsAfter: the oldest of them.
PageOf(a, c) ==
    {p \in After(a, c) : Cardinality({q \in After(a, c) : q < p}) < PageLimit}

\* latestPayment; 0 stands for the empty string.
IsLatest(a, p) ==
    \/ After(a, 0) = {} /\ p = 0
    \/ p \in After(a, 0) /\ \A q \in After(a, 0) : q <= p

isIncoming(p, a) ==
    /\ ledger[p].credits
    /\ ledger[p].to = a
    /\ ledger[p].from # a

----------------------------------------------------------------------------
(* The registry and the routes of notifications.ts *)

listByAccount(a) == {d \in Devices : registry[d] = a}

listAccounts == {registry[d] : d \in Devices} \ {None}

register(d, a) == registry' = [registry EXCEPT ![d] = a]

removeMany(tokens) == registry' = [d \in Devices |-> IF d \in tokens THEN None ELSE registry[d]]

\* DELETE /notifications/devices: a client drops a token of its own account.
Unregister(a, d) ==
    /\ d \in listByAccount(a)
    /\ removeMany({d})
    /\ UNCHANGED <<ledger, watcherVars, send, appVars, restarts, outcome>>

----------------------------------------------------------------------------
(* The push sender *)

\* notify: the devices are listed; without one there is nothing to do. They are
\* asked for in one request, which takes up to 100.
NotifyBegin(t, a, news) ==
    IF listByAccount(a) = {}
    THEN /\ outcome' = [outcome EXCEPT ![a][news] = "nobody"]
         /\ UNCHANGED send
    ELSE /\ send' = [send EXCEPT ![t] = [acct |-> a, news |-> news,
                                        left |-> listByAccount(a), dead |-> {}]]
         /\ UNCHANGED outcome

\* Expo answers with a ticket per token; a dead one is marked DeviceNotRegistered.
BatchAnswered(t) ==
    /\ send[t].left # {}
    /\ send' = [send EXCEPT ![t] = [acct |-> send[t].acct, news |-> send[t].news, left |-> {},
                                   dead |-> {d \in send[t].left : ~live[d]}]]
    /\ outcome' = [outcome EXCEPT ![send[t].acct][send[t].news] = "taken"]
    /\ UNCHANGED <<ledger, watcherVars, registry, appVars, restarts>>

\* A timeout, an error status or a body that does not parse: the batch is given up.
\* notify counts the failure in a result that checkAccount does not look at.
BatchFailed(t) ==
    /\ send[t].left # {}
    /\ send' = [send EXCEPT ![t] = [acct |-> send[t].acct, news |-> send[t].news, left |-> {},
                                   dead |-> {}]]
    /\ outcome' = [outcome EXCEPT ![send[t].acct][send[t].news] = "refused"]
    /\ UNCHANGED <<ledger, watcherVars, registry, appVars, restarts>>

\* Then the dead tokens are dropped, whoever has them by now.
NotifyEnd(t) ==
    /\ send[t].acct # None
    /\ send[t].left = {}
    /\ removeMany(send[t].dead)
    /\ send' = [send EXCEPT ![t] = Quiet]
    /\ UNCHANGED <<ledger, watcherVars, appVars, restarts, outcome>>

----------------------------------------------------------------------------
(* The watcher *)

\* The file is written before set returns.
setCursor(a, p) == cursor' = [cursor EXCEPT ![a] = p]

\* Passes have no name in the code: a new one takes the first free number.
IsFree(t) == pass[t] = Idle /\ \A u \in Passes : u < t => pass[u] # Idle

Started == [at |-> "accounts", todo |-> listAccounts, acct |-> None,
            base |-> 0, next |-> 0, rest |-> {}]

\* A pass goes on with its account.
Moved(t, at, next, rest) ==
    [pass EXCEPT ![t] = [at |-> at, todo |-> pass[t].todo, acct |-> pass[t].acct,
                         base |-> pass[t].base, next |-> next, rest |-> rest]]

\* Mutant: the flag is not looked at.
PassBeginAnyway(t) ==
    /\ IsFree(t)
    /\ listAccounts # {}
    /\ ticking' = TRUE
    /\ pass' = [pass EXCEPT ![t] = Started]
    /\ UNCHANGED <<ledger, cursor, pinned, announced, registry, send, appVars, restarts, outcome>>

\* The timer fires. A pass without an account is over at once.
PassBegin(t) ==
    /\ ~ticking
    /\ IsFree(t)
    /\ listAccounts # {}
    /\ ticking' = TRUE
    /\ pass' = [pass EXCEPT ![t] = Started]
    /\ UNCHANGED <<ledger, cursor, pinned, announced, registry, send, appVars, restarts, outcome>>

\* checkAccount reads the cursor and asks Horizon.
CheckAccount(t, a) ==
    /\ pass[t].at = "accounts"
    /\ a \in pass[t].todo
    /\ pass' = [pass EXCEPT ![t] =
                  [at |-> IF cursor[a] = Unseen THEN "pinning" ELSE "reading",
                   todo |-> pass[t].todo \ {a}, acct |-> a,
                   base |-> cursor[a], next |-> cursor[a], rest |-> {}]]
    /\ UNCHANGED <<ledger, cursor, ticking, pinned, announced, registry, send, appVars, restarts, outcome>>

\* First sight of an account: from its newest payment on.
Pin(t, p) ==
    LET a == pass[t].acct IN
    /\ pass[t].at = "pinning"
    /\ IsLatest(a, p)
    /\ setCursor(a, p)
    /\ pinned' = [pinned EXCEPT ![a] = p]
    /\ pass' = Moved(t, "accounts", pass[t].next, pass[t].rest)
    /\ UNCHANGED <<ledger, ticking, announced, registry, send, appVars, restarts, outcome>>

PageRead(t) ==
    /\ pass[t].at = "reading"
    /\ pass' = Moved(t, "page", pass[t].next, PageOf(pass[t].acct, pass[t].base))
    /\ UNCHANGED <<ledger, cursor, ticking, pinned, announced, registry, send, appVars, restarts, outcome>>

\* Horizon fails: the account is left for the next pass.
HorizonFails(t) ==
    /\ pass[t].at \in {"pinning", "reading"}
    /\ pass' = Moved(t, "accounts", pass[t].next, pass[t].rest)
    /\ UNCHANGED <<ledger, cursor, ticking, pinned, announced, registry, send, appVars, restarts, outcome>>

IsNextRecord(t, p) ==
    /\ pass[t].at = "page"
    /\ send[t] = Quiet
    /\ p \in pass[t].rest
    /\ \A q \in pass[t].rest : p <= q

\* A record the watcher ignores moves the position on too.
RecordIgnored(t, p) ==
    /\ IsNextRecord(t, p)
    /\ ~isIncoming(p, pass[t].acct)
    /\ pass' = Moved(t, "page", p, pass[t].rest \ {p})
    /\ UNCHANGED <<ledger, cursor, ticking, pinned, announced, registry, send, appVars, restarts, outcome>>

\* Mutant: the cursor is written before the sender has its answer.
RecordPassed(t, p) ==
    LET a == pass[t].acct IN
    /\ IsNextRecord(t, p)
    /\ isIncoming(p, a)
    /\ setCursor(a, p)
    /\ pass' = Moved(t, "page", p, pass[t].rest \ {p})
    /\ announced' = [announced EXCEPT ![a][p] = @ + 1]
    /\ NotifyBegin(t, a, p)
    /\ UNCHANGED <<ledger, ticking, pinned, registry, appVars, restarts>>

\* An incoming payment is handed to the sender, which the pass awaits.
RecordAnnounced(t, p) ==
    LET a == pass[t].acct IN
    /\ IsNextRecord(t, p)
    /\ isIncoming(p, a)
    /\ pass' = Moved(t, "page", p, pass[t].rest \ {p})
    /\ announced' = [announced EXCEPT ![a][p] = @ + 1]
    /\ NotifyBegin(t, a, p)
    /\ UNCHANGED <<ledger, cursor, ticking, pinned, registry, appVars, restarts>>

\* Mutant: the cursor jumps to the newest payment instead of the last one read.
PageSkipped(t) ==
    /\ pass[t].at = "page"
    /\ pass[t].rest = {}
    /\ send[t] = Quiet
    /\ setCursor(pass[t].acct, Len(ledger))
    /\ pass' = Moved(t, "accounts", pass[t].next, pass[t].rest)
    /\ UNCHANGED <<ledger, ticking, pinned, announced, registry, send, appVars, restarts, outcome>>

\* The page is done: the cursor is written once.
PageDone(t) ==
    /\ pass[t].at = "page"
    /\ pass[t].rest = {}
    /\ send[t] = Quiet
    /\ setCursor(pass[t].acct, pass[t].next)
    /\ pass' = Moved(t, "accounts", pass[t].next, pass[t].rest)
    /\ UNCHANGED <<ledger, ticking, pinned, announced, registry, send, appVars, restarts, outcome>>

PassEnd(t) ==
    /\ pass[t].at = "accounts"
    /\ pass[t].todo = {}
    /\ pass' = [pass EXCEPT ![t] = Idle]
    /\ ticking' = FALSE
    /\ UNCHANGED <<ledger, cursor, pinned, announced, registry, send, appVars, restarts, outcome>>

\* The process dies and starts again; onClose stops the timer but not a pass.
Restart ==
    /\ restarts < MaxRestarts
    /\ restarts' = restarts + 1
    /\ ticking' = FALSE
    /\ pass' = [t \in Passes |-> Idle]
    /\ send' = [t \in Passes |-> Quiet]
    /\ UNCHANGED <<ledger, cursor, pinned, announced, registry, appVars, outcome>>

----------------------------------------------------------------------------
(* The app: registerPushToken and its note *)

\* A pair that is noted is not posted again.
RegisterBegin(d) ==
    /\ posting[d] = None
    /\ note[d] # wallet[d]
    /\ posting' = [posting EXCEPT ![d] = wallet[d]]
    /\ UNCHANGED <<ledger, watcherVars, registry, send, live, wallet, note, restarts, outcome>>

\* POST /notifications/devices: a token has one account, the last one to claim it.
RegisterStored(d) ==
    /\ posting[d] # None
    /\ registry[d] # posting[d]
    /\ register(d, posting[d])
    /\ UNCHANGED <<ledger, watcherVars, send, appVars, restarts, outcome>>

\* Its answer arrives and the app takes its note.
RegisterNoted(d) ==
    /\ posting[d] # None
    /\ registry[d] = posting[d]
    /\ note' = [note EXCEPT ![d] = posting[d]]
    /\ posting' = [posting EXCEPT ![d] = None]
    /\ UNCHANGED <<ledger, watcherVars, registry, send, live, wallet, restarts, outcome>>

\* The request or its answer is lost, or the app is closed.
RegisterLost(d) ==
    /\ posting[d] # None
    /\ posting' = [posting EXCEPT ![d] = None]
    /\ UNCHANGED <<ledger, watcherVars, registry, send, live, wallet, note, restarts, outcome>>

\* Notifications are switched off, or on again.
DeviceTurns(d) ==
    /\ live' = [live EXCEPT ![d] = ~@]
    /\ UNCHANGED <<ledger, watcherVars, registry, send, wallet, note, posting, restarts, outcome>>

\* The app is installed afresh: its files are gone and its wallet is another one.
Reinstall(d, a) ==
    /\ a # wallet[d]
    /\ live' = [live EXCEPT ![d] = TRUE]
    /\ wallet' = [wallet EXCEPT ![d] = a]
    /\ note' = [note EXCEPT ![d] = None]
    /\ posting' = [posting EXCEPT ![d] = None]
    /\ UNCHANGED <<ledger, watcherVars, registry, send, restarts, outcome>>

----------------------------------------------------------------------------
SenderStep(t) == BatchAnswered(t) \/ BatchFailed(t) \/ NotifyEnd(t)

PassStep(t) ==
    \/ \E a \in Accounts : CheckAccount(t, a)
    \/ \E p \in Positions \cup {0} : Pin(t, p)
    \/ PageRead(t)
    \/ \E p \in Positions : RecordIgnored(t, p) \/ RecordAnnounced(t, p)
    \/ PageDone(t)
    \/ PassEnd(t)

AppStep(d) ==
    \/ RegisterBegin(d)
    \/ RegisterStored(d)
    \/ RegisterNoted(d)
    \/ RegisterLost(d)
    \/ DeviceTurns(d)
    \/ \E a \in Accounts : Reinstall(d, a) \/ Unregister(a, d)

Next ==
    \/ \E p \in Payments : Pay(p)
    \/ \E t \in Passes : PassBegin(t) \/ PassStep(t) \/ HorizonFails(t)
    \/ \E t \in Passes : SenderStep(t)
    \/ \E d \in Devices : AppStep(d)
    \/ Restart

Spec == Init /\ [][Next]_vars

\* The timer keeps firing, a request to Expo ends (it has a timeout), and Horizon
\* does not fail for ever.
Fairness ==
    /\ WF_vars(\E t \in Passes : PassBegin(t))
    /\ \A t \in Passes :
         /\ WF_vars(PassStep(t))
         /\ SF_vars(\E p \in Positions \cup {0} : Pin(t, p))
         /\ SF_vars(PageRead(t))
    /\ \A t \in Passes : WF_vars(SenderStep(t))

FairSpec == Spec /\ Fairness

----------------------------------------------------------------------------
PassType ==
    [at : {"idle", "accounts", "pinning", "reading", "page"}, todo : SUBSET Accounts,
     acct : Accounts \cup {None},
     base : Places, next : Places, rest : SUBSET Positions]

SendType ==
    [acct : Accounts \cup {None}, news : Places,
     left : SUBSET Devices, dead : SUBSET Devices]

\* The shape of the state.
TypeOK ==
    /\ ledger \in Seq(Payments) /\ Len(ledger) <= MaxPayments
    /\ cursor \in [Accounts -> Places]
    /\ ticking \in BOOLEAN
    /\ pass \in [Passes -> PassType]
    /\ registry \in [Devices -> Accounts \cup {None}]
    /\ send \in [Passes -> SendType]
    /\ live \in [Devices -> BOOLEAN]
    /\ wallet \in [Devices -> Accounts]
    /\ note \in [Devices -> Accounts \cup {None}]
    /\ posting \in [Devices -> Accounts \cup {None}]
    /\ restarts \in Nat
    /\ pinned \in [Accounts -> Places]
    /\ announced \in [Accounts -> [Positions -> Nat]]
    /\ outcome \in [Accounts -> [Positions -> Outcomes]]

\* Every incoming payment between the place where the cursor of its account began
\* and the place where it is was handed to the sender: neither a page limit, an
\* ignored record, a failure of Horizon nor a restart makes the watcher skip one.
NoneSkipped ==
    \A a \in Accounts, p \in DOMAIN ledger :
        /\ isIncoming(p, a)
        /\ cursor[a] # Unseen
        /\ pinned[a] < p
        /\ p <= cursor[a]
        => announced[a][p] > 0

OnlyForward ==
    \A a \in Accounts :
        /\ cursor'[a] = cursor[a] \/ cursor[a] < cursor'[a]
        /\ \A p \in Positions : announced'[a][p] # announced[a][p] =>
              cursor[a] # Unseen /\ cursor[a] < p

\* A cursor never goes back, and a payment it has passed is never announced again:
\* two announcements of one payment have a restart between them.
PassedIsPast == [][OnlyForward]_vars

\* Of a payment after the cursor of its account, Expo answers in the end, unless the
\* account is without a device then: neither pages that hold nothing of interest nor
\* a restart between the hand-over and the answer lose the notice. The answer may be
\* a refusal, and then the payment is passed and its notice is not tried again,
\* although the comment of IncomingPaymentWatcher says that an Expo error leaves the
\* cursor untouched.
NewsIsAnswered ==
    \A a \in Accounts, p \in Positions :
        (/\ p \in DOMAIN ledger /\ isIncoming(p, a)
         /\ cursor[a] # Unseen /\ cursor[a] < p)
            ~> (outcome[a][p] # "none" \/ listByAccount(a) = {})
==========================================================================
