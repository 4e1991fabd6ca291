----------------------- MODULE PaymentWatcher_proofs -----------------------
(***************************************************************************)
(* The watcher skips no incoming payment and announces none it has passed,  *)
(* for any accounts, devices, page limit and number of restarts. Between    *)
(* reading a page and writing the cursor the work of a pass is nowhere but  *)
(* in the pass, so the invariant says what it has done by then (Pages), and *)
(* that no other pass does it at the same time (OnePass).                   *)
(***************************************************************************)
EXTENDS PaymentWatcher, FiniteSetTheorems, SequenceTheorems, TLAPS

UnderWay(t) == pass[t].at # "idle"

\* The flag keeps a second pass from starting.
OnePass ==
    /\ \A t \in Passes : UnderWay(t) => ticking
    /\ \A t, u \in Passes : UnderWay(t) /\ UnderWay(u) => t = u

\* The cursor of an account is a place in the ledger.
Placed == \A a \in Accounts : cursor[a] <= Len(ledger)

\* A pass that waits for Horizon knows the cursor of its account.
Asked ==
    \A t \in Passes :
        /\ pass[t].at = "pinning" => pass[t].acct \in Accounts /\ cursor[pass[t].acct] = Unseen
        /\ pass[t].at = "reading" => pass[t].acct \in Accounts /\ cursor[pass[t].acct] # Unseen
                                       /\ cursor[pass[t].acct] = pass[t].base /\ pass[t].next = pass[t].base

\* What a pass has passed of its page it has announced, and what is left of the
\* page has no gap.
PageKept(t) ==
    /\ pass[t].acct \in Accounts
    /\ cursor[pass[t].acct] = pass[t].base
    /\ pass[t].base # Unseen
    /\ pass[t].base <= pass[t].next
    /\ pass[t].next <= Len(ledger)
    /\ pass[t].rest \subseteq After(pass[t].acct, pass[t].next)
    /\ \A p \in pass[t].rest, q \in After(pass[t].acct, pass[t].next) : q < p => q \in pass[t].rest
    /\ \A q \in DOMAIN ledger :
         isIncoming(q, pass[t].acct) /\ pass[t].base < q /\ q <= pass[t].next
            => announced[pass[t].acct][q] > 0

Pages == \A t \in Passes : pass[t].at = "page" => PageKept(t)

WatcherInv == OnePass /\ Placed /\ Asked /\ Pages /\ NoneSkipped

\* What the invariant is about.
readVars == <<ledger, cursor, ticking, pass, pinned, announced>>

----------------------------------------------------------------------------

\* A page without gaps, whatever its limit.
LEMMA PageHasNoGap ==
  ASSUME NEW a, NEW c \in Int, ledger \in Seq(Payments)
  PROVE  /\ PageOf(a, c) \subseteq After(a, c)
         /\ \A p \in PageOf(a, c), q \in After(a, c) : q < p => q \in PageOf(a, c)
<1>1. DOMAIN ledger = 1 .. Len(ledger) /\ Len(ledger) \in Nat
  OBVIOUS
<1>2. IsFiniteSet(After(a, c))
  <2>1. IsFiniteSet(1 .. Len(ledger))
    BY <1>1, FS_Interval
  <2>2. After(a, c) \subseteq 1 .. Len(ledger)
    BY <1>1 DEF After
  <2> QED BY <2>1, <2>2, FS_Subset
<1>3. ASSUME NEW p \in PageOf(a, c), NEW q \in After(a, c), q < p
      PROVE  q \in PageOf(a, c)
  <2> DEFINE Below(x) == {y \in After(a, c) : y < x}
  <2>1. Below(q) \subseteq Below(p)
    BY <1>1, <1>3 DEF PageOf, After
  <2>2. IsFiniteSet(Below(p)) /\ IsFiniteSet(Below(q))
    BY <1>2, FS_Subset
  <2>3. Cardinality(Below(q)) <= Cardinality(Below(p))
    BY <2>1, <2>2, FS_Subset
  <2>4. Cardinality(Below(q)) \in Nat /\ Cardinality(Below(p)) \in Nat
    BY <2>2, FS_CardinalityType
  <2>5. Cardinality(Below(p)) < PageLimit
    BY <1>3 DEF PageOf
  <2>6. Cardinality(Below(q)) < PageLimit
    BY <2>3, <2>4, <2>5, WatcherAssumption
  <2> QED BY <2>6, <1>3 DEF PageOf
<1> QED BY <1>3 DEF PageOf

\* A payment more changes nothing about the ones before it.
LEMMA LedgerGrows ==
  ASSUME ledger \in Seq(Payments), NEW p \in Payments, ledger' = Append(ledger, p)
  PROVE  /\ Len(ledger') = Len(ledger) + 1
         /\ DOMAIN ledger' = DOMAIN ledger \cup {Len(ledger) + 1}
         /\ \A q \in DOMAIN ledger : ledger'[q] = ledger[q]
         /\ \A a : \A q \in DOMAIN ledger : isIncoming(q, a)' = isIncoming(q, a)
         /\ \A a, c : After(a, c) \subseteq After(a, c)'
         /\ \A a, c : After(a, c)' \subseteq After(a, c) \cup {Len(ledger) + 1}
<1>1. /\ Len(ledger') = Len(ledger) + 1
      /\ DOMAIN ledger' = DOMAIN ledger \cup {Len(ledger) + 1}
      /\ \A q \in DOMAIN ledger : ledger'[q] = ledger[q]
  OBVIOUS
<1> QED BY <1>1 DEF isIncoming, After

----------------------------------------------------------------------------
(* The types *)

LEMMA TypeInit == Init => TypeOK
<1> USE WatcherAssumption
<1> SUFFICES ASSUME Init PROVE TypeOK
  OBVIOUS
<1>1. Idle \in PassType /\ Quiet \in SendType
  BY DEF Idle, Quiet, PassType, SendType, Places
<1>2. << >> \in Seq(Payments) /\ Len(<< >>) = 0
  OBVIOUS
<1>3. ledger \in Seq(Payments) /\ Len(ledger) <= MaxPayments
  BY <1>2 DEF Init
<1>4. announced \in [Accounts -> [Positions -> Nat]]
  BY DEF Init
<1>5. cursor \in [Accounts -> Places] /\ pinned \in [Accounts -> Places]
  BY DEF Init, Places
<1>6. outcome \in [Accounts -> [Positions -> Outcomes]]
  BY DEF Init, Outcomes
<1> QED BY <1>1, <1>3, <1>4, <1>5, <1>6 DEF Init, TypeOK

LEMMA TypeStep == TypeOK /\ [Next]_vars => TypeOK'
<1> USE WatcherAssumption
<1> SUFFICES ASSUME TypeOK, [Next]_vars PROVE TypeOK'
  OBVIOUS
<1>0. Idle \in PassType /\ Quiet \in SendType
  BY DEF Idle, Quiet, PassType, SendType, Places
<1>p. ledger \in Seq(Payments) /\ Len(ledger) \in Nat /\ DOMAIN ledger = 1 .. Len(ledger)
        /\ Len(ledger) <= MaxPayments /\ DOMAIN ledger \subseteq Positions
  <2>1. ledger \in Seq(Payments) /\ Len(ledger) <= MaxPayments
    BY DEF TypeOK
  <2> QED BY <2>1 DEF Positions
<1>1. ASSUME NEW p \in Payments, Pay(p) PROVE TypeOK'
  <2>1. ledger' \in Seq(Payments) /\ Len(ledger') = Len(ledger) + 1
    BY <1>1, <1>p DEF Pay
  <2>2. Len(ledger') <= MaxPayments
    BY <1>1, <1>p, <2>1 DEF Pay
  <2> QED BY <1>1, <2>1, <2>2 DEF TypeOK, Pay, watcherVars, appVars
<1>2. ASSUME NEW t \in Passes, PassBegin(t) PROVE TypeOK'
  <2>1. Started \in PassType
    BY DEF Started, Places, PassType, listAccounts, TypeOK
  <2> QED BY <1>2, <2>1 DEF TypeOK, PassBegin, appVars
<1>3. ASSUME NEW t \in Passes, NEW a \in Accounts, CheckAccount(t, a) PROVE TypeOK'
  <2>1. [at |-> IF cursor[a] = Unseen THEN "pinning" ELSE "reading",
         todo |-> pass[t].todo \ {a}, acct |-> a,
         base |-> cursor[a], next |-> cursor[a], rest |-> {}] \in PassType
    BY DEF PassType, TypeOK
  <2> QED BY <1>3, <2>1 DEF TypeOK, CheckAccount, appVars
<1>4. ASSUME NEW t \in Passes, NEW p \in Positions \cup {0}, Pin(t, p) PROVE TypeOK'
  BY <1>4 DEF TypeOK, Pin, setCursor, Moved, Places, PassType, appVars
<1>5. ASSUME NEW t \in Passes, PageRead(t) PROVE TypeOK'
  <2>1. PageOf(pass[t].acct, pass[t].base) \subseteq Positions
    BY <1>p DEF PageOf, After
  <2> QED BY <1>5, <2>1 DEF TypeOK, PageRead, Moved, PassType, appVars
<1>6. ASSUME NEW t \in Passes, HorizonFails(t) PROVE TypeOK'
  BY <1>6 DEF TypeOK, HorizonFails, Moved, PassType, appVars
<1>7. ASSUME NEW t \in Passes, NEW p \in Positions, RecordIgnored(t, p) PROVE TypeOK'
  BY <1>7 DEF TypeOK, RecordIgnored, Moved, PassType, Places, appVars
<1>8. ASSUME NEW t \in Passes, NEW p \in Positions, RecordAnnounced(t, p) PROVE TypeOK'
  <2> DEFINE a == pass[t].acct
  <2>1. pass' \in [Passes -> PassType]
    BY <1>8 DEF TypeOK, RecordAnnounced, Moved, PassType, Places
  <2>2. a \in Accounts \cup {None}
    BY DEF TypeOK, PassType
  <2>3. send' \in [Passes -> SendType] /\ outcome' \in [Accounts -> [Positions -> Outcomes]]
    <3>0. /\ send \in [Passes -> SendType] /\ outcome \in [Accounts -> [Positions -> Outcomes]]
          /\ NotifyBegin(t, a, p)
      BY <1>8 DEF TypeOK, RecordAnnounced
    <3>1. CASE listByAccount(a) = {}
      <4>1. send' = send /\ outcome' = [outcome EXCEPT ![a][p] = "nobody"]
        BY <3>0, <3>1 DEF NotifyBegin
      <4> QED BY <3>0, <4>1 DEF Outcomes
    <3>2. CASE listByAccount(a) # {}
      <4>1. [acct |-> a, news |-> p, left |-> listByAccount(a), dead |-> {}] \in SendType
        BY <2>2 DEF SendType, listByAccount, Places
      <4>2. /\ send' = [send EXCEPT ![t] = [acct |-> a, news |-> p,
                                             left |-> listByAccount(a), dead |-> {}]]
            /\ outcome' = outcome
        BY <3>0, <3>2 DEF NotifyBegin
      <4> QED BY <3>0, <4>1, <4>2
    <3> QED BY <3>1, <3>2
  <2>4. announced' \in [Accounts -> [Positions -> Nat]]
    <3>1. announced \in [Accounts -> [Positions -> Nat]]
      BY DEF TypeOK
    <3>2. a \in Accounts => announced[a][p] + 1 \in Nat
      BY <3>1
    <3> QED BY <1>8, <3>1, <3>2 DEF RecordAnnounced
  <2> QED BY <1>8, <2>1, <2>3, <2>4 DEF TypeOK, RecordAnnounced, appVars
<1>9. ASSUME NEW t \in Passes, PageDone(t) PROVE TypeOK'
  BY <1>9 DEF TypeOK, PageDone, setCursor, Moved, PassType, appVars
<1>10. ASSUME NEW t \in Passes, PassEnd(t) PROVE TypeOK'
  BY <1>0, <1>10 DEF TypeOK, PassEnd, appVars
<1>11. ASSUME Restart PROVE TypeOK'
  <2>1. pass' \in [Passes -> PassType] /\ send' \in [Passes -> SendType]
    BY <1>0, <1>11 DEF Restart
  <2>2. restarts' \in Nat
    <3>1. restarts \in Nat
      BY DEF TypeOK
    <3> QED BY <1>11, <3>1 DEF Restart
  <2>3. ticking' \in BOOLEAN
    BY <1>11 DEF Restart
  <2> QED BY <1>11, <2>1, <2>2, <2>3 DEF TypeOK, Restart, appVars
<1>12. ASSUME NEW t \in Passes, BatchAnswered(t) PROVE TypeOK'
  BY <1>12 DEF TypeOK, BatchAnswered, SendType, Outcomes, watcherVars, appVars
<1>13. ASSUME NEW t \in Passes, BatchFailed(t) PROVE TypeOK'
  BY <1>13 DEF TypeOK, BatchFailed, SendType, Outcomes, watcherVars, appVars
<1>14. ASSUME NEW t \in Passes, NotifyEnd(t) PROVE TypeOK'
  BY <1>0, <1>14 DEF TypeOK, NotifyEnd, removeMany, watcherVars, appVars
<1>15. ASSUME NEW d \in Devices, AppStep(d) PROVE TypeOK'
  <2> USE DEF TypeOK, watcherVars, appVars
  <2>1. CASE RegisterBegin(d)
    BY <2>1 DEF RegisterBegin
  <2>2. CASE RegisterStored(d)
    BY <2>2 DEF RegisterStored, register
  <2>3. CASE RegisterNoted(d)
    BY <2>3 DEF RegisterNoted
  <2>4. CASE RegisterLost(d)
    BY <2>4 DEF RegisterLost
  <2>5. CASE DeviceTurns(d)
    BY <2>5 DEF DeviceTurns
  <2>6. ASSUME NEW a \in Accounts, Reinstall(d, a) PROVE TypeOK'
    BY <2>6 DEF Reinstall
  <2>7. ASSUME NEW a \in Accounts, Unregister(a, d) PROVE TypeOK'
    BY <2>7 DEF Unregister, removeMany
  <2> QED BY <1>15, <2>1, <2>2, <2>3, <2>4, <2>5, <2>6, <2>7 DEF AppStep
<1>16. CASE UNCHANGED vars
  BY <1>16 DEF TypeOK, vars, watcherVars, appVars
<1> QED BY <1>1, <1>2, <1>3, <1>4, <1>5, <1>6, <1>7, <1>8, <1>9, <1>10, <1>11, <1>12,
           <1>13, <1>14, <1>15, <1>16 DEF Next, PassStep, SenderStep

\* The state keeps its shape.
THEOREM WatcherTypeSafe == Spec => []TypeOK
<1>1. Init => TypeOK
  BY TypeInit
<1>2. TypeOK /\ [Next]_vars => TypeOK'
  BY TypeStep
<1> QED BY <1>1, <1>2, PTL DEF Spec

----------------------------------------------------------------------------
(* The invariant *)

LEMMA WatcherInit == Init => WatcherInv
<1> SUFFICES ASSUME Init PROVE WatcherInv
  OBVIOUS
<1>1. ledger = << >> /\ DOMAIN ledger = {} /\ Len(ledger) = 0
  BY DEF Init
<1>2. \A t \in Passes : pass[t].at = "idle"
  BY DEF Init, Idle
<1>3. \A a \in Accounts : cursor[a] = Unseen
  BY DEF Init
<1> QED BY <1>1, <1>2, <1>3
        DEF WatcherInv, OnePass, UnderWay, Placed, Asked, Pages, NoneSkipped, Unseen

\* An action that is not the watcher's, nor the ledger's, keeps it.
LEMMA ElsewhereStep == WatcherInv /\ UNCHANGED readVars => WatcherInv'
  BY DEF WatcherInv, readVars, OnePass, UnderWay, Placed, Asked, Pages, PageKept, After,
         isIncoming, NoneSkipped

LEMMA PayStep ==
  ASSUME TypeOK, WatcherInv, NEW p \in Payments, Pay(p)
  PROVE  WatcherInv'
<1>1. ledger \in Seq(Payments) /\ Len(ledger) \in Nat /\ DOMAIN ledger = 1 .. Len(ledger)
  BY DEF TypeOK
<1>2. ledger' = Append(ledger, p)
      /\ UNCHANGED <<cursor, ticking, pass, pinned, announced>>
  BY DEF Pay, watcherVars
<1>3. /\ Len(ledger') = Len(ledger) + 1
      /\ DOMAIN ledger' = DOMAIN ledger \cup {Len(ledger) + 1}
      /\ \A q \in DOMAIN ledger : ledger'[q] = ledger[q]
      /\ \A a : \A q \in DOMAIN ledger : isIncoming(q, a)' = isIncoming(q, a)
      /\ \A a, c : After(a, c) \subseteq After(a, c)'
      /\ \A a, c : After(a, c)' \subseteq After(a, c) \cup {Len(ledger) + 1}
  BY <1>1, <1>2, LedgerGrows
<1>c. cursor \in [Accounts -> Places] /\ \A a \in Accounts : cursor[a] \in Int
  BY WatcherAssumption DEF TypeOK, Places, Positions, Unseen
<1>n. \A t \in Passes : pass[t].next \in Int
  BY WatcherAssumption DEF TypeOK, PassType, Places, Positions, Unseen
<1>4. OnePass' /\ Asked'
  BY <1>2 DEF WatcherInv, OnePass, UnderWay, Asked
<1>5. Placed'
  BY <1>1, <1>2, <1>3, <1>c DEF WatcherInv, Placed
<1>6. NoneSkipped'
  <2> SUFFICES ASSUME NEW a \in Accounts, NEW q \in DOMAIN ledger', isIncoming(q, a)',
                      cursor[a] # Unseen, pinned[a] < q, q <= cursor[a]
               PROVE  announced[a][q] > 0
    BY <1>2 DEF NoneSkipped
  <2>1. cursor[a] <= Len(ledger)
    BY DEF WatcherInv, Placed
  <2>2. q \in DOMAIN ledger
    BY <1>1, <1>3, <1>c, <2>1
  <2> QED BY <1>3, <2>2 DEF WatcherInv, NoneSkipped
<1>7. Pages'
  <2> SUFFICES ASSUME NEW t \in Passes, pass[t].at = "page", NEW a, a = pass[t].acct,
                      NEW x, x = pass[t].next
               PROVE  PageKept(t)'
    BY <1>2 DEF Pages
  <2>0. PageKept(t)
    BY DEF WatcherInv, Pages
  <2>1. pass[t].next <= Len(ledger)'
    BY <2>0, <1>1, <1>3, <1>n DEF PageKept
  <2>2. pass[t].rest \subseteq After(a, x)'
    BY <2>0, <1>3 DEF PageKept
  <2>3. ASSUME NEW y \in pass[t].rest, NEW q \in After(a, x)', q < y PROVE q \in pass[t].rest
    <3>1. y \in After(a, x)
      BY <2>0 DEF PageKept
    <3>2. y <= Len(ledger) /\ y \in Int
      BY <3>1, <1>1 DEF After
    <3>3. q # Len(ledger) + 1
      BY <3>2, <2>3, <1>1
    <3>4. q \in After(a, x)
      <4>1. q \in After(a, x) \cup {Len(ledger) + 1}
        BY <1>3
      <4> QED BY <3>3, <4>1
    <3> QED BY <3>4, <2>0, <2>3 DEF PageKept
  <2>4. ASSUME NEW q \in DOMAIN ledger', isIncoming(q, a)', pass[t].base < q, q <= x
        PROVE  announced[a][q] > 0
    <3>1. q \in DOMAIN ledger
      BY <2>0, <2>4, <1>1, <1>3, <1>n DEF PageKept
    <3> QED BY <3>1, <2>0, <2>4, <1>3 DEF PageKept
  <2> QED BY <1>2, <2>0, <2>1, <2>2, <2>3, <2>4 DEF PageKept
<1> QED BY <1>4, <1>5, <1>6, <1>7 DEF WatcherInv

\* While a pass is under way the others are idle, and what holds of the ones under
\* way holds once it holds of that one.
LEMMA OnlyThisPass ==
  ASSUME TypeOK, WatcherInv, NEW t \in Passes, UnderWay(t),
         \A u \in Passes : u # t => pass'[u] = pass[u],
         ledger' = ledger, ticking' = ticking, Placed', NoneSkipped',
         (pass[t].at = "pinning" => pass[t].acct \in Accounts /\ cursor[pass[t].acct] = Unseen)',
         (pass[t].at # "reading")' \/
           (pass[t].acct \in Accounts /\ cursor[pass[t].acct] # Unseen
              /\ cursor[pass[t].acct] = pass[t].base /\ pass[t].next = pass[t].base)',
         (pass[t].at = "page" => PageKept(t))'
  PROVE  WatcherInv'
<1>1. ticking /\ \A u \in Passes : u # t => pass[u].at = "idle"
  BY DEF WatcherInv, OnePass, UnderWay
<1>2. \A u \in Passes : u # t => pass'[u].at = "idle"
  BY <1>1
<1>3. OnePass'
  BY <1>1, <1>2 DEF OnePass, UnderWay
<1>4. Asked'
  BY <1>2 DEF Asked
<1>5. Pages'
  <2> SUFFICES ASSUME NEW u \in Passes, pass'[u].at = "page" PROVE PageKept(u)'
    BY DEF Pages
  <2>1. u = t
    BY <1>2
  <2> QED BY <2>1
<1> QED BY <1>3, <1>4, <1>5 DEF WatcherInv

LEMMA BeginStep ==
  ASSUME TypeOK, WatcherInv, NEW t \in Passes, PassBegin(t)
  PROVE  WatcherInv'
<1>1. \A u \in Passes : pass[u].at = "idle"
  BY DEF PassBegin, WatcherInv, OnePass, UnderWay
<1>2. pass' = [pass EXCEPT ![t] = Started] /\ ticking' = TRUE
      /\ UNCHANGED <<ledger, cursor, pinned, announced>>
  BY DEF PassBegin
<1>3. pass'[t].at = "accounts" /\ \A u \in Passes : u # t => pass'[u].at = "idle"
  BY <1>1, <1>2 DEF TypeOK, Started
<1>4. OnePass' /\ Asked' /\ Pages'
  BY <1>2, <1>3 DEF OnePass, UnderWay, Asked, Pages
<1>5. Placed' /\ NoneSkipped'
  BY <1>2 DEF WatcherInv, Placed, NoneSkipped, isIncoming
<1> QED BY <1>4, <1>5 DEF WatcherInv

LEMMA CheckStep ==
  ASSUME TypeOK, WatcherInv, NEW t \in Passes, NEW a \in Accounts, CheckAccount(t, a)
  PROVE  WatcherInv'
<1>1. UnderWay(t) /\ ledger' = ledger /\ ticking' = ticking /\ cursor' = cursor
      /\ pinned' = pinned /\ announced' = announced
  BY DEF CheckAccount, UnderWay
<1>2. \A u \in Passes : u # t => pass'[u] = pass[u]
  BY DEF CheckAccount, TypeOK
<1>3. /\ pass'[t].at = (IF cursor[a] = Unseen THEN "pinning" ELSE "reading")
      /\ pass'[t].acct = a /\ pass'[t].base = cursor[a] /\ pass'[t].next = cursor[a]
  BY DEF CheckAccount, TypeOK
<1>4. Placed' /\ NoneSkipped'
  BY <1>1 DEF WatcherInv, Placed, NoneSkipped, isIncoming
<1> QED BY <1>1, <1>2, <1>3, <1>4, OnlyThisPass

\* What Moved leaves of a pass.
LEMMA MovedFields ==
  ASSUME TypeOK, NEW t \in Passes, NEW at, NEW next, NEW rest, pass' = Moved(t, at, next, rest)
  PROVE  /\ \A u \in Passes : u # t => pass'[u] = pass[u]
         /\ pass'[t].at = at /\ pass'[t].next = next /\ pass'[t].rest = rest
         /\ pass'[t].acct = pass[t].acct /\ pass'[t].base = pass[t].base
  BY DEF Moved, TypeOK

LEMMA PinStep ==
  ASSUME TypeOK, WatcherInv, NEW t \in Passes, NEW p \in Positions \cup {0}, Pin(t, p)
  PROVE  WatcherInv'
<1> DEFINE a == pass[t].acct
<1>0. ledger \in Seq(Payments) /\ Len(ledger) \in Nat /\ DOMAIN ledger = 1 .. Len(ledger)
  BY DEF TypeOK
<1>1. UnderWay(t) /\ ledger' = ledger /\ ticking' = ticking /\ announced' = announced
  BY DEF Pin, setCursor, UnderWay
<1>2. pass' = Moved(t, "accounts", pass[t].next, pass[t].rest)
  BY DEF Pin, setCursor
<1>3. p <= Len(ledger)
  BY <1>0, WatcherAssumption DEF Pin, setCursor, IsLatest, After, Positions
<1>4. cursor' = [cursor EXCEPT ![a] = p] /\ pinned' = [pinned EXCEPT ![a] = p]
  BY DEF Pin, setCursor
<1> HIDE DEF a
<1>5. Placed'
  BY <1>1, <1>3, <1>4 DEF WatcherInv, Placed, TypeOK
<1>6. NoneSkipped'
  <2> SUFFICES ASSUME NEW b \in Accounts, NEW q \in DOMAIN ledger, isIncoming(q, b),
                      cursor'[b] # Unseen, pinned'[b] < q, q <= cursor'[b]
               PROVE  announced[b][q] > 0
    BY <1>1 DEF NoneSkipped, isIncoming
  <2>1. b # a
    BY <1>0, <1>4, WatcherAssumption DEF TypeOK, Positions
  <2> QED BY <2>1, <1>4 DEF WatcherInv, NoneSkipped, TypeOK
<1> QED BY <1>1, <1>2, <1>5, <1>6, MovedFields, OnlyThisPass

LEMMA ReadStep ==
  ASSUME TypeOK, WatcherInv, NEW t \in Passes, PageRead(t)
  PROVE  WatcherInv'
<1>0. ledger \in Seq(Payments) /\ Len(ledger) \in Nat /\ DOMAIN ledger = 1 .. Len(ledger)
  BY DEF TypeOK
<1>1. UnderWay(t) /\ ledger' = ledger /\ ticking' = ticking /\ cursor' = cursor
      /\ pinned' = pinned /\ announced' = announced
  BY DEF PageRead, UnderWay
<1>2. pass' = Moved(t, "page", pass[t].next, PageOf(pass[t].acct, pass[t].base))
  BY DEF PageRead
<1>3. /\ pass'[t].at = "page" /\ pass'[t].next = pass[t].next
      /\ pass'[t].rest = PageOf(pass[t].acct, pass[t].base)
      /\ pass'[t].acct = pass[t].acct /\ pass'[t].base = pass[t].base
      /\ \A u \in Passes : u # t => pass'[u] = pass[u]
  BY <1>2, MovedFields
<1>4. /\ pass[t].acct \in Accounts /\ cursor[pass[t].acct] # Unseen
      /\ cursor[pass[t].acct] = pass[t].base /\ pass[t].next = pass[t].base
  BY DEF PageRead, WatcherInv, Asked
<1>5. pass[t].base \in Int /\ cursor[pass[t].acct] <= Len(ledger)
  BY <1>4, WatcherAssumption DEF TypeOK, PassType, Places, Positions, Unseen, WatcherInv, Placed
<1>6. Placed' /\ NoneSkipped'
  BY <1>1 DEF WatcherInv, Placed, NoneSkipped, isIncoming
<1>7. PageKept(t)'
  <2>1. /\ PageOf(pass[t].acct, pass[t].base) \subseteq After(pass[t].acct, pass[t].base)
        /\ \A p \in PageOf(pass[t].acct, pass[t].base), q \in After(pass[t].acct, pass[t].base) :
              q < p => q \in PageOf(pass[t].acct, pass[t].base)
    BY <1>0, <1>5, PageHasNoGap
  <2>2. \A q \in DOMAIN ledger : ~(pass[t].base < q /\ q <= pass[t].base)
    BY <1>0, <1>5
  <2>3. After(pass[t].acct, pass[t].base) = After(pass[t].acct, pass[t].next)'
    BY <1>1, <1>3, <1>4 DEF After
  <2> QED BY <1>1, <1>3, <1>4, <1>5, <2>1, <2>2, <2>3 DEF PageKept
<1> QED BY <1>1, <1>3, <1>6, <1>7, OnlyThisPass

LEMMA FailStep ==
  ASSUME TypeOK, WatcherInv, NEW t \in Passes, HorizonFails(t)
  PROVE  WatcherInv'
<1>1. UnderWay(t) /\ ledger' = ledger /\ ticking' = ticking /\ cursor' = cursor
      /\ pinned' = pinned /\ announced' = announced
  BY DEF HorizonFails, UnderWay
<1>2. pass' = Moved(t, "accounts", pass[t].next, pass[t].rest)
  BY DEF HorizonFails
<1>3. Placed' /\ NoneSkipped'
  BY <1>1 DEF WatcherInv, Placed, NoneSkipped, isIncoming
<1> QED BY <1>1, <1>2, <1>3, MovedFields, OnlyThisPass

\* The next record of a page is the next payment of the account.
LEMMA NextRecordFacts ==
  ASSUME TypeOK, WatcherInv, NEW t \in Passes, NEW p \in Positions, IsNextRecord(t, p)
  PROVE  /\ PageKept(t)
         /\ p \in DOMAIN ledger /\ p <= Len(ledger) /\ pass[t].next < p
         /\ pass[t].base \in Int /\ pass[t].next \in Int
         /\ \A q \in After(pass[t].acct, pass[t].next) : p <= q
         /\ \A q \in DOMAIN ledger : isIncoming(q, pass[t].acct) /\ pass[t].next < q /\ q <= p => q = p
         /\ pass[t].rest \ {p} \subseteq After(pass[t].acct, p)
         /\ \A y \in pass[t].rest \ {p}, q \in After(pass[t].acct, p) :
               q < y => q \in pass[t].rest \ {p}
<1>0. ledger \in Seq(Payments) /\ Len(ledger) \in Nat /\ DOMAIN ledger = 1 .. Len(ledger)
  BY DEF TypeOK
<1>1. PageKept(t)
  BY DEF IsNextRecord, WatcherInv, Pages
<1>2. pass[t].base \in Int /\ pass[t].next \in Int
  BY WatcherAssumption DEF TypeOK, PassType, Places, Positions, Unseen
<1>3. p \in After(pass[t].acct, pass[t].next)
  BY <1>1 DEF PageKept, IsNextRecord
<1>4. \A q \in After(pass[t].acct, pass[t].next) : p <= q
  <2> SUFFICES ASSUME NEW q \in After(pass[t].acct, pass[t].next), ~(p <= q) PROVE FALSE
    OBVIOUS
  <2>1. q < p /\ q \in Int
    BY <1>0, <1>3 DEF After
  <2>2. q \in pass[t].rest
    BY <1>1, <2>1 DEF PageKept, IsNextRecord
  <2> QED BY <2>1, <2>2, <1>0, <1>3 DEF IsNextRecord, After
<1>5. p \in DOMAIN ledger /\ p <= Len(ledger) /\ pass[t].next < p
  BY <1>0, <1>2, <1>3 DEF After
<1>6. ASSUME NEW q \in DOMAIN ledger, isIncoming(q, pass[t].acct), pass[t].next < q, q <= p
      PROVE  q = p
  <2>1. q \in After(pass[t].acct, pass[t].next)
    BY <1>2, <1>6 DEF After, isIncoming
  <2> QED BY <2>1, <1>0, <1>4, <1>5, <1>6
<1>7. pass[t].rest \ {p} \subseteq After(pass[t].acct, p)
  BY <1>0, <1>1, <1>4, <1>5 DEF PageKept, After
<1>8. ASSUME NEW y \in pass[t].rest \ {p}, NEW q \in After(pass[t].acct, p), q < y
      PROVE  q \in pass[t].rest \ {p}
  <2>1. q \in After(pass[t].acct, pass[t].next) /\ q # p
    BY <1>0, <1>2, <1>5 DEF After
  <2> QED BY <1>1, <1>8, <2>1 DEF PageKept
<1> QED BY <1>1, <1>2, <1>4, <1>5, <1>6, <1>7, <1>8

LEMMA IgnoreStep ==
  ASSUME TypeOK, WatcherInv, NEW t \in Passes, NEW p \in Positions, RecordIgnored(t, p)
  PROVE  WatcherInv'
<1>0. ledger \in Seq(Payments) /\ DOMAIN ledger = 1 .. Len(ledger)
  BY DEF TypeOK
<1>1. UnderWay(t) /\ ledger' = ledger /\ ticking' = ticking /\ cursor' = cursor
      /\ pinned' = pinned /\ announced' = announced
  BY DEF RecordIgnored, IsNextRecord, UnderWay
<1>2. pass' = Moved(t, "page", p, pass[t].rest \ {p})
  BY DEF RecordIgnored
<1>3. /\ pass'[t].at = "page" /\ pass'[t].next = p /\ pass'[t].rest = pass[t].rest \ {p}
      /\ pass'[t].acct = pass[t].acct /\ pass'[t].base = pass[t].base
      /\ \A u \in Passes : u # t => pass'[u] = pass[u]
  BY <1>2, MovedFields
<1>4. Placed' /\ NoneSkipped'
  BY <1>1 DEF WatcherInv, Placed, NoneSkipped, isIncoming
<1>5. IsNextRecord(t, p) /\ ~isIncoming(p, pass[t].acct)
  BY DEF RecordIgnored
<1> HIDE DEF IsNextRecord
<1>6. PageKept(t) /\ p \in Int /\ pass[t].next < p /\ p <= Len(ledger)
      /\ pass[t].base \in Int /\ pass[t].next \in Int
  BY <1>5, NextRecordFacts DEF Positions
<1>7. ASSUME NEW q \in DOMAIN ledger, isIncoming(q, pass[t].acct), pass[t].base < q, q <= p
      PROVE  announced[pass[t].acct][q] > 0
  <2>1. ~(pass[t].next < q)
    BY <1>5, <1>7, NextRecordFacts
  <2>2. q <= pass[t].next
    BY <2>1, <1>0, <1>6
  <2> QED BY <2>2, <1>6, <1>7 DEF PageKept
<1>8. pass[t].rest \ {p} \subseteq After(pass[t].acct, p)
      /\ \A y \in pass[t].rest \ {p}, q \in After(pass[t].acct, p) : q < y => q \in pass[t].rest \ {p}
  BY <1>5, NextRecordFacts
<1>9. After(pass[t].acct, p) = After(pass[t].acct, pass[t].next)'
  BY <1>1, <1>3 DEF After
<1>10. \A q \in DOMAIN ledger : isIncoming(q, pass[t].acct)' = isIncoming(q, pass[t].acct)
  BY <1>1, <1>3 DEF isIncoming
<1>11. PageKept(t)'
  BY <1>1, <1>3, <1>6, <1>7, <1>8, <1>9, <1>10 DEF PageKept
<1> QED BY <1>1, <1>3, <1>4, <1>11, OnlyThisPass

LEMMA AnnounceStep ==
  ASSUME TypeOK, WatcherInv, NEW t \in Passes, NEW p \in Positions, RecordAnnounced(t, p)
  PROVE  /\ WatcherInv'
         /\ pass[t].acct \in Accounts /\ cursor[pass[t].acct] # Unseen /\ cursor[pass[t].acct] < p
<1> DEFINE a == pass[t].acct
<1>0. ledger \in Seq(Payments) /\ DOMAIN ledger = 1 .. Len(ledger)
  BY DEF TypeOK
<1>1. UnderWay(t) /\ ledger' = ledger /\ ticking' = ticking /\ cursor' = cursor /\ pinned' = pinned
  BY DEF RecordAnnounced, IsNextRecord, UnderWay
<1>2. pass' = Moved(t, "page", p, pass[t].rest \ {p})
  BY DEF RecordAnnounced
<1>3. /\ pass'[t].at = "page" /\ pass'[t].next = p /\ pass'[t].rest = pass[t].rest \ {p}
      /\ pass'[t].acct = a /\ pass'[t].base = pass[t].base
      /\ \A u \in Passes : u # t => pass'[u] = pass[u]
  BY <1>2, MovedFields
<1>5. IsNextRecord(t, p)
  BY DEF RecordAnnounced
<1>6. PageKept(t) /\ p \in Int /\ pass[t].next < p /\ p <= Len(ledger)
      /\ pass[t].base \in Int /\ pass[t].next \in Int
  BY <1>5, NextRecordFacts DEF Positions
<1>4. a \in Accounts /\ cursor[a] # Unseen /\ cursor[a] < p
  BY <1>6 DEF PageKept
<1>a. announced' = [announced EXCEPT ![a][p] = announced[a][p] + 1]
  BY DEF RecordAnnounced
<1>b. announced \in [Accounts -> [Positions -> Nat]]
  BY DEF TypeOK
<1> HIDE DEF a
<1>c. announced'[a][p] > 0
      /\ \A b \in Accounts, q \in Positions : announced[b][q] > 0 => announced'[b][q] > 0
  <2>1. announced[a][p] \in Nat
    BY <1>4, <1>b
  <2>2. announced'[a][p] = announced[a][p] + 1
    BY <1>4, <1>a, <1>b
  <2>3. \A b \in Accounts, q \in Positions : b # a \/ q # p => announced'[b][q] = announced[b][q]
    BY <1>a, <1>b
  <2> QED BY <2>1, <2>2, <2>3
<1>d. DOMAIN ledger \subseteq Positions
  <2>1. Len(ledger) \in Nat /\ Len(ledger) <= MaxPayments
    BY DEF TypeOK
  <2> QED BY <1>0, <2>1, WatcherAssumption DEF Positions
<1>e. Placed'
  BY <1>1 DEF WatcherInv, Placed
<1>f. NoneSkipped'
  <2> SUFFICES ASSUME NEW b \in Accounts, NEW q \in DOMAIN ledger, isIncoming(q, b),
                      cursor[b] # Unseen, pinned[b] < q, q <= cursor[b]
               PROVE  announced'[b][q] > 0
    BY <1>1 DEF NoneSkipped, isIncoming
  <2>1. announced[b][q] > 0
    BY DEF WatcherInv, NoneSkipped
  <2> QED BY <2>1, <1>c, <1>d
<1>7. ASSUME NEW q \in DOMAIN ledger, isIncoming(q, a), pass[t].base < q, q <= p
      PROVE  announced'[a][q] > 0
  <2>1. CASE pass[t].next < q
    <3>1. q = p
      BY <1>5, <1>7, <2>1, NextRecordFacts DEF a
    <3> QED BY <3>1, <1>c
  <2>2. CASE ~(pass[t].next < q)
    <3>1. q <= pass[t].next
      BY <2>2, <1>0, <1>6
    <3>2. announced[a][q] > 0
      BY <3>1, <1>6, <1>7 DEF PageKept, a
    <3> QED BY <3>2, <1>c, <1>d, <1>4
  <2> QED BY <2>1, <2>2
<1>8. pass[t].rest \ {p} \subseteq After(a, p)
      /\ \A y \in pass[t].rest \ {p}, q \in After(a, p) : q < y => q \in pass[t].rest \ {p}
  BY <1>5, NextRecordFacts DEF a
<1>9. After(a, p) = After(pass[t].acct, pass[t].next)'
  BY <1>1, <1>3 DEF After
<1>10. \A q \in DOMAIN ledger : isIncoming(q, pass[t].acct)' = isIncoming(q, a)
  BY <1>1, <1>3 DEF isIncoming
<1>11. PageKept(t)'
  <2>1. cursor[a] = pass[t].base /\ pass[t].base # Unseen /\ pass[t].base <= pass[t].next
    BY <1>6 DEF PageKept, a
  <2> QED BY <1>1, <1>3, <1>4, <1>6, <1>7, <1>8, <1>9, <1>10, <2>1 DEF PageKept
<1>12. WatcherInv'
  BY <1>1, <1>3, <1>e, <1>f, <1>11, OnlyThisPass
<1> QED BY <1>4, <1>12 DEF a

LEMMA DoneStep ==
  ASSUME TypeOK, WatcherInv, NEW t \in Passes, PageDone(t)
  PROVE  /\ WatcherInv'
         /\ \A a \in Accounts : cursor'[a] = cursor[a] \/ cursor[a] < cursor'[a]
<1> DEFINE a == pass[t].acct
<1>0. ledger \in Seq(Payments) /\ DOMAIN ledger = 1 .. Len(ledger)
  BY DEF TypeOK
<1>1. UnderWay(t) /\ ledger' = ledger /\ ticking' = ticking
      /\ pinned' = pinned /\ announced' = announced
  BY DEF PageDone, setCursor, UnderWay
<1>2. pass' = Moved(t, "accounts", pass[t].next, pass[t].rest)
  BY DEF PageDone, setCursor
<1>3. PageKept(t)
  BY DEF PageDone, setCursor, WatcherInv, Pages
<1>4. pass[t].base \in Int /\ pass[t].next \in Int
  BY WatcherAssumption DEF TypeOK, PassType, Places, Positions, Unseen
<1>5. cursor' = [cursor EXCEPT ![a] = pass[t].next] /\ a \in Accounts
      /\ cursor[a] = pass[t].base /\ pass[t].base <= pass[t].next /\ pass[t].base # Unseen
      /\ pass[t].next <= Len(ledger)
  BY <1>3 DEF PageDone, setCursor, PageKept
<1>6. \A q \in DOMAIN ledger : isIncoming(q, a) /\ pass[t].base < q /\ q <= pass[t].next
            => announced[a][q] > 0
  BY <1>3 DEF PageKept
<1> HIDE DEF a
<1>c. cursor \in [Accounts -> Places]
  BY DEF TypeOK
<1>7. Placed'
  BY <1>1, <1>5, <1>c DEF WatcherInv, Placed
<1>8. NoneSkipped'
  <2> SUFFICES ASSUME NEW b \in Accounts, NEW q \in DOMAIN ledger, isIncoming(q, b),
                      cursor'[b] # Unseen, pinned[b] < q, q <= cursor'[b]
               PROVE  announced[b][q] > 0
    BY <1>1 DEF NoneSkipped, isIncoming
  <2>1. CASE b # a
    BY <2>1, <1>5, <1>c DEF WatcherInv, NoneSkipped
  <2>2. CASE b = a /\ q <= pass[t].base
    BY <2>2, <1>5 DEF WatcherInv, NoneSkipped
  <2>3. CASE b = a /\ ~(q <= pass[t].base)
    BY <2>3, <1>0, <1>4, <1>5, <1>6, <1>c
  <2> QED BY <2>1, <2>2, <2>3
<1>9. WatcherInv'
  BY <1>1, <1>2, <1>7, <1>8, MovedFields, OnlyThisPass
<1>10. \A b \in Accounts : cursor'[b] = cursor[b] \/ cursor[b] < cursor'[b]
  BY <1>4, <1>5, <1>c
<1> QED BY <1>9, <1>10

LEMMA EndStep ==
  ASSUME TypeOK, WatcherInv, NEW t \in Passes, PassEnd(t)
  PROVE  WatcherInv'
<1>1. UnderWay(t) /\ ledger' = ledger /\ ticking' = FALSE /\ cursor' = cursor
      /\ pinned' = pinned /\ announced' = announced
  BY DEF PassEnd, UnderWay
<1>2. \A u \in Passes : pass'[u].at = "idle"
  BY <1>1 DEF PassEnd, TypeOK, Idle, WatcherInv, OnePass, UnderWay
<1>3. OnePass' /\ Asked' /\ Pages'
  BY <1>2 DEF OnePass, UnderWay, Asked, Pages
<1>4. Placed' /\ NoneSkipped'
  BY <1>1 DEF WatcherInv, Placed, NoneSkipped, isIncoming
<1> QED BY <1>3, <1>4 DEF WatcherInv

LEMMA RestartStep ==
  ASSUME TypeOK, WatcherInv, Restart
  PROVE  WatcherInv'
<1>1. ledger' = ledger /\ cursor' = cursor /\ pinned' = pinned /\ announced' = announced
  BY DEF Restart
<1>2. \A u \in Passes : pass'[u].at = "idle"
  BY DEF Restart, Idle
<1>3. OnePass' /\ Asked' /\ Pages'
  BY <1>2 DEF OnePass, UnderWay, Asked, Pages
<1>4. Placed' /\ NoneSkipped'
  BY <1>1 DEF WatcherInv, Placed, NoneSkipped, isIncoming
<1> QED BY <1>3, <1>4 DEF WatcherInv

\* The sender and the app leave alone what the invariant is about.
LEMMA OthersRead ==
  /\ \A t \in Passes : SenderStep(t) => UNCHANGED readVars
  /\ \A d \in Devices : AppStep(d) => UNCHANGED readVars
  /\ UNCHANGED vars => UNCHANGED readVars
<1> USE DEF readVars, watcherVars, vars, appVars
<1>1. ASSUME NEW t \in Passes, SenderStep(t) PROVE UNCHANGED readVars
  BY <1>1 DEF SenderStep, BatchAnswered, BatchFailed, NotifyEnd
<1>2. ASSUME NEW d \in Devices, AppStep(d) PROVE UNCHANGED readVars
  BY <1>2 DEF AppStep, RegisterBegin, RegisterStored, register, RegisterNoted, RegisterLost, DeviceTurns,
              Reinstall, Unregister
<1> QED BY <1>1, <1>2

LEMMA WatcherStep == TypeOK /\ WatcherInv /\ [Next]_vars => WatcherInv'
<1> SUFFICES ASSUME TypeOK, WatcherInv, [Next]_vars PROVE WatcherInv'
  OBVIOUS
<1>1. CASE UNCHANGED readVars
  BY <1>1, ElsewhereStep
<1>2. ASSUME NEW p \in Payments, Pay(p) PROVE WatcherInv'
  BY <1>2, PayStep
<1>3. ASSUME NEW t \in Passes, PassBegin(t) PROVE WatcherInv'
  BY <1>3, BeginStep
<1>4. ASSUME NEW t \in Passes, PassStep(t) PROVE WatcherInv'
  BY <1>4, CheckStep, PinStep, ReadStep, IgnoreStep, AnnounceStep, DoneStep, EndStep DEF PassStep
<1>5. ASSUME NEW t \in Passes, HorizonFails(t) PROVE WatcherInv'
  BY <1>5, FailStep
<1>6. CASE Restart
  BY <1>6, RestartStep
<1> QED BY <1>1, <1>2, <1>3, <1>4, <1>5, <1>6, OthersRead DEF Next

\* The watcher skips no incoming payment.
THEOREM WatcherSkipsNothing == Spec => []NoneSkipped
<1>1. Init => TypeOK /\ WatcherInv
  BY TypeInit, WatcherInit
<1>2. (TypeOK /\ WatcherInv) /\ [Next]_vars => (TypeOK /\ WatcherInv)'
  BY TypeStep, WatcherStep
<1>3. WatcherInv => NoneSkipped
  BY DEF WatcherInv
<1> QED BY <1>1, <1>2, <1>3, PTL DEF Spec

\* No step takes a cursor back or announces a payment a cursor has passed.
LEMMA ForwardStep == TypeOK /\ WatcherInv /\ [Next]_vars => [OnlyForward]_vars
<1> SUFFICES ASSUME TypeOK, WatcherInv, [Next]_vars, ~UNCHANGED readVars PROVE OnlyForward
  BY DEF readVars, OnlyForward, vars, watcherVars
<1>1. CASE UNCHANGED <<cursor, announced>>
  BY <1>1 DEF OnlyForward
<1>2. ASSUME NEW t \in Passes, NEW p \in Positions \cup {0}, Pin(t, p) PROVE OnlyForward
  <2> DEFINE a == pass[t].acct
  <2>1. cursor' = [cursor EXCEPT ![a] = p] /\ announced' = announced
    BY <1>2 DEF Pin, setCursor
  <2>2. a \in Accounts /\ cursor[a] = Unseen
    BY <1>2 DEF Pin, setCursor, WatcherInv, Asked
  <2> HIDE DEF a
  <2> QED BY <2>1, <2>2, WatcherAssumption DEF OnlyForward, Unseen, Positions, TypeOK
<1>3. ASSUME NEW t \in Passes, PageDone(t) PROVE OnlyForward
  <2>1. announced' = announced
    BY <1>3 DEF PageDone, setCursor
  <2> QED BY <1>3, <2>1, DoneStep DEF OnlyForward
<1>4. ASSUME NEW t \in Passes, NEW p \in Positions, RecordAnnounced(t, p) PROVE OnlyForward
  <2> DEFINE a == pass[t].acct
  <2>1. a \in Accounts /\ cursor[a] # Unseen /\ cursor[a] < p
    BY <1>4, AnnounceStep
  <2>2. cursor' = cursor /\ announced' = [announced EXCEPT ![a][p] = announced[a][p] + 1]
    BY <1>4 DEF RecordAnnounced
  <2>3. announced \in [Accounts -> [Positions -> Nat]]
    BY DEF TypeOK
  <2> HIDE DEF a
  <2>4. ASSUME NEW b \in Accounts, NEW q \in Positions, announced'[b][q] # announced[b][q]
        PROVE  b = a /\ q = p
    BY <2>2, <2>3, <2>4
  <2> QED BY <2>1, <2>2, <2>4 DEF OnlyForward
<1>5. \A p \in Payments : Pay(p) => UNCHANGED <<cursor, announced>>
  BY DEF Pay, watcherVars
<1>6. \A t \in Passes : PassBegin(t) \/ HorizonFails(t) => UNCHANGED <<cursor, announced>>
  BY DEF PassBegin, HorizonFails
<1>7. ASSUME NEW t \in Passes, PassStep(t) PROVE OnlyForward
  <2>1. ASSUME NEW a \in Accounts, CheckAccount(t, a) PROVE OnlyForward
    BY <1>1, <2>1 DEF CheckAccount
  <2>2. CASE PageRead(t)
    BY <1>1, <2>2 DEF PageRead
  <2>3. ASSUME NEW p \in Positions, RecordIgnored(t, p) PROVE OnlyForward
    BY <1>1, <2>3 DEF RecordIgnored
  <2>4. CASE PassEnd(t)
    BY <1>1, <2>4 DEF PassEnd
  <2> QED BY <1>2, <1>3, <1>4, <1>7, <2>1, <2>2, <2>3, <2>4 DEF PassStep
<1>8. Restart => UNCHANGED <<cursor, announced>>
  BY DEF Restart
<1> QED BY <1>1, <1>5, <1>6, <1>7, <1>8, OthersRead DEF Next

\* A payment a cursor has passed is never announced again.
THEOREM WatcherOnlyForward == Spec => PassedIsPast
<1>1. Init => TypeOK /\ WatcherInv
  BY TypeInit, WatcherInit
<1>2. (TypeOK /\ WatcherInv) /\ [Next]_vars => (TypeOK /\ WatcherInv)'
  BY TypeStep, WatcherStep
<1>3. (TypeOK /\ WatcherInv) /\ [Next]_vars => [OnlyForward]_vars
  BY ForwardStep
<1> QED BY <1>1, <1>2, <1>3, PTL DEF Spec, PassedIsPast
============================================================================
