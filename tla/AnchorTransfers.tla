-------------------------- MODULE AnchorTransfers --------------------------
(***************************************************************************)
(* The SEP-6 transfers of the backend: POST /anchor/deposits and            *)
(* /anchor/withdrawals open one and record an operation for it, a payment   *)
(* that is paid out in fiat opens one and funds it, and every GET           *)
(* /anchor/transfers/:id asks the anchor how far it is, writes the answer   *)
(* to the operation and announces its end.                                  *)
(*                                                                          *)
(* A poll is in flight from the request until the anchor's answer reaches   *)
(* the handler; the anchor makes its answer up somewhere in between, and    *)
(* other polls overtake it. What the handler does with the answer contains  *)
(* no await on I/O and is one step.                                         *)
(***************************************************************************)
EXTENDS Naturals, FiniteSets

CONSTANTS
    Ops,         \* operation ids; the app's poll loop for one is named after it
    Others,      \* any other polls in flight, at most this many at a time
    Transfers,   \* SEP-6 transfer ids
    None,        \* an undefined field
    KindOf,      \* the kind each operation is recorded with; "elsewhere" are those
                 \* of the store that never have a transfer of their own
    Unwinds,     \* the payouts that unwind an earn position first
    InTurn       \* the operations polled by their own clients only, in turn

Kinds == {"anchor_deposit", "anchor_withdraw", "payment", "elsewhere"}

ASSUME TransferAssumption ==
    /\ KindOf \in [Ops -> Kinds]
    /\ Unwinds \subseteq {o \in Ops : KindOf[o] = "payment"}
    /\ InTurn \subseteq Ops
    /\ None \notin Ops \cup Others \cup Transfers
    /\ Ops \cap Others = {}

\* Announcements of one event are counted up to this.
MaxSent == 2

VARIABLES
    ops,      \* OperationStore: status and anchorTransferId
    opening,  \* the transfer the anchor has opened for a POST in flight
    own,      \* the transfer an operation was recorded with, which its client knows
    anchor,   \* what the anchor says of each transfer
    funding,  \* the execute-step that funds a payout
    ledger,   \* what became of the funding transaction
    polls,    \* the GETs in flight
    loop,     \* the app's pollTransfer loop of each operation
    sent,     \* the notifications handed to the push sender
    links     \* history: every transfer an operation has been linked to

vars == <<ops, opening, own, anchor, funding, ledger, polls, loop, sent, links>>

Statuses == {"unrecorded", "awaiting_signature", "pending", "processing",
             "completed", "failed"}

Ends == {"completed", "error", "refunded"}

AnchorStates == {"unopened", "pending_user_transfer_start", "pending"} \cup Ends

Events == {"MoneyAdded", "MoneySent", "TransferFailed"}

Poll == [pc: {"idle", "asked", "answered"}, op: Ops \cup {None},
         transfer: Transfers \cup {None}, answer: AnchorStates]

NoPoll == [pc |-> "idle", op |-> None, transfer |-> None, answer |-> "unopened"]

Init ==
    /\ ops = [o \in Ops |->
                 [status |-> IF KindOf[o] = "elsewhere" THEN "pending" ELSE "unrecorded",
                  transfer |-> None]]
    /\ opening = [o \in Ops |-> None]
    /\ own = [o \in Ops |-> None]
    /\ anchor = [k \in Transfers |-> "unopened"]
    /\ funding = [o \in Ops |-> "awaited"]
    /\ ledger = [o \in Ops |-> "unsent"]
    /\ polls = [p \in Ops \cup Others |-> NoPoll]
    /\ loop = [o \in Ops |-> "unstarted"]
    /\ sent = [o \in Ops |-> [e \in Events |-> 0]]
    /\ links = [o \in Ops |-> {}]

IsPayout(o) == KindOf[o] = "payment"

Recorded(o) == ops[o].status # "unrecorded"

\* The transfers of an operation: recorded, or opened for it and on the way.
Held(o) == {own[o], opening[o]} \ {None}

----------------------------------------------------------------------------
(* Opening a transfer *)

\* anchor.sep6Deposit or anchor.sep6Withdraw: the anchor opens the transfer,
\* its answer is under way.
OpenTransfer(o, k) ==
    /\ ~Recorded(o)
    /\ opening[o] = None
    /\ anchor[k] = "unopened"
    /\ anchor' = [anchor EXCEPT ![k] = "pending_user_transfer_start"]
    /\ opening' = [opening EXCEPT ![o] = k]
    /\ UNCHANGED <<ops, own, funding, ledger, polls, loop, sent, links>>

\* The operation gets its transfer: recorded as pending by the anchor's own
\* routes, updated to awaiting_signature by a payout. The app starts to poll a
\* transfer of the anchor's routes at once.
RecordTransfer(o) ==
    /\ opening[o] # None
    /\ ops' = [ops EXCEPT ![o] =
                 [status |-> IF IsPayout(o) THEN "awaiting_signature" ELSE "pending",
                  transfer |-> opening[o]]]
    /\ opening' = [opening EXCEPT ![o] = None]
    /\ own' = [own EXCEPT ![o] = opening[o]]
    /\ links' = [links EXCEPT ![o] = @ \cup {opening[o]}]
    /\ loop' = [loop EXCEPT ![o] = IF IsPayout(o) THEN @ ELSE "polling"]
    /\ UNCHANGED <<anchor, funding, ledger, polls, sent>>

\* The anchor's answer is lost, or the process dies before it is recorded: the
\* transfer belongs to nobody. The client may ask for another.
OpeningLost(o) ==
    /\ opening[o] # None
    /\ opening' = [opening EXCEPT ![o] = None]
    /\ UNCHANGED <<ops, own, anchor, funding, ledger, polls, loop, sent, links>>

----------------------------------------------------------------------------
(* Funding a payout: executeStep of anchor_withdraw *)

\* Only completedSteps stops this step: executeStep exempts it from the check of
\* a completed operation.
FundBegin(o) ==
    /\ IsPayout(o) /\ own[o] # None
    /\ funding[o] = "awaited"
    /\ funding' = [funding EXCEPT ![o] = "submitting"]
    /\ ledger' = [ledger EXCEPT ![o] = IF @ = "unsent" THEN "sent" ELSE @]
    /\ UNCHANGED <<ops, opening, own, anchor, polls, loop, sent, links>>

\* The network applies the funding transaction or refuses it for good.
FundingDecided(o, outcome) ==
    /\ ledger[o] = "sent"
    /\ ledger' = [ledger EXCEPT ![o] = outcome]
    /\ UNCHANGED <<ops, opening, own, anchor, funding, polls, loop, sent, links>>

\* The update after the submission. The app learns the transfer id only from
\* the answer of build, which names none when an unwind comes first.
FundSettled(o) ==
    /\ funding[o] = "submitting"
    /\ ledger[o] \in {"landed", "refused"}
    /\ funding' = [funding EXCEPT ![o] = "settled"]
    /\ ops' = [ops EXCEPT ![o] =
                 [status |-> IF ledger[o] = "landed" THEN "processing" ELSE "failed",
                  transfer |-> @.transfer]]
    /\ loop' = [loop EXCEPT ![o] =
                  IF ledger[o] = "landed" /\ o \notin Unwinds THEN "polling" ELSE @]
    /\ UNCHANGED <<opening, own, anchor, ledger, polls, sent, links>>

\* The submission times out or its answer is lost; the step can be retried.
FundUnheard(o) ==
    /\ funding[o] = "submitting"
    /\ funding' = [funding EXCEPT ![o] = "awaited"]
    /\ UNCHANGED <<ops, opening, own, anchor, ledger, polls, loop, sent, links>>

----------------------------------------------------------------------------
(* The anchor *)

\* The anchor waits for the user's money: fiat for a deposit, the funding
\* transaction for a payout. It may give a transfer up, and may refund one.
AnchorMoves(k, status) ==
    /\ anchor[k] \in {"pending_user_transfer_start", "pending"}
    /\ \/ /\ anchor[k] = "pending_user_transfer_start"
          /\ status \in {"pending", "error"}
       \/ /\ anchor[k] = "pending"
          /\ status \in Ends
    /\ status # "error" =>
          \A o \in Ops : IsPayout(o) /\ k \in Held(o) => ledger[o] = "landed"
    /\ anchor' = [anchor EXCEPT ![k] = status]
    /\ UNCHANGED <<ops, opening, own, funding, ledger, polls, loop, sent, links>>

----------------------------------------------------------------------------
(* GET /anchor/transfers/:id *)

\* Mutant: a refund counts as the completion of the transfer.
RefundCompletes(answer) ==
    CASE answer \in {"completed", "refunded"} -> "completed"
      [] answer = "error"                     -> "failed"
      [] OTHER                                -> "processing"

\* Mutant: a refunded transfer is taken for one that is still under way.
RefundProcesses(answer) ==
    CASE answer = "completed" -> "completed"
      [] answer = "error"     -> "failed"
      [] OTHER                -> "processing"

\* What a poll with an operation id makes of the anchor's status.
Mapped(answer) ==
    CASE answer = "completed"             -> "completed"
      [] answer \in {"error", "refunded"} -> "failed"
      [] OTHER                            -> "processing"

\* What a poll without one makes of it, for the operation that is linked to the
\* transfer: only an end moves it.
MappedLinked(status, answer) ==
    IF answer \in Ends THEN Mapped(answer) ELSE status

\* The wording of an end is chosen by the kind of the operation.
EventOf(o, after) ==
    IF after = "failed" THEN "TransferFailed"
    ELSE IF KindOf[o] = "anchor_withdraw" THEN "MoneySent" ELSE "MoneyAdded"

OneMore(o, event) ==
    [sent[o] EXCEPT ![event] = IF @ < MaxSent THEN @ + 1 ELSE @]

\* Mutant: the status before the update is not compared.
AnnounceAlways(o, after) ==
    IF after \in {"completed", "failed"} THEN OneMore(o, EventOf(o, after)) ELSE sent[o]

\* notifyTransferSettled: the operation as it was before the update, and the
\* status it has after.
Announced(o, after) ==
    IF ops[o].status # after /\ after \in {"completed", "failed"}
    THEN OneMore(o, EventOf(o, after))
    ELSE sent[o]

AskAnchor(p, o, k) ==
    /\ polls[p].pc = "idle"
    /\ polls' = [polls EXCEPT ![p] =
                   [pc |-> "asked", op |-> o, transfer |-> k, answer |-> "unopened"]]
    /\ UNCHANGED <<ops, opening, own, anchor, funding, ledger, loop, sent, links>>

\* The next round of the app's loop: it awaits each answer before it asks again,
\* and asks for the transfer it was told of.
LoopPolls(o) ==
    /\ loop[o] = "polling"
    /\ AskAnchor(o, o, own[o])

\* The clients of an operation in turn poll its own transfer, with its id or with
\* none, when nothing else does, and a payout's when its funding has succeeded.
TakesTurn(o, id, k) ==
    /\ k = own[o] /\ id \in {o, None}
    /\ loop[o] # "polling"
    /\ \A p \in Ops \cup Others : polls[p].transfer # k
    /\ IsPayout(o) => funding[o] = "settled" /\ ledger[o] = "landed"

\* Any other poll: the route takes whichever operation is named, or none, with
\* whichever transfer the anchor knows.
OtherPolls(c, id, k) ==
    /\ anchor[k] # "unopened"
    /\ id # None => Recorded(id)
    /\ \A o \in InTurn : id = o \/ k \in Held(o) => TakesTurn(o, id, k)
    /\ AskAnchor(c, id, k)

\* The anchor reads the transfer; its answer is on the way.
AnchorAnswers(p) ==
    /\ polls[p].pc = "asked"
    /\ polls' = [polls EXCEPT ![p] =
                   [pc |-> "answered", op |-> @.op, transfer |-> @.transfer,
                    answer |-> anchor[@.transfer]]]
    /\ UNCHANGED <<ops, opening, own, anchor, funding, ledger, loop, sent, links>>

\* The handler maps the status, updates the operation (the one the request names,
\* or one that is linked to the transfer), links it to the transfer and announces
\* an end. The app's loop is over when it sees one.
PollApplied(p, o) ==
    LET poll == polls[p]
        after == IF poll.op = None THEN MappedLinked(ops[o].status, poll.answer)
                 ELSE Mapped(poll.answer)
    IN
    /\ poll.pc = "answered"
    /\ IF poll.op = None THEN ops[o].transfer = poll.transfer ELSE o = poll.op
    /\ ops' = [ops EXCEPT ![o] = [status |-> after, transfer |-> poll.transfer]]
    /\ links' = [links EXCEPT ![o] = @ \cup {poll.transfer}]
    /\ sent' = [sent EXCEPT ![o] = Announced(o, after)]
    /\ polls' = [polls EXCEPT ![p] = NoPoll]
    /\ loop' = [loop EXCEPT ![o] =
                  IF p = o /\ @ = "polling" /\ poll.answer \in Ends THEN "over" ELSE @]
    /\ UNCHANGED <<opening, own, anchor, funding, ledger>>

\* The session has expired, the anchor throws, no operation is linked to the
\* transfer, or the server dies: the poll changes nothing, and an error ends the
\* app's loop.
PollFails(p) ==
    /\ polls[p].pc # "idle"
    /\ polls' = [polls EXCEPT ![p] = NoPoll]
    /\ loop' = [o \in Ops |->
                  IF p = o /\ loop[o] = "polling" THEN "gaveUp" ELSE loop[o]]
    /\ UNCHANGED <<ops, opening, own, anchor, funding, ledger, sent, links>>

\* pollTransfer's two minutes are over, or the app is closed.
GiveUp(o) ==
    /\ loop[o] = "polling"
    /\ loop' = [loop EXCEPT ![o] = "gaveUp"]
    /\ UNCHANGED <<ops, opening, own, anchor, funding, ledger, polls, sent, links>>

----------------------------------------------------------------------------
(* The activity screen *)

\* normalizeActivityItem, of what a property looks at.
normalizeActivityItem(o) == [operationId |-> o, status |-> ops[o].status]

\* GET /activity/:accountId: the operations of the store. Its limit is above their number.
listActivity == {normalizeActivityItem(o) : o \in {x \in Ops : Recorded(x)}}

\* The app tells three states apart.
mapStatus(status) ==
    IF status \in {"completed", "failed"} THEN status ELSE "pending"

activityToTransaction(item) ==
    [id |-> item.operationId, status |-> mapStatus(item.status)]

transactionStatusLabel(status) ==
    CASE status = "completed" -> "Done"
      [] status = "pending"   -> "On its way"
      [] status = "failed"    -> "Didn't go through"

\* What the screen says of an operation.
Labels(o) ==
    {transactionStatusLabel(t.status) :
        t \in {x \in {activityToTransaction(item) : item \in listActivity} : x.id = o}}

----------------------------------------------------------------------------

PollMoves(p) == AnchorAnswers(p) \/ PollFails(p) \/ \E o \in Ops : PollApplied(p, o)

Next ==
    \/ \E o \in Ops :
          \/ \E k \in Transfers : OpenTransfer(o, k)
          \/ RecordTransfer(o)
          \/ OpeningLost(o)
          \/ FundBegin(o)
          \/ \E outcome \in {"landed", "refused"} : FundingDecided(o, outcome)
          \/ FundSettled(o)
          \/ FundUnheard(o)
          \/ LoopPolls(o)
          \/ GiveUp(o)
    \/ \E k \in Transfers, status \in AnchorStates : AnchorMoves(k, status)
    \/ \E c \in Others, id \in Ops \cup {None}, k \in Transfers : OtherPolls(c, id, k)
    \/ \E p \in Ops \cup Others : PollMoves(p)

Spec == Init /\ [][Next]_vars

\* A poll that is under way ends, and a loop that has not given up asks again.
\* Nothing is assumed of the anchor, the network or the client's patience.
FairSpec ==
    /\ Spec
    /\ \A p \in Ops \cup Others : WF_vars(PollMoves(p))
    /\ \A o \in Ops : WF_vars(LoopPolls(o))

----------------------------------------------------------------------------
(* Properties *)

Ended(o) == ops[o].status \in {"completed", "failed"}

Announcements(o) ==
    sent[o]["MoneyAdded"] + sent[o]["MoneySent"] + sent[o]["TransferFailed"]

\* Every variable has its type.
TypeOK ==
    /\ ops \in [Ops -> [status: Statuses, transfer: Transfers \cup {None}]]
    /\ opening \in [Ops -> Transfers \cup {None}]
    /\ own \in [Ops -> Transfers \cup {None}]
    /\ anchor \in [Transfers -> AnchorStates]
    /\ funding \in [Ops -> {"awaited", "submitting", "settled"}]
    /\ ledger \in [Ops -> {"unsent", "sent", "landed", "refused"}]
    /\ polls \in [Ops \cup Others -> Poll]
    /\ loop \in [Ops -> {"unstarted", "polling", "over", "gaveUp"}]
    /\ sent \in [Ops -> [Events -> 0 .. MaxSent]]
    /\ links \in [Ops -> SUBSET Transfers]

\* Whatever operation a poll names with whatever transfer, and in whatever order
\* the answers come: an operation that is stored as ended is linked to a transfer
\* that ended that way (or its funding was refused), and every end announced for
\* it is the end of a transfer it was linked to.
TrueToAnchor ==
    \A o \in Ops :
        LET CameTo(ends) == \E k \in links[o] : anchor[k] \in ends IN
        /\ ops[o].status = "completed" => anchor[ops[o].transfer] = "completed"
        /\ ops[o].status = "failed" =>
              ledger[o] = "refused" \/ anchor[ops[o].transfer] \in {"error", "refunded"}
        /\ sent[o]["MoneyAdded"] + sent[o]["MoneySent"] > 0 => CameTo({"completed"})
        /\ sent[o]["TransferFailed"] > 0 => CameTo({"error", "refunded"})

\* notifyTransferSettled announces the end of a transfer when, and only when,
\* the stored status becomes one, whichever client's poll brings it.
AnnouncedAsItEnded ==
    \A o \in InTurn :
        Announcements(o) = IF Ended(o) /\ ledger[o] # "refused" THEN 1 ELSE 0

\* When pollTransfer has told the app's user that a transfer ended, the activity
\* screen says the same of its operation, and which end it was; before the transfer
\* has an end it never says that it has one, however a refused funding is retried.
ToldIsRecorded ==
    \A o \in InTurn :
        /\ loop[o] = "over" =>
             Labels(o) = {IF anchor[own[o]] = "completed" THEN "Done"
                          ELSE "Didn't go through"}
        /\ own[o] # None /\ ledger[o] # "refused" =>
             anchor[own[o]] \in Ends \/ Labels(o) = {"On its way"}

\* A transfer the app has set going: opened by the anchor's routes, or a payout
\* whose funding was answered as successful.
Going(o) ==
    own[o] # None /\ (IsPayout(o) => funding[o] = "settled" /\ ledger[o] = "landed")

\* Of a transfer the app has set going, an end the anchor reports is stored,
\* unless the app gives up: pollTransfer does not miss it, and is started.
EndIsStored ==
    \A o \in InTurn :
        Going(o) /\ anchor[own[o]] \in Ends ~> Ended(o) \/ loop[o] = "gaveUp"
============================================================================
