----------------------- MODULE AnchorTransfers_proofs -----------------------
(***************************************************************************)
(* What GET /anchor/transfers stores and announces is true, for any number  *)
(* of operations, transfers and overlapping polls, whatever they name, and  *)
(* announced once when the polls of a transfer take turns. TrueToAnchor is  *)
(* not inductive: an answer in flight has to be what the anchor said        *)
(* (Answers), and the link of an operation one of its history (Tracked).    *)
(* That an end is announced once needs that a transfer is of one operation  *)
(* (Exclusive), that nobody else polls in a turn (Mine), and what is in     *)
(* flight in it (Turns).                                                    *)
(***************************************************************************)
EXTENDS AnchorTransfers, TLAPS

Slots == Ops \cup Others

\* An operation is recorded with its transfer, once, and silent until then; what
\* it is linked to is in its history.
Tracked ==
    \A o \in Ops :
        /\ own[o] # None => Recorded(o) /\ ops[o].transfer # None
        /\ ~Recorded(o) => ops[o].transfer = None /\ \A e \in Events : sent[o][e] = 0
        /\ ops[o].transfer \in links[o] \cup {None}
        /\ ops[o].transfer = None => ops[o].status \notin {"completed", "failed"}
        /\ opening[o] # None => ~Recorded(o)
        /\ loop[o] # "unstarted" \/ funding[o] # "awaited" => own[o] # None

\* A poll asks about a transfer that is open, for a recorded operation if it names
\* one, and an end it was answered with is the transfer's.
Answers ==
    \A p \in Slots : polls[p].pc # "idle" =>
        /\ polls[p].transfer \in Transfers /\ anchor[polls[p].transfer] # "unopened"
        /\ polls[p].op # None => Recorded(polls[p].op)
        /\ polls[p].answer \in Ends => anchor[polls[p].transfer] = polls[p].answer

\* A transfer is of one operation.
Exclusive ==
    \A o \in Ops :
        /\ \A k \in Held(o) : anchor[k] # "unopened"
        /\ \A x \in Ops : x # o => Held(o) \cap Held(x) = {}

\* The polls that are not in flight are at rest.
Resting == \A p \in Slots : polls[p].pc = "idle" => polls[p] = NoPoll

Funded(o) == IsPayout(o) => funding[o] = "settled" /\ ledger[o] = "landed"

PollsOf(o) == {p \in Slots : polls[p].transfer = own[o]}

\* An operation whose polls take turns stays linked to its own transfer, and polls
\* in flight name it with that one only, once it is recorded.
MineOf(o) ==
    /\ ops[o].transfer = own[o]
    /\ \A p \in Slots :
          /\ polls[p].op = o => polls[p].transfer = own[o]
          /\ opening[o] # None => polls[p].transfer # opening[o]

\* What is in flight about an operation whose polls take turns: one poll, after
\* the funding, which the loop keeps to itself, and which does not lag behind.
TurnOf(o) ==
    /\ \A p, q \in PollsOf(o) : p = q
    /\ \A p \in PollsOf(o) :
          /\ loop[o] = "polling" => p = o
          /\ Funded(o)
          /\ polls[p].pc = "answered" /\ polls[p].answer \notin Ends => ~Ended(o)
    /\ loop[o] # "unstarted" => Funded(o)

\* Of such an operation an end is announced once, and nothing before.
ToldOf(o) ==
    /\ Announcements(o) = IF Ended(o) /\ ledger[o] # "refused" THEN 1 ELSE 0
    /\ Ended(o) => ledger[o] = "refused" \/ Funded(o)
    /\ loop[o] = "over" => Ended(o)
    /\ ~IsPayout(o) => funding[o] = "awaited" /\ ledger[o] = "unsent"

TakesTurns(o) == MineOf(o) /\ (own[o] # None => TurnOf(o)) /\ ToldOf(o)

Turns == \A o \in InTurn : TakesTurns(o)

TransferInv ==
    TypeOK /\ Tracked /\ Answers /\ TrueToAnchor /\ Exclusive /\ Resting /\ Turns

----------------------------------------------------------------------------

\* A count that goes up stays in its range, and only its own event counts.
LEMMA OneMoreType ==
  ASSUME TypeOK, NEW o \in Ops, NEW event \in Events
  PROVE  /\ OneMore(o, event) \in [Events -> 0 .. MaxSent]
         /\ \A e \in Events : e # event => OneMore(o, event)[e] = sent[o][e]
<1>1. sent[o] \in [Events -> 0 .. 2]
  BY DEF TypeOK, MaxSent
<1>2. sent[o][event] \in 0 .. 2
  BY <1>1
<1>3. (IF sent[o][event] < 2 THEN sent[o][event] + 1 ELSE sent[o][event]) \in 0 .. 2
  BY <1>2
<1> QED BY <1>1, <1>3 DEF OneMore, MaxSent

LEMMA AnnouncedType ==
  ASSUME TypeOK, NEW o \in Ops, NEW after \in Statuses
  PROVE  Announced(o, after) \in [Events -> 0 .. MaxSent]
<1>1. EventOf(o, after) \in Events
  BY DEF EventOf, Events
<1>2. sent[o] \in [Events -> 0 .. MaxSent]
  BY DEF TypeOK
<1> QED BY <1>1, <1>2, OneMoreType DEF Announced

\* What a poll makes of an answer is a status.
LEMMA MappedType ==
  ASSUME NEW answer
  PROVE  /\ Mapped(answer) \in {"completed", "failed", "processing"}
         /\ Mapped(answer) = "completed" => answer = "completed"
         /\ Mapped(answer) = "failed" => answer \in {"error", "refunded"}
  BY DEF Mapped

\* The types are kept.
LEMMA TypeStep == TypeOK /\ Answers /\ [Next]_vars => TypeOK'
<1> SUFFICES ASSUME TypeOK, Answers, [Next]_vars PROVE TypeOK'
  OBVIOUS
<1> USE TransferAssumption
<1>1. ASSUME NEW o \in Ops, NEW k \in Transfers, OpenTransfer(o, k) PROVE TypeOK'
  BY <1>1 DEF TypeOK, OpenTransfer, AnchorStates, Ends
<1>2. ASSUME NEW o \in Ops, RecordTransfer(o) PROVE TypeOK'
  BY <1>2 DEF TypeOK, RecordTransfer, Statuses
<1>3. ASSUME NEW o \in Ops, OpeningLost(o) PROVE TypeOK'
  BY <1>3 DEF TypeOK, OpeningLost
<1>4. ASSUME NEW o \in Ops, FundBegin(o) PROVE TypeOK'
  BY <1>4 DEF TypeOK, FundBegin
<1>5. ASSUME NEW o \in Ops, NEW outcome \in {"landed", "refused"}, FundingDecided(o, outcome)
      PROVE TypeOK'
  BY <1>5 DEF TypeOK, FundingDecided
<1>6. ASSUME NEW o \in Ops, FundSettled(o) PROVE TypeOK'
  BY <1>6 DEF TypeOK, FundSettled, Statuses
<1>7. ASSUME NEW o \in Ops, FundUnheard(o) PROVE TypeOK'
  BY <1>7 DEF TypeOK, FundUnheard
<1>8. ASSUME NEW p \in Slots, NEW id \in Ops \cup {None}, NEW k \in Transfers \cup {None},
             AskAnchor(p, id, k)
      PROVE TypeOK'
  BY <1>8 DEF TypeOK, AskAnchor, Poll, AnchorStates, Slots
<1>9. ASSUME NEW o \in Ops, GiveUp(o) PROVE TypeOK'
  BY <1>9 DEF TypeOK, GiveUp
<1>10. ASSUME NEW k \in Transfers, NEW status \in AnchorStates, AnchorMoves(k, status)
       PROVE TypeOK'
  BY <1>10 DEF TypeOK, AnchorMoves
<1>11. ASSUME NEW p \in Slots, AnchorAnswers(p) PROVE TypeOK'
  <2>1. polls[p] \in Poll /\ polls[p].transfer \in Transfers
    BY <1>11 DEF TypeOK, Answers, AnchorAnswers, Slots
  <2>2. anchor[polls[p].transfer] \in AnchorStates
    BY <2>1 DEF TypeOK
  <2>3. polls' \in [Slots -> Poll]
    BY <1>11, <2>1, <2>2 DEF AnchorAnswers, TypeOK, Poll, Slots
  <2> QED BY <1>11, <2>3 DEF TypeOK, AnchorAnswers, Slots
<1>12. ASSUME NEW p \in Slots, PollFails(p) PROVE TypeOK'
  BY <1>12 DEF TypeOK, PollFails, Poll, NoPoll, AnchorStates, Slots
<1>13. ASSUME NEW p \in Slots, NEW o \in Ops, PollApplied(p, o) PROVE TypeOK'
  <2> DEFINE after == IF polls[p].op = None THEN MappedLinked(ops[o].status, polls[p].answer)
                      ELSE Mapped(polls[p].answer)
  <2>1. after \in Statuses
    BY MappedType DEF TypeOK, MappedLinked, Statuses
  <2>2. polls[p].transfer \in Transfers \cup {None}
    BY DEF TypeOK, Poll, Slots
  <2>3. ops' \in [Ops -> [status: Statuses, transfer: Transfers \cup {None}]]
    BY <1>13, <2>1, <2>2 DEF TypeOK, PollApplied
  <2>4. Announced(o, after) \in [Events -> 0 .. MaxSent]
    BY <2>1, AnnouncedType
  <2>5. sent' \in [Ops -> [Events -> 0 .. MaxSent]]
    BY <1>13, <2>4 DEF TypeOK, PollApplied
  <2>6. polls' \in [Slots -> Poll]
    BY <1>13 DEF TypeOK, PollApplied, NoPoll, Poll, AnchorStates, Slots
  <2>7. loop' \in [Ops -> {"unstarted", "polling", "over", "gaveUp"}]
    BY <1>13 DEF TypeOK, PollApplied
  <2>8. links' \in [Ops -> SUBSET Transfers]
    BY <1>13 DEF TypeOK, PollApplied, Answers
  <2> QED BY <1>13, <2>3, <2>5, <2>6, <2>7, <2>8 DEF TypeOK, PollApplied, Slots
<1>14. ASSUME UNCHANGED vars PROVE TypeOK'
  BY <1>14 DEF TypeOK, vars
<1>15. ASSUME NEW o \in Ops, LoopPolls(o) PROVE TypeOK'
  BY <1>8, <1>15 DEF LoopPolls, TypeOK, Slots
<1> QED
  BY <1>1, <1>2, <1>3, <1>4, <1>5, <1>6, <1>7, <1>8, <1>9, <1>10, <1>11, <1>12, <1>13, <1>14,
     <1>15
     DEF Next, OtherPolls, PollMoves, Slots

----------------------------------------------------------------------------
(* What no step undoes *)

\* The actions of Next, with every poll that is started taken together.
LEMMA StepCases ==
  ASSUME [Next]_vars
  PROVE  \/ \E o \in Ops :
               \/ \E k \in Transfers : OpenTransfer(o, k)
               \/ RecordTransfer(o)
               \/ OpeningLost(o)
               \/ FundBegin(o)
               \/ \E outcome \in {"landed", "refused"} : FundingDecided(o, outcome)
               \/ FundSettled(o)
               \/ FundUnheard(o)
               \/ GiveUp(o)
         \/ \E k \in Transfers, status \in AnchorStates : AnchorMoves(k, status)
         \/ \E o \in Ops : LoopPolls(o)
         \/ \E c \in Others, id \in Ops \cup {None}, k \in Transfers : OtherPolls(c, id, k)
         \/ \E p \in Slots : AnchorAnswers(p)
         \/ \E p \in Slots : PollFails(p)
         \/ \E p \in Slots, o \in Ops : PollApplied(p, o)
         \/ UNCHANGED vars
  BY DEF Next, PollMoves, Slots

\* A poll that is started asks for an open transfer, and for a recorded operation.
LEMMA AskedFor ==
  ASSUME TypeOK, Tracked, Exclusive,
         \/ \E o \in Ops : LoopPolls(o)
         \/ \E c \in Others, id \in Ops \cup {None}, k \in Transfers : OtherPolls(c, id, k)
  PROVE  \E p \in Slots, id \in Ops \cup {None}, k \in Transfers :
            /\ AskAnchor(p, id, k)
            /\ anchor[k] # "unopened"
            /\ id # None => Recorded(id)
<1>1. ASSUME NEW o \in Ops, LoopPolls(o)
      PROVE  /\ AskAnchor(o, o, own[o]) /\ Recorded(o)
             /\ own[o] \in Transfers /\ anchor[own[o]] # "unopened"
  BY <1>1 DEF LoopPolls, Tracked, Exclusive, Held, TypeOK
<1>2. ASSUME NEW o \in Ops, LoopPolls(o)
      PROVE  \E p \in Slots, id \in Ops \cup {None}, k \in Transfers :
                AskAnchor(p, id, k) /\ anchor[k] # "unopened" /\ (id # None => Recorded(id))
  <2>1. o \in Slots /\ o \in Ops \cup {None} /\ own[o] \in Transfers
    BY <1>1, <1>2 DEF Slots
  <2> QED BY <1>1, <1>2, <2>1
<1>3. ASSUME NEW c \in Others, NEW id \in Ops \cup {None}, NEW k \in Transfers,
             OtherPolls(c, id, k)
      PROVE  \E p \in Slots, i \in Ops \cup {None}, j \in Transfers :
                AskAnchor(p, i, j) /\ anchor[j] # "unopened" /\ (i # None => Recorded(i))
  BY <1>3 DEF OtherPolls, Slots
<1> QED BY <1>2, <1>3

\* The anchor's ends are final.
LEMMA EndsStay ==
  ASSUME TypeOK, [Next]_vars, NEW k \in Transfers, anchor[k] \in Ends
  PROVE  anchor'[k] = anchor[k]
<1>1. ASSUME NEW o \in Ops, NEW j \in Transfers, OpenTransfer(o, j) PROVE anchor'[k] = anchor[k]
  BY <1>1 DEF OpenTransfer, TypeOK, Ends
<1>2. ASSUME NEW j \in Transfers, NEW status \in AnchorStates, AnchorMoves(j, status)
      PROVE  anchor'[k] = anchor[k]
  BY <1>2 DEF AnchorMoves, TypeOK, Ends
<1> QED
  BY <1>1, <1>2, StepCases
     DEF RecordTransfer, OpeningLost, FundBegin, FundingDecided, FundSettled, FundUnheard,
         GiveUp, LoopPolls, OtherPolls, AskAnchor, AnchorAnswers, PollFails, PollApplied, vars

\* The network does not go back on a refusal.
LEMMA RefusalStays ==
  ASSUME TypeOK, [Next]_vars, NEW o \in Ops, ledger[o] = "refused"
  PROVE  ledger'[o] = "refused"
<1>1. ASSUME NEW x \in Ops, FundBegin(x) PROVE ledger'[o] = "refused"
  BY <1>1 DEF FundBegin, TypeOK
<1>2. ASSUME NEW x \in Ops, NEW outcome, FundingDecided(x, outcome) PROVE ledger'[o] = "refused"
  BY <1>2 DEF FundingDecided, TypeOK
<1> QED
  BY <1>1, <1>2, StepCases
     DEF OpenTransfer, RecordTransfer, OpeningLost, FundSettled, FundUnheard, AnchorMoves,
         GiveUp, LoopPolls, OtherPolls, AskAnchor, AnchorAnswers, PollFails, PollApplied, vars

\* The operation a poll is applied to is recorded, and the poll says what the
\* anchor still says.
LEMMA AppliedTo ==
  ASSUME TypeOK, Tracked, Answers, NEW p \in Slots, NEW o \in Ops, PollApplied(p, o)
  PROVE  /\ Recorded(o)
         /\ polls[p].transfer \in Transfers
         /\ polls[p].answer \in Ends => anchor[polls[p].transfer] = polls[p].answer
<1>1. /\ polls[p].transfer \in Transfers
      /\ polls[p].op # None => Recorded(polls[p].op)
      /\ polls[p].answer \in Ends => anchor[polls[p].transfer] = polls[p].answer
  BY DEF PollApplied, Answers
<1>2. CASE polls[p].op = None
  <2>1. ops[o].transfer # None
    BY <1>1, <1>2, TransferAssumption DEF PollApplied
  <2> QED BY <1>1, <2>1 DEF Tracked
<1>3. CASE polls[p].op # None
  BY <1>1, <1>3 DEF PollApplied
<1> QED BY <1>1, <1>2, <1>3

\* The status a poll leaves an operation in.
After(p, o) ==
    IF polls[p].op = None THEN MappedLinked(ops[o].status, polls[p].answer)
    ELSE Mapped(polls[p].answer)

\* What a poll makes of its operation.
LEMMA AppliedAs ==
  ASSUME TypeOK, NEW p \in Slots, NEW o \in Ops, PollApplied(p, o)
  PROVE  /\ ops'[o].status = After(p, o)
         /\ ops'[o].transfer = polls[p].transfer
         /\ sent'[o] = Announced(o, After(p, o))
         /\ links'[o] = links[o] \cup {polls[p].transfer}
         /\ loop'[o] = IF p = o /\ loop[o] = "polling" /\ polls[p].answer \in Ends
                       THEN "over" ELSE loop[o]
         /\ opening' = opening /\ own' = own /\ anchor' = anchor
         /\ funding' = funding /\ ledger' = ledger
  BY DEF PollApplied, TypeOK, After

\* The other operations do not notice.
LEMMA AppliedElsewhere ==
  ASSUME TypeOK, NEW p \in Slots, NEW x \in Ops, PollApplied(p, x), NEW o \in Ops, x # o
  PROVE  /\ ops'[o] = ops[o] /\ sent'[o] = sent[o] /\ links'[o] = links[o]
         /\ loop'[o] = loop[o]
         /\ UNCHANGED <<opening, own, anchor, funding, ledger>>
  BY DEF PollApplied, TypeOK

\* An operation that is recorded stays so, and keeps what it holds.
LEMMA RecordStays ==
  ASSUME TypeOK, Tracked, Answers, [Next]_vars, NEW o \in Ops, Recorded(o)
  PROVE  Recorded(o)' /\ own'[o] = own[o]
<1>1. ASSUME NEW x \in Ops, RecordTransfer(x)
      PROVE  ops'[o].status # "unrecorded" /\ own'[o] = own[o]
  BY <1>1 DEF RecordTransfer, Tracked, TypeOK, Recorded
<1>2. ASSUME NEW x \in Ops, FundSettled(x)
      PROVE  ops'[o].status # "unrecorded" /\ own'[o] = own[o]
  BY <1>2 DEF FundSettled, TypeOK, Recorded
<1>3. ASSUME NEW p \in Slots, NEW x \in Ops, PollApplied(p, x)
      PROVE  ops'[o].status # "unrecorded" /\ own'[o] = own[o]
  <2>1. Mapped(polls[p].answer) # "unrecorded"
    BY MappedType
  <2>2. CASE x = o
    BY <1>3, <2>1, <2>2, AppliedAs DEF After, MappedLinked, Recorded
  <2>3. CASE x # o
    BY <1>3, <2>3, AppliedElsewhere DEF Recorded
  <2> QED BY <2>2, <2>3
<1> QED
  BY <1>1, <1>2, <1>3, StepCases
     DEF OpenTransfer, OpeningLost, FundBegin, FundingDecided, FundUnheard, AnchorMoves,
         GiveUp, LoopPolls, OtherPolls, AskAnchor, AnchorAnswers, PollFails, vars, Recorded

----------------------------------------------------------------------------
(* The parts of the invariant, one by one *)

\* What Tracked says of one operation.
TrackedOf(o) ==
    /\ own[o] # None => Recorded(o) /\ ops[o].transfer # None
    /\ ~Recorded(o) => ops[o].transfer = None /\ \A e \in Events : sent[o][e] = 0
    /\ ops[o].transfer \in links[o] \cup {None}
    /\ ops[o].transfer = None => ops[o].status \notin {"completed", "failed"}
    /\ opening[o] # None => ~Recorded(o)
    /\ loop[o] # "unstarted" \/ funding[o] # "awaited" => own[o] # None

\* Recording gives an operation its transfer; nothing else happens to it before.
LEMMA TrackedStep ==
  ASSUME TypeOK, Tracked, Answers, [Next]_vars
  PROVE  Tracked'
<1> SUFFICES ASSUME NEW o \in Ops PROVE TrackedOf(o)'
  BY DEF Tracked, TrackedOf, Recorded
<1>0. TrackedOf(o)
  BY DEF Tracked, TrackedOf
<1> USE TransferAssumption DEF Recorded
<1>1. ASSUME NEW x \in Ops, NEW k \in Transfers, OpenTransfer(x, k) PROVE TrackedOf(o)'
  BY <1>0, <1>1 DEF OpenTransfer, TrackedOf, TypeOK
<1>2. ASSUME NEW x \in Ops, RecordTransfer(x) PROVE TrackedOf(o)'
  <2>1. CASE x = o
    <3>1. /\ ops'[o].transfer = opening[o] /\ own'[o] = opening[o] /\ opening[o] # None
          /\ ops'[o].status \in {"awaiting_signature", "pending"}
          /\ opening[o] \in links'[o] /\ opening'[o] = None
      BY <1>2, <2>1 DEF RecordTransfer, TypeOK
    <3> QED BY <3>1 DEF TrackedOf
  <2>2. CASE x # o
    <3>1. /\ ops'[o] = ops[o] /\ own'[o] = own[o] /\ links'[o] = links[o]
          /\ opening'[o] = opening[o] /\ loop'[o] = loop[o]
          /\ UNCHANGED <<sent, funding>>
      BY <1>2, <2>2 DEF RecordTransfer, TypeOK
    <3> QED BY <1>0, <3>1 DEF TrackedOf
  <2> QED BY <2>1, <2>2
<1>3. ASSUME NEW x \in Ops, OpeningLost(x) PROVE TrackedOf(o)'
  BY <1>0, <1>3 DEF OpeningLost, TrackedOf, TypeOK
<1>4. ASSUME NEW x \in Ops, FundSettled(x) PROVE TrackedOf(o)'
  <2>1. CASE x = o
    <3>1. own[o] # None
      BY <1>0, <1>4, <2>1 DEF FundSettled, TrackedOf
    <3>2. /\ ops'[o].transfer = ops[o].transfer
          /\ ops'[o].status \in {"processing", "failed"}
          /\ UNCHANGED <<own, links, opening, sent>>
      BY <1>4, <2>1 DEF FundSettled, TypeOK
    <3> QED BY <1>0, <3>1, <3>2 DEF TrackedOf
  <2>2. CASE x # o
    <3>1. /\ ops'[o] = ops[o] /\ loop'[o] = loop[o] /\ funding'[o] = funding[o]
          /\ UNCHANGED <<own, links, opening, sent>>
      BY <1>4, <2>2 DEF FundSettled, TypeOK
    <3> QED BY <1>0, <3>1 DEF TrackedOf
  <2> QED BY <2>1, <2>2
<1>5. ASSUME NEW p \in Slots, PollFails(p) PROVE TrackedOf(o)'
  <2>1. /\ UNCHANGED <<ops, opening, own, sent, funding, links>>
        /\ loop'[o] # "unstarted" => loop[o] # "unstarted"
    BY <1>5 DEF PollFails, TypeOK
  <2> QED BY <1>0, <2>1 DEF TrackedOf
<1>6. ASSUME NEW x \in Ops, GiveUp(x) PROVE TrackedOf(o)'
  BY <1>0, <1>6 DEF GiveUp, TypeOK, TrackedOf
<1>7. ASSUME NEW p \in Slots, NEW x \in Ops, PollApplied(p, x) PROVE TrackedOf(o)'
  <2>1. CASE x = o
    <3>1. Recorded(o) /\ polls[p].transfer \in Transfers
      BY <1>7, <2>1, AppliedTo
    <3>2. /\ ops'[o].transfer = polls[p].transfer
          /\ polls[p].transfer \in links'[o]
          /\ loop'[o] # "unstarted" => loop[o] # "unstarted"
          /\ UNCHANGED <<opening, own, funding>>
      BY <1>7, <2>1, AppliedAs
    <3>3. Recorded(o)'
      BY <3>1, RecordStays
    <3> QED BY <1>0, <3>1, <3>2, <3>3 DEF TrackedOf
  <2>2. CASE x # o
    BY <1>0, <1>7, <2>2, AppliedElsewhere DEF TrackedOf
  <2> QED BY <2>1, <2>2
<1>8. ASSUME NEW x \in Ops, FundBegin(x) \/ FundUnheard(x) PROVE TrackedOf(o)'
  BY <1>0, <1>8 DEF FundBegin, FundUnheard, TrackedOf, TypeOK
<1>9. CASE \/ \E x \in Ops, outcome \in {"landed", "refused"} : FundingDecided(x, outcome)
           \/ \E k \in Transfers, status \in AnchorStates : AnchorMoves(k, status)
           \/ \E x \in Ops : LoopPolls(x)
           \/ \E c \in Others, id \in Ops \cup {None}, k \in Transfers : OtherPolls(c, id, k)
           \/ \E p \in Slots : AnchorAnswers(p)
           \/ UNCHANGED vars
  BY <1>0, <1>9
     DEF TrackedOf, FundingDecided, AnchorMoves, LoopPolls, OtherPolls, AskAnchor,
         AnchorAnswers, vars
<1> QED
  BY <1>1, <1>2, <1>3, <1>4, <1>5, <1>6, <1>7, <1>8, <1>9, StepCases

\* A transfer that is open is never opened again.
LEMMA OpenedStays ==
  ASSUME TypeOK, [Next]_vars, NEW k \in Transfers, anchor[k] # "unopened"
  PROVE  anchor'[k] # "unopened"
<1>1. ASSUME NEW o \in Ops, NEW j \in Transfers, OpenTransfer(o, j) PROVE anchor'[k] # "unopened"
  BY <1>1 DEF OpenTransfer, TypeOK
<1>2. ASSUME NEW j \in Transfers, NEW status \in AnchorStates, AnchorMoves(j, status)
      PROVE  anchor'[k] # "unopened"
  BY <1>2 DEF AnchorMoves, TypeOK, Ends
<1> QED
  BY <1>1, <1>2, StepCases
     DEF RecordTransfer, OpeningLost, FundBegin, FundingDecided, FundSettled, FundUnheard,
         GiveUp, LoopPolls, OtherPolls, AskAnchor, AnchorAnswers, PollFails, PollApplied, vars

\* The slots of the polls that a step leaves alone, and what it does to the other.
LEMMA PollCases ==
  ASSUME TypeOK, Tracked, Answers, Exclusive, [Next]_vars, NEW p \in Slots
  PROVE  \/ polls'[p] = polls[p]
         \/ polls'[p] = NoPoll
         \/ \E id \in Ops \cup {None}, k \in Transfers :
               /\ polls'[p] = [pc |-> "asked", op |-> id, transfer |-> k, answer |-> "unopened"]
               /\ anchor[k] # "unopened"
               /\ id # None => Recorded(id)
               /\ UNCHANGED <<ops, anchor>>
         \/ /\ polls[p].pc = "asked"
            /\ polls'[p] = [pc |-> "answered", op |-> polls[p].op,
                            transfer |-> polls[p].transfer,
                            answer |-> anchor[polls[p].transfer]]
            /\ UNCHANGED <<ops, anchor>>
<1>1. ASSUME NEW q \in Slots, NEW id \in Ops \cup {None}, NEW k \in Transfers,
             AskAnchor(q, id, k)
      PROVE  /\ polls'[p] = polls[p] \/
                  polls'[p] = [pc |-> "asked", op |-> id, transfer |-> k, answer |-> "unopened"]
             /\ UNCHANGED <<ops, anchor>>
  BY <1>1 DEF AskAnchor, TypeOK, Slots
<1>2. CASE \/ \E o \in Ops : LoopPolls(o)
           \/ \E c \in Others, id \in Ops \cup {None}, k \in Transfers : OtherPolls(c, id, k)
  BY <1>1, <1>2, AskedFor
<1>3. ASSUME NEW q \in Slots, AnchorAnswers(q)
      PROVE  \/ polls'[p] = polls[p]
             \/ /\ polls[p].pc = "asked"
                /\ polls'[p] = [pc |-> "answered", op |-> polls[p].op,
                                transfer |-> polls[p].transfer,
                                answer |-> anchor[polls[p].transfer]]
                /\ UNCHANGED <<ops, anchor>>
  BY <1>3 DEF AnchorAnswers, TypeOK, Slots
<1>4. ASSUME NEW q \in Slots, PollFails(q) \/ \E o \in Ops : PollApplied(q, o)
      PROVE  polls'[p] = polls[p] \/ polls'[p] = NoPoll
  BY <1>4 DEF PollFails, PollApplied, TypeOK, Slots
<1>5. CASE polls' = polls
  BY <1>5
<1> QED
  BY <1>2, <1>3, <1>4, <1>5, StepCases
     DEF OpenTransfer, RecordTransfer, OpeningLost, FundBegin, FundingDecided, FundSettled,
         FundUnheard, GiveUp, AnchorMoves, vars

\* An answer in flight stays true: the transfer it is about, and the end.
LEMMA AnswersStep ==
  ASSUME TypeOK, Tracked, Answers, Exclusive, [Next]_vars
  PROVE  Answers'
<1> SUFFICES ASSUME NEW p \in Slots, polls'[p].pc # "idle"
             PROVE  /\ polls'[p].transfer \in Transfers
                    /\ anchor'[polls'[p].transfer] # "unopened"
                    /\ polls'[p].op # None => ops'[polls'[p].op].status # "unrecorded"
                    /\ polls'[p].answer \in Ends => anchor'[polls'[p].transfer] = polls'[p].answer
  BY DEF Answers, Recorded
<1>1. polls[p].op # None => polls[p].op \in Ops
  BY DEF TypeOK, Poll, Slots
<1>2. CASE polls'[p] = polls[p]
  <2>1. /\ polls[p].transfer \in Transfers /\ anchor[polls[p].transfer] # "unopened"
        /\ polls[p].op # None => Recorded(polls[p].op)
        /\ polls[p].answer \in Ends => anchor[polls[p].transfer] = polls[p].answer
    BY <1>2 DEF Answers
  <2>2. polls[p].op # None => ops'[polls[p].op].status # "unrecorded"
    BY <1>1, <2>1, RecordStays DEF Recorded
  <2>3. anchor'[polls[p].transfer] # "unopened"
    BY <2>1, OpenedStays
  <2>4. polls[p].answer \in Ends => anchor'[polls[p].transfer] = polls[p].answer
    BY <2>1, EndsStay
  <2> QED BY <1>2, <2>1, <2>2, <2>3, <2>4
<1>3. ASSUME NEW id \in Ops \cup {None}, NEW k \in Transfers,
             polls'[p] = [pc |-> "asked", op |-> id, transfer |-> k, answer |-> "unopened"],
             anchor[k] # "unopened", id # None => Recorded(id), UNCHANGED <<ops, anchor>>
      PROVE  /\ polls'[p].transfer \in Transfers
             /\ anchor'[polls'[p].transfer] # "unopened"
             /\ polls'[p].op # None => ops'[polls'[p].op].status # "unrecorded"
             /\ polls'[p].answer \notin Ends
  BY <1>3 DEF Recorded, Ends
<1>4. CASE /\ polls[p].pc = "asked"
           /\ polls'[p] = [pc |-> "answered", op |-> polls[p].op, transfer |-> polls[p].transfer,
                           answer |-> anchor[polls[p].transfer]]
           /\ UNCHANGED <<ops, anchor>>
  BY <1>4 DEF Answers, Recorded
<1>5. polls'[p] # NoPoll
  BY DEF NoPoll
<1> QED BY <1>2, <1>3, <1>4, <1>5, PollCases

\* An end that the history of an operation explains.
CameTo(o, ends) == \E k \in links[o] : anchor[k] \in ends

\* What TrueToAnchor says of one operation.
TrueOf(o) ==
    /\ ops[o].status = "completed" => anchor[ops[o].transfer] = "completed"
    /\ ops[o].status = "failed" =>
          ledger[o] = "refused" \/ anchor[ops[o].transfer] \in {"error", "refunded"}
    /\ sent[o]["MoneyAdded"] + sent[o]["MoneySent"] > 0 => CameTo(o, {"completed"})
    /\ sent[o]["TransferFailed"] > 0 => CameTo(o, {"error", "refunded"})

\* The history of an operation grows, and what it came to stays.
LEMMA CameToStays ==
  ASSUME TypeOK, [Next]_vars, NEW o \in Ops, NEW ends \in SUBSET Ends, CameTo(o, ends),
         links[o] \subseteq links'[o]
  PROVE  CameTo(o, ends)'
<1>1. PICK k \in links[o] : anchor[k] \in ends
  BY DEF CameTo
<1>2. k \in Transfers
  BY DEF TypeOK
<1>3. anchor'[k] = anchor[k]
  BY <1>1, <1>2, EndsStay
<1> QED BY <1>1, <1>3 DEF CameTo

\* As long as nobody writes an operation, what is said of it stays true.
LEMMA TrueKept ==
  ASSUME TypeOK, Tracked, [Next]_vars, NEW o \in Ops, TrueOf(o),
         ops'[o] = ops[o], sent'[o] = sent[o], links[o] \subseteq links'[o]
  PROVE  TrueOf(o)'
<1>1. Ended(o) => ops[o].transfer \in Transfers
  BY DEF Tracked, TypeOK, Ended
<1>2. Ended(o) /\ anchor[ops[o].transfer] \in Ends =>
        anchor'[ops[o].transfer] = anchor[ops[o].transfer]
  BY <1>1, EndsStay
<1>3. ledger[o] = "refused" => ledger'[o] = "refused"
  BY RefusalStays
<1>4. /\ CameTo(o, {"completed"}) => CameTo(o, {"completed"})'
      /\ CameTo(o, {"error", "refunded"}) => CameTo(o, {"error", "refunded"})'
  BY CameToStays DEF Ends
<1> QED BY <1>2, <1>3, <1>4 DEF TrueOf, Ends, Ended

\* A poll that is applied says what the anchor said, and the anchor still says.
LEMMA TrueWhenApplied ==
  ASSUME TypeOK, Tracked, Answers, [Next]_vars, NEW p \in Slots, NEW o \in Ops,
         PollApplied(p, o), TrueOf(o)
  PROVE  TrueOf(o)'
<1> DEFINE answer == polls[p].answer
           after == After(p, o)
<1>1. /\ ops'[o].status = after /\ ops'[o].transfer = polls[p].transfer
      /\ sent'[o] = Announced(o, after)
      /\ links'[o] = links[o] \cup {polls[p].transfer}
      /\ UNCHANGED <<anchor, ledger>>
  BY AppliedAs
<1>2. answer \in Ends => anchor[polls[p].transfer] = answer
  BY AppliedTo
<1>3. after = "completed" =>
        \/ answer = "completed"
        \/ ops[o].status = "completed" /\ ops[o].transfer = polls[p].transfer
  BY MappedType DEF After, MappedLinked, PollApplied
<1>4. after = "failed" =>
        \/ answer \in {"error", "refunded"}
        \/ ops[o].status = "failed" /\ ops[o].transfer = polls[p].transfer
  BY MappedType DEF After, MappedLinked, PollApplied
<1>5. /\ CameTo(o, {"completed"}) => CameTo(o, {"completed"})'
      /\ CameTo(o, {"error", "refunded"}) => CameTo(o, {"error", "refunded"})'
  BY <1>1, CameToStays DEF Ends
<1>6. /\ after = "completed" => anchor'[ops'[o].transfer] = "completed"
      /\ after = "failed" =>
            ledger'[o] = "refused" \/ anchor'[ops'[o].transfer] \in {"error", "refunded"}
  BY <1>1, <1>2, <1>3, <1>4 DEF TrueOf, Ends
<1>7. CASE sent'[o] = sent[o]
  BY <1>1, <1>5, <1>6, <1>7 DEF TrueOf
<1>8. CASE sent'[o] # sent[o]
  <2>1. /\ ops[o].status # after
        /\ after \in {"completed", "failed"}
        /\ sent'[o] = OneMore(o, EventOf(o, after))
    BY <1>1, <1>8 DEF Announced
  <2>2. /\ EventOf(o, after) \in Events
        /\ after = "failed" => EventOf(o, after) = "TransferFailed"
        /\ after = "completed" => EventOf(o, after) # "TransferFailed"
    BY <2>1 DEF EventOf, Events
  <2>3. \A e \in Events : e # EventOf(o, after) => sent'[o][e] = sent[o][e]
    BY <2>1, <2>2, OneMoreType
  <2>4. polls[p].transfer \in links'[o]
    BY <1>1
  <2>5. CASE after = "failed"
    <3>1. CameTo(o, {"error", "refunded"})'
      BY <1>1, <1>2, <1>4, <2>1, <2>4, <2>5 DEF Ends, CameTo
    <3>2. /\ sent'[o]["MoneyAdded"] = sent[o]["MoneyAdded"]
          /\ sent'[o]["MoneySent"] = sent[o]["MoneySent"]
      BY <2>2, <2>3, <2>5 DEF Events
    <3> QED BY <1>1, <1>5, <1>6, <2>5, <3>1, <3>2 DEF TrueOf
  <2>6. CASE after = "completed"
    <3>1. CameTo(o, {"completed"})'
      BY <1>1, <1>2, <1>3, <2>1, <2>4, <2>6 DEF Ends, CameTo
    <3>2. sent'[o]["TransferFailed"] = sent[o]["TransferFailed"]
      BY <2>2, <2>3, <2>6 DEF Events
    <3> QED BY <1>1, <1>5, <1>6, <2>6, <3>1, <3>2 DEF TrueOf
  <2> QED BY <2>1, <2>5, <2>6
<1> QED BY <1>7, <1>8

\* TrueToAnchor is kept, operation by operation.
LEMMA TrueStep ==
  ASSUME TypeOK, Tracked, Answers, TrueToAnchor, [Next]_vars
  PROVE  TrueToAnchor'
<1> SUFFICES ASSUME NEW o \in Ops PROVE TrueOf(o)'
  BY DEF TrueToAnchor, TrueOf, CameTo
<1>1. TrueOf(o)
  BY DEF TrueToAnchor, TrueOf, CameTo
<1>2. ASSUME ops'[o] = ops[o], sent'[o] = sent[o], links[o] \subseteq links'[o] PROVE TrueOf(o)'
  BY <1>1, <1>2, TrueKept
<1>3. ASSUME NEW x \in Ops, RecordTransfer(x) PROVE TrueOf(o)'
  <2>1. CASE x = o
    <3>1. \A e \in Events : sent'[o][e] = 0
      BY <1>3, <2>1 DEF RecordTransfer, Tracked
    <3>2. ops'[o].status \notin {"completed", "failed"}
      BY <1>3, <2>1 DEF RecordTransfer, TypeOK
    <3> QED BY <3>1, <3>2 DEF TrueOf, Events
  <2>2. CASE x # o
    BY <1>2, <1>3, <2>2 DEF RecordTransfer, TypeOK
  <2> QED BY <2>1, <2>2
<1>4. ASSUME NEW x \in Ops, FundSettled(x) PROVE TrueOf(o)'
  <2>1. CASE x = o
    <3>1. /\ ops'[o].status = "failed" => ledger'[o] = "refused"
          /\ ops'[o].status # "completed"
          /\ UNCHANGED <<anchor, sent, links>>
      BY <1>4, <2>1 DEF FundSettled, TypeOK
    <3> QED BY <1>1, <3>1 DEF TrueOf, CameTo
  <2>2. CASE x # o
    BY <1>2, <1>4, <2>2 DEF FundSettled, TypeOK
  <2> QED BY <2>1, <2>2
<1>5. ASSUME NEW p \in Slots, NEW x \in Ops, PollApplied(p, x) PROVE TrueOf(o)'
  <2>1. CASE x = o
    BY <1>1, <1>5, <2>1, TrueWhenApplied
  <2>2. CASE x # o
    BY <1>2, <1>5, <2>2, AppliedElsewhere
  <2> QED BY <2>1, <2>2
<1>6. CASE UNCHANGED <<ops, sent, links>>
  BY <1>6, <1>2
<1> QED
  BY <1>3, <1>4, <1>5, <1>6, StepCases
     DEF OpenTransfer, OpeningLost, FundBegin, FundingDecided, FundUnheard, GiveUp,
         AnchorMoves, LoopPolls, OtherPolls, AskAnchor, AnchorAnswers, PollFails, vars

----------------------------------------------------------------------------
(* A transfer is of one operation *)

\* What an operation holds are transfers.
LEMMA HeldType ==
  ASSUME TypeOK, NEW o \in Ops
  PROVE  Held(o) \subseteq Transfers
  BY DEF TypeOK, Held

\* An operation comes to hold the transfer that is opened for it, and no other.
LEMMA HeldCases ==
  ASSUME TypeOK, [Next]_vars, NEW o \in Ops
  PROVE  \/ Held(o)' \subseteq Held(o)
         \/ \E k \in Transfers : OpenTransfer(o, k) /\ Held(o)' \subseteq Held(o) \cup {k}
<1>1. ASSUME NEW x \in Ops, NEW k \in Transfers, OpenTransfer(x, k)
      PROVE  IF x = o THEN Held(o)' \subseteq Held(o) \cup {k} ELSE Held(o)' \subseteq Held(o)
  BY <1>1 DEF OpenTransfer, Held, TypeOK
<1>2. ASSUME NEW x \in Ops, RecordTransfer(x) PROVE Held(o)' \subseteq Held(o)
  BY <1>2 DEF RecordTransfer, Held, TypeOK
<1>3. ASSUME NEW x \in Ops, OpeningLost(x) PROVE Held(o)' \subseteq Held(o)
  BY <1>3 DEF OpeningLost, Held, TypeOK
<1>4. CASE UNCHANGED <<own, opening>>
  BY <1>4 DEF Held
<1>5. CASE \E x \in Ops, k \in Transfers : OpenTransfer(x, k)
  BY <1>5, <1>1
<1> QED
  BY <1>2, <1>3, <1>4, <1>5, StepCases
     DEF FundBegin, FundingDecided, FundSettled, FundUnheard, GiveUp, AnchorMoves, LoopPolls,
         OtherPolls, AskAnchor, AnchorAnswers, PollFails, PollApplied, vars

\* The anchor opens a transfer once, so two operations never share one.
LEMMA ExclusiveStep ==
  ASSUME TypeOK, Exclusive, [Next]_vars
  PROVE  Exclusive'
<1>1. ASSUME NEW o \in Ops, NEW k \in Held(o)' PROVE anchor'[k] # "unopened"
  <2>1. CASE k \in Held(o)
    BY <2>1, HeldType, OpenedStays DEF Exclusive
  <2>2. CASE OpenTransfer(o, k) /\ k \in Transfers
    BY <2>2 DEF OpenTransfer, TypeOK
  <2> QED BY <1>1, <2>1, <2>2, HeldCases
<1>2. ASSUME NEW o \in Ops, NEW x \in Ops, x # o PROVE Held(o)' \cap Held(x)' = {}
  <2>1. ASSUME NEW y \in Ops, NEW z \in Ops, y # z, NEW k \in Transfers, OpenTransfer(y, k)
        PROVE  k \notin Held(z) /\ Held(z)' \subseteq Held(z)
    BY <2>1 DEF OpenTransfer, Exclusive, Held, TypeOK
  <2>2. Held(o) \cap Held(x) = {}
    BY <1>2 DEF Exclusive
  <2>3. CASE Held(o)' \subseteq Held(o) /\ Held(x)' \subseteq Held(x)
    BY <2>2, <2>3
  <2>4. CASE \E k \in Transfers : OpenTransfer(o, k) /\ Held(o)' \subseteq Held(o) \cup {k}
    BY <1>2, <2>1, <2>2, <2>4
  <2>5. CASE \E k \in Transfers : OpenTransfer(x, k) /\ Held(x)' \subseteq Held(x) \cup {k}
    BY <1>2, <2>1, <2>2, <2>5
  <2> QED BY <2>3, <2>4, <2>5, HeldCases
<1> QED BY <1>1, <1>2 DEF Exclusive

\* A poll that is over is at rest.
LEMMA RestingStep ==
  ASSUME TypeOK, Tracked, Answers, Exclusive, Resting, [Next]_vars
  PROVE  Resting'
<1> SUFFICES ASSUME NEW p \in Slots, polls'[p].pc = "idle" PROVE polls'[p] = NoPoll
  BY DEF Resting
<1>1. CASE \E id \in Ops \cup {None}, k \in Transfers :
              polls'[p] = [pc |-> "asked", op |-> id, transfer |-> k, answer |-> "unopened"]
  BY <1>1
<1>2. CASE polls'[p] = [pc |-> "answered", op |-> polls[p].op, transfer |-> polls[p].transfer,
                        answer |-> anchor[polls[p].transfer]]
  BY <1>2
<1>3. CASE polls'[p] = polls[p]
  BY <1>3 DEF Resting
<1> QED BY <1>1, <1>2, <1>3, PollCases

----------------------------------------------------------------------------
(* Operations whose polls take turns *)

\* Nothing happens to an operation but that its loop may give up, or the opening
\* of its transfer be lost.
Untouched(o) ==
    /\ ops'[o] = ops[o] /\ sent'[o] = sent[o] /\ own'[o] = own[o]
    /\ opening'[o] \in {opening[o], None}
    /\ funding'[o] = funding[o] /\ ledger'[o] = ledger[o]
    /\ loop'[o] = loop[o] \/ (loop[o] = "polling" /\ loop'[o] = "gaveUp")

\* No poll of it or of its transfer is started or answered.
Unasked(o) ==
    \A p \in Slots :
        polls'[p] = polls[p] \/ (polls'[p].op # o /\ polls'[p].transfer \notin Held(o))

\* Its polls take turns as before when none is added and its funding stands.
LEMMA TurnKept ==
  ASSUME NEW o \in Ops, own[o] # None, TurnOf(o), Unasked(o), own'[o] = own[o],
         Ended(o)' => Ended(o), Funded(o) => Funded(o)',
         loop'[o] = "polling" => loop[o] = "polling",
         loop'[o] # "unstarted" => loop[o] # "unstarted"
  PROVE  TurnOf(o)'
<1>1. \A p \in PollsOf(o)' : p \in PollsOf(o) /\ polls'[p] = polls[p]
  BY DEF PollsOf, Unasked, Held
<1>2. \A p, q \in PollsOf(o)' : p = q
  BY <1>1 DEF TurnOf
<1>3. ASSUME NEW p \in PollsOf(o)'
      PROVE  /\ loop'[o] = "polling" => p = o
             /\ Funded(o)'
             /\ polls'[p].pc = "answered" /\ polls'[p].answer \notin Ends => ~Ended(o)'
  BY <1>1, <1>3 DEF TurnOf
<1>4. loop'[o] # "unstarted" => Funded(o)'
  BY DEF TurnOf
<1> QED BY <1>2, <1>3, <1>4 DEF TurnOf

\* It stays its own clients' as long as nobody else asks.
LEMMA MineKept ==
  ASSUME NEW o \in Ops, MineOf(o), Unasked(o), ops'[o].transfer = ops[o].transfer,
         own'[o] = own[o], opening'[o] \in {opening[o], None}
  PROVE  MineOf(o)'
<1>1. ASSUME NEW p \in Slots
      PROVE  /\ polls'[p].op = o => polls'[p].transfer = own'[o]
             /\ opening'[o] # None => polls'[p].transfer # opening'[o]
  BY DEF MineOf, Unasked, Held
<1> QED BY <1>1 DEF MineOf

LEMMA UntouchedTurns ==
  ASSUME NEW o \in Ops, TakesTurns(o), Untouched(o), Unasked(o)
  PROVE  TakesTurns(o)'
<1>1. Ended(o)' <=> Ended(o)
  BY DEF Untouched, Ended
<1>2. Funded(o)' <=> Funded(o)
  BY DEF Untouched, Funded
<1>3. Announcements(o)' = Announcements(o)
  BY DEF Untouched, Announcements
<1>4. ToldOf(o)'
  BY <1>1, <1>2, <1>3 DEF TakesTurns, ToldOf, Untouched
<1>5. ASSUME own[o] # None PROVE TurnOf(o)'
  BY <1>1, <1>2, <1>5, TurnKept DEF TakesTurns, Untouched
<1>6. MineOf(o)'
  BY MineKept DEF TakesTurns, Untouched
<1>7. own'[o] = own[o]
  BY DEF Untouched
<1> QED BY <1>4, <1>5, <1>6, <1>7 DEF TakesTurns

\* Before its funding has succeeded nothing polls a payout.
LEMMA UnfundedIsQuiet ==
  ASSUME NEW o \in Ops, TurnOf(o), ~Funded(o)
  PROVE  PollsOf(o) = {} /\ loop[o] = "unstarted"
  BY DEF TurnOf

\* Counts that add up to nothing are nothing.
LEMMA SilenceIsZero ==
  ASSUME TypeOK, NEW o \in Ops, Announcements(o) = 0
  PROVE  \A e \in Events : sent[o][e] = 0
<1>1. \A e \in Events : sent[o][e] \in 0 .. 2
  BY DEF TypeOK, MaxSent
<1>2. /\ sent[o]["MoneyAdded"] \in 0 .. 2
      /\ sent[o]["MoneySent"] \in 0 .. 2
      /\ sent[o]["TransferFailed"] \in 0 .. 2
  BY <1>1 DEF Events
<1>3. sent[o]["MoneyAdded"] = 0 /\ sent[o]["MoneySent"] = 0 /\ sent[o]["TransferFailed"] = 0
  BY <1>2 DEF Announcements
<1> QED BY <1>3 DEF Events

\* The first end is announced once.
LEMMA FirstEndIsOne ==
  ASSUME TypeOK, NEW o \in Ops, NEW after \in {"completed", "failed"},
         ops[o].status # after, Announcements(o) = 0, sent'[o] = Announced(o, after)
  PROVE  Announcements(o)' = 1
<1>1. \A e \in Events : sent[o][e] = 0
  BY SilenceIsZero
<1>2. EventOf(o, after) \in Events
  BY DEF EventOf, Events
<1>3. sent[o] \in [Events -> 0 .. MaxSent]
  BY DEF TypeOK
<1>4. sent'[o] = [sent[o] EXCEPT ![EventOf(o, after)] = 1]
  BY <1>1, <1>2, <1>3 DEF Announced, OneMore, MaxSent
<1>5. EventOf(o, after) \in {"MoneyAdded", "MoneySent", "TransferFailed"}
  BY <1>2 DEF Events
<1>6. /\ sent[o]["MoneyAdded"] = 0 /\ sent[o]["MoneySent"] = 0 /\ sent[o]["TransferFailed"] = 0
  BY <1>1 DEF Events
<1>7. \A e \in Events : sent'[o][e] = IF e = EventOf(o, after) THEN 1 ELSE 0
  BY <1>1, <1>3, <1>4
<1>8. /\ sent'[o]["MoneyAdded"] = IF EventOf(o, after) = "MoneyAdded" THEN 1 ELSE 0
      /\ sent'[o]["MoneySent"] = IF EventOf(o, after) = "MoneySent" THEN 1 ELSE 0
      /\ sent'[o]["TransferFailed"] = IF EventOf(o, after) = "TransferFailed" THEN 1 ELSE 0
  BY <1>7 DEF Events
<1> QED BY <1>5, <1>8 DEF Announcements

\* A transfer that the anchor has just opened is polled by nobody.
LEMMA OpenedUnpolled ==
  ASSUME TypeOK, Answers, Resting, NEW o \in Ops, NEW k \in Transfers, OpenTransfer(o, k),
         NEW p \in Slots
  PROVE  polls[p].transfer # k
<1>1. CASE polls[p].pc = "idle"
  BY <1>1, TransferAssumption DEF Resting, NoPoll
<1>2. CASE polls[p].pc # "idle"
  BY <1>2 DEF Answers, OpenTransfer
<1> QED BY <1>1, <1>2

\* A poll that names an operation finds it recorded.
LEMMA NamedIsRecorded ==
  ASSUME Answers, Resting, NEW o \in Ops, NEW p \in Slots, polls[p].op = o
  PROVE  Recorded(o)
<1>1. polls[p].pc # "idle"
  BY TransferAssumption DEF Resting, NoPoll
<1>2. polls[p].op # None
  BY TransferAssumption
<1> QED BY <1>1, <1>2 DEF Answers

\* When such an operation is polled and has ended, the anchor has too.
LEMMA EndedIsDecided ==
  ASSUME TypeOK, TrueToAnchor, NEW o \in Ops, MineOf(o), Funded(o), ToldOf(o), Ended(o)
  PROVE  /\ anchor[own[o]] \in Ends
         /\ ops[o].status = Mapped(anchor[own[o]])
<1>1. ledger[o] # "refused"
  BY DEF Funded, ToldOf
<1>2. ops[o].transfer = own[o]
  BY DEF MineOf
<1> QED BY <1>1, <1>2 DEF TrueToAnchor, Ended, Ends, Mapped

----------------------------------------------------------------------------

\* A transfer is opened for an operation that is not recorded yet.
LEMMA TurnsOpened ==
  ASSUME TypeOK, Tracked, Answers, Resting, NEW o \in InTurn, TakesTurns(o),
         NEW x \in Ops, NEW k \in Transfers, OpenTransfer(x, k)
  PROVE  TakesTurns(o)'
<1> o \in Ops
  BY TransferAssumption
<1>1. /\ UNCHANGED <<ops, own, funding, ledger, polls, loop, sent>>
      /\ opening'[o] = IF x = o THEN k ELSE opening[o]
  BY DEF OpenTransfer, TypeOK
<1>2. CASE x = o
  <2>1. own[o] = None
    BY <1>2 DEF OpenTransfer, Tracked
  <2>2. MineOf(o)'
    BY <1>1, <1>2, OpenedUnpolled DEF TakesTurns, MineOf
  <2>3. ToldOf(o)'
    BY <1>1 DEF TakesTurns, ToldOf, Announcements, Ended, Funded
  <2> QED BY <1>1, <2>1, <2>2, <2>3 DEF TakesTurns
<1>3. CASE x # o
  BY <1>1, <1>3, UntouchedTurns DEF Untouched, Unasked
<1> QED BY <1>2, <1>3

\* It is recorded, and polled by nobody yet.
LEMMA TurnsRecorded ==
  ASSUME TypeOK, Tracked, Answers, Resting, NEW o \in InTurn, TakesTurns(o),
         NEW x \in Ops, RecordTransfer(x)
  PROVE  TakesTurns(o)'
<1> o \in Ops
  BY TransferAssumption
<1>1. CASE x = o
  <2>1. /\ ops'[o].transfer = opening[o] /\ own'[o] = opening[o]
        /\ opening[o] # None /\ opening'[o] = None /\ ~Recorded(o) /\ own[o] = None
        /\ ops'[o].status \in {"awaiting_signature", "pending"}
        /\ UNCHANGED <<polls, funding, ledger, sent>>
    BY <1>1 DEF RecordTransfer, TypeOK, Tracked
  <2>2. loop[o] = "unstarted" /\ loop'[o] # "over" /\ (loop'[o] # "unstarted" => ~IsPayout(o))
    BY <1>1, <2>1 DEF RecordTransfer, TypeOK, Tracked
  <2>3. \A p \in Slots : polls'[p].transfer # own'[o] /\ polls'[p].op # o
    BY <2>1, NamedIsRecorded DEF TakesTurns, MineOf
  <2>4. MineOf(o)'
    BY <2>1, <2>3 DEF MineOf
  <2>5. PollsOf(o)' = {}
    BY <2>3 DEF PollsOf
  <2>6. TurnOf(o)'
    BY <2>2, <2>5 DEF TurnOf, Funded
  <2>7. ~Ended(o)' /\ ~Ended(o)
    BY <2>1 DEF Ended, Recorded
  <2>8. Announcements(o)' = Announcements(o)
    BY <2>1 DEF Announcements
  <2>9. ToldOf(o)'
    BY <2>1, <2>2, <2>7, <2>8 DEF TakesTurns, ToldOf
  <2> QED BY <2>4, <2>6, <2>9 DEF TakesTurns
<1>2. CASE x # o
  <2>1. Untouched(o) /\ polls' = polls
    BY <1>2 DEF RecordTransfer, Untouched, TypeOK
  <2> QED BY <2>1, UntouchedTurns DEF Unasked
<1> QED BY <1>1, <1>2

\* The funding of a payout, before which nothing polls it.
LEMMA TurnsFunded ==
  ASSUME TypeOK, Tracked, NEW o \in InTurn, TakesTurns(o), NEW x \in Ops,
         FundBegin(x) \/ FundUnheard(x) \/ FundSettled(x)
           \/ \E outcome \in {"landed", "refused"} : FundingDecided(x, outcome)
  PROVE  TakesTurns(o)'
<1> o \in Ops
  BY TransferAssumption
<1>1. CASE x = o
  <2>1. funding[o] # "settled" \/ ledger[o] # "landed"
    BY <1>1 DEF FundBegin, FundUnheard, FundSettled, FundingDecided
  <2>2. IsPayout(o)
    BY <1>1 DEF FundBegin, FundUnheard, FundSettled, FundingDecided, TakesTurns, ToldOf
  <2>3. ~Funded(o)
    BY <2>1, <2>2 DEF Funded
  <2>4. Ended(o) => ledger[o] = "refused"
    BY <2>3 DEF TakesTurns, ToldOf
  <2>5. Announcements(o) = 0 /\ Announcements(o)' = 0
    BY <2>4
       DEF TakesTurns, ToldOf, Announcements, FundBegin, FundUnheard, FundSettled,
           FundingDecided
  <2>6. /\ polls' = polls /\ own' = own /\ opening' = opening
        /\ ops'[o].transfer = ops[o].transfer
        /\ \/ ops'[o].status = "failed" /\ ledger'[o] = "refused"
           \/ ops'[o] = ops[o]
           \/ ops'[o].status = "processing"
        /\ ledger[o] = "refused" => ledger'[o] = "refused"
    BY <1>1 DEF FundBegin, FundUnheard, FundSettled, FundingDecided, TypeOK
  <2>7. Ended(o)' => ledger'[o] = "refused"
    BY <2>4, <2>6 DEF Ended
  <2>8. own[o] = None => loop[o] = "unstarted" /\ funding[o] = "awaited"
    BY DEF Tracked
  <2>9. own[o] # None => PollsOf(o)' = {} /\ loop[o] = "unstarted"
    BY <2>3, <2>6, UnfundedIsQuiet DEF PollsOf, TakesTurns
  <2>10. loop'[o] \in {"unstarted", "polling"} /\ (loop'[o] # "unstarted" => Funded(o)')
    BY <1>1, <2>8, <2>9
       DEF FundBegin, FundUnheard, FundSettled, FundingDecided, TypeOK, Funded
  <2>11. ToldOf(o)'
    BY <2>2, <2>5, <2>7, <2>10 DEF ToldOf
  <2>12. own[o] # None => TurnOf(o)'
    BY <2>9, <2>10 DEF TurnOf
  <2>13. MineOf(o)'
    BY <2>6, MineKept DEF Unasked, TakesTurns
  <2> QED BY <2>6, <2>11, <2>12, <2>13 DEF TakesTurns
<1>2. CASE x # o
  <2>1. Untouched(o) /\ polls' = polls
    BY <1>2 DEF FundBegin, FundUnheard, FundSettled, FundingDecided, Untouched, TypeOK
  <2> QED BY <2>1, UntouchedTurns DEF Unasked
<1> QED BY <1>1, <1>2

\* A poll that is started is the only one, and after the funding.
LEMMA TurnsAsked ==
  ASSUME TypeOK, Tracked, Exclusive, Resting, NEW o \in InTurn, TakesTurns(o),
         \/ \E x \in Ops : LoopPolls(x)
         \/ \E c \in Others, id \in Ops \cup {None}, k \in Transfers : OtherPolls(c, id, k)
  PROVE  TakesTurns(o)'
<1> o \in Ops
  BY TransferAssumption
<1>1. ASSUME NEW p \in Slots, NEW id \in Ops \cup {None}, NEW k \in Transfers,
             AskAnchor(p, id, k)
      PROVE  /\ UNCHANGED <<ops, opening, own, anchor, funding, ledger, loop, sent>>
             /\ polls[p] = NoPoll
             /\ polls'[p].pc = "asked" /\ polls'[p].transfer = k /\ polls'[p].op = id
             /\ \A q \in Slots : q # p => polls'[q] = polls[q]
  BY <1>1 DEF AskAnchor, TypeOK, Resting, Slots
<1>2. ASSUME NEW p \in Slots, NEW id \in Ops \cup {None}, NEW k \in Transfers,
             AskAnchor(p, id, k), id # o, k \notin Held(o)
      PROVE  TakesTurns(o)'
  <2>1. Untouched(o) /\ Unasked(o)
    BY <1>1, <1>2 DEF Untouched, Unasked
  <2> QED BY <2>1, UntouchedTurns
<1>3. ASSUME NEW p \in Slots, NEW id \in {o, None}, AskAnchor(p, id, own[o]), own[o] \in Transfers,
             loop[o] = "polling" => p = o, Funded(o),
             \A q \in Slots : q # p => polls[q].transfer # own[o]
      PROVE  TakesTurns(o)'
  <2>1. /\ UNCHANGED <<ops, opening, own, anchor, funding, ledger, loop, sent>>
        /\ polls'[p].pc = "asked" /\ polls'[p].transfer = own[o] /\ polls'[p].op = id
        /\ \A q \in Slots : q # p => polls'[q] = polls[q]
    BY <1>1, <1>3
  <2>2. own[o] # None /\ TurnOf(o) /\ opening[o] = None
    BY <1>3, TransferAssumption DEF TakesTurns, Tracked
  <2>3. PollsOf(o)' = {p}
    BY <1>3, <2>1 DEF PollsOf
  <2>4. Funded(o)' /\ (loop'[o] = "polling" => p = o)
    BY <1>3, <2>1 DEF Funded
  <2>5. TurnOf(o)'
    BY <2>1, <2>3, <2>4 DEF TurnOf
  <2>6. ToldOf(o)'
    BY <2>1 DEF TakesTurns, ToldOf, Announcements, Ended, Funded
  <2>7. MineOf(o)'
    BY <2>1, <2>2 DEF TakesTurns, MineOf
  <2> QED BY <2>5, <2>6, <2>7 DEF TakesTurns
<1>4. ASSUME NEW x \in Ops, LoopPolls(x) PROVE TakesTurns(o)'
  <2>1. /\ AskAnchor(x, x, own[x]) /\ own[x] \in Transfers /\ x \in Slots
        /\ loop[x] = "polling" /\ own[x] \in Held(x)
    BY <1>4 DEF LoopPolls, Tracked, TypeOK, Slots, Held
  <2>2. CASE x # o
    <3>1. own[x] \notin Held(o)
      BY <2>1, <2>2 DEF Exclusive
    <3> QED BY <1>2, <2>1, <2>2, <3>1
  <2>3. CASE x = o
    <3>1. polls[o] = NoPoll /\ TurnOf(o) /\ own[o] # None
      BY <1>1, <2>1, <2>3, TransferAssumption DEF TakesTurns
    <3>2. \A q \in Slots : q # o => polls[q].transfer # own[o]
      BY <2>1, <2>3, <3>1 DEF TurnOf, PollsOf
    <3>3. Funded(o)
      BY <2>1, <2>3, <3>1 DEF TurnOf
    <3> QED BY <1>3, <2>1, <2>3, <3>2, <3>3
  <2> QED BY <2>2, <2>3
<1>5. ASSUME NEW c \in Others, NEW id \in Ops \cup {None}, NEW k \in Transfers,
             OtherPolls(c, id, k)
      PROVE  TakesTurns(o)'
  <2>1. AskAnchor(c, id, k) /\ c \in Slots
    BY <1>5 DEF OtherPolls, Slots
  <2>2. CASE id # o /\ k \notin Held(o)
    BY <1>2, <2>1, <2>2
  <2>3. CASE id = o \/ k \in Held(o)
    <3>1. TakesTurn(o, id, k)
      BY <1>5, <2>3 DEF OtherPolls
    <3> QED BY <1>3, <2>1, <3>1 DEF TakesTurn, Funded, Slots
  <2> QED BY <2>2, <2>3
<1> QED BY <1>4, <1>5

----------------------------------------------------------------------------

\* An answer is fresh when it is made up, and a failure changes nothing.
LEMMA TurnsAnswered ==
  ASSUME TypeOK, Tracked, Answers, TrueToAnchor, NEW o \in InTurn, TakesTurns(o),
         NEW p \in Slots, AnchorAnswers(p) \/ PollFails(p)
  PROVE  TakesTurns(o)'
<1> o \in Ops
  BY TransferAssumption
<1>1. CASE PollFails(p)
  <2>1. Untouched(o)
    BY <1>1 DEF PollFails, Untouched, TypeOK
  <2>2. Unasked(o)
    BY <1>1, TransferAssumption DEF PollFails, Unasked, NoPoll, TypeOK, Slots, Held
  <2> QED BY <2>1, <2>2, UntouchedTurns
<1>2. CASE AnchorAnswers(p)
  <2>1. /\ polls'[p].pc = "answered" /\ polls'[p].transfer = polls[p].transfer
        /\ polls'[p].op = polls[p].op
        /\ polls'[p].answer = anchor[polls[p].transfer]
        /\ \A q \in Slots : q # p => polls'[q] = polls[q]
        /\ UNCHANGED <<ops, opening, own, funding, ledger, loop, sent>>
    BY <1>2 DEF AnchorAnswers, TypeOK, Slots
  <2>2. /\ Funded(o)' <=> Funded(o)
        /\ Ended(o)' <=> Ended(o)
        /\ Announcements(o)' = Announcements(o)
    BY <2>1 DEF Funded, Ended, Announcements
  <2>3. MineOf(o)'
    <3>1. ASSUME NEW q \in Slots
          PROVE  polls'[q].op = polls[q].op /\ polls'[q].transfer = polls[q].transfer
      BY <2>1
    <3> QED BY <2>1, <3>1 DEF MineOf, TakesTurns
  <2>4. ToldOf(o)'
    BY <2>1, <2>2 DEF TakesTurns, ToldOf
  <2>5. ASSUME own[o] # None PROVE TurnOf(o)'
    <3>1. CASE p \in PollsOf(o)
      <4>1. TurnOf(o) /\ Funded(o) /\ polls[p].transfer = own[o] /\ PollsOf(o) = {p}
        BY <2>5, <3>1 DEF TakesTurns, TurnOf, PollsOf
      <4>2. PollsOf(o)' = {p}
        BY <2>1, <4>1 DEF PollsOf
      <4>3. polls'[p].answer \notin Ends => ~Ended(o)
        BY <2>1, <4>1, EndedIsDecided DEF TakesTurns
      <4>4. (loop'[o] = "polling" => p = o) /\ (loop'[o] # "unstarted" => Funded(o)')
        BY <2>1, <2>2, <3>1, <4>1 DEF TurnOf
      <4> QED BY <2>2, <4>1, <4>2, <4>3, <4>4 DEF TurnOf
    <3>2. CASE p \notin PollsOf(o)
      <4>1. PollsOf(o)' = PollsOf(o) /\ \A q \in PollsOf(o) : polls'[q] = polls[q]
        BY <2>1, <3>2 DEF PollsOf
      <4>2. TurnOf(o)
        BY <2>5 DEF TakesTurns
      <4> QED BY <2>1, <2>2, <4>1, <4>2 DEF TurnOf
    <3> QED BY <3>1, <3>2
  <2> QED BY <2>1, <2>3, <2>4, <2>5 DEF TakesTurns
<1> QED BY <1>1, <1>2

\* What a poll does to an operation whose polls take turns: an end is stored and
\* announced when it is the first, and nothing else is.
LEMMA TurnsApplied ==
  ASSUME TypeOK, Tracked, Answers, TrueToAnchor, NEW o \in InTurn, TakesTurns(o),
         NEW p \in Slots, NEW x \in Ops, PollApplied(p, x)
  PROVE  TakesTurns(o)'
<1> o \in Ops
  BY TransferAssumption
<1>1. /\ polls'[p] = NoPoll /\ \A q \in Slots : q # p => polls'[q] = polls[q]
      /\ polls[p].pc = "answered"
  BY DEF PollApplied, TypeOK, Slots
<1>2. Unasked(o)
  BY <1>1, TransferAssumption DEF Unasked, NoPoll, Held
<1>3. CASE x # o
  <2>1. Untouched(o)
    BY <1>3, AppliedElsewhere DEF Untouched
  <2> QED BY <1>2, <2>1, UntouchedTurns
<1>4. CASE x = o
  <2> DEFINE answer == polls[p].answer
             after == After(p, o)
  <2>1. /\ ops'[o].status = after /\ ops'[o].transfer = polls[p].transfer
        /\ sent'[o] = Announced(o, after)
        /\ loop'[o] = IF p = o /\ loop[o] = "polling" /\ answer \in Ends THEN "over" ELSE loop[o]
        /\ opening' = opening /\ own' = own /\ anchor' = anchor
        /\ funding' = funding /\ ledger' = ledger
    BY <1>4, AppliedAs
  <2>2. /\ polls[p].transfer \in Transfers
        /\ answer \in Ends => anchor[polls[p].transfer] = answer
    BY <1>4, AppliedTo
  <2>3. polls[p].transfer = own[o]
    BY <1>4 DEF PollApplied, TakesTurns, MineOf
  <2>4. own[o] # None /\ TurnOf(o) /\ p \in PollsOf(o)
    BY <2>2, <2>3, TransferAssumption DEF PollsOf, TakesTurns
  <2>5. Funded(o) /\ (answer \notin Ends => ~Ended(o))
    BY <1>1, <2>4 DEF TurnOf
  <2>6. Funded(o)' /\ ledger[o] # "refused" /\ ledger'[o] # "refused"
    BY <2>1, <2>5 DEF Funded, TakesTurns, ToldOf
  <2>7. answer \in Ends => after = Mapped(answer) /\ after \in {"completed", "failed"}
    BY DEF After, MappedLinked, Mapped, Ends
  <2>8. Ended(o) => ops[o].status = Mapped(anchor[own[o]])
    BY <2>5, EndedIsDecided DEF TakesTurns
  <2>9. MineOf(o)'
    BY <1>2, <2>1, <2>3, MineKept DEF TakesTurns, MineOf
  <2>10. CASE answer \in Ends
    <3>1. Ended(o) => ops[o].status = after
      BY <2>2, <2>3, <2>7, <2>8, <2>10
    <3>2. Ended(o)'
      BY <2>1, <2>7, <2>10 DEF Ended
    <3>3. Announcements(o)' = 1
      <4>1. CASE Ended(o)
        <5>1. sent'[o] = sent[o]
          BY <2>1, <3>1, <4>1 DEF Announced
        <5> QED BY <2>6, <4>1, <5>1 DEF TakesTurns, ToldOf, Announcements
      <4>2. CASE ~Ended(o)
        <5>1. ops[o].status # after /\ Announcements(o) = 0
          BY <2>7, <2>10, <4>2 DEF Ended, TakesTurns, ToldOf
        <5> QED BY <2>1, <2>7, <2>10, <5>1, FirstEndIsOne
      <4> QED BY <4>1, <4>2
    <3>4. ToldOf(o)'
      BY <2>1, <2>6, <3>2, <3>3 DEF TakesTurns, ToldOf
    <3>5. PollsOf(o)' = {}
      BY <1>1, <2>1, <2>4, TransferAssumption DEF PollsOf, TurnOf, NoPoll
    <3>6. TurnOf(o)'
      BY <2>6, <3>5 DEF TurnOf
    <3> QED BY <2>9, <3>4, <3>6 DEF TakesTurns
  <2>11. CASE answer \notin Ends
    <3>1. ~Ended(o) /\ after \notin {"completed", "failed"}
      BY <2>5, <2>11 DEF After, Mapped, MappedLinked, Ended, Ends
    <3>2. ~Ended(o)' /\ sent'[o] = sent[o] /\ loop'[o] = loop[o]
      BY <2>1, <2>11, <3>1 DEF Ended, Announced
    <3>3. ToldOf(o)'
      BY <2>1, <2>6, <3>1, <3>2 DEF TakesTurns, ToldOf, Announcements
    <3>4. TurnOf(o)'
      BY <1>2, <2>1, <2>4, <2>6, <3>2, TurnKept
    <3> QED BY <2>9, <3>3, <3>4 DEF TakesTurns
  <2> QED BY <2>10, <2>11
<1> QED BY <1>3, <1>4

LEMMA TurnsStep ==
  ASSUME TypeOK, Tracked, Answers, TrueToAnchor, Exclusive, Resting, Turns, [Next]_vars
  PROVE  Turns'
<1> SUFFICES ASSUME NEW o \in InTurn PROVE TakesTurns(o)'
  BY DEF Turns
<1>1. TakesTurns(o) /\ o \in Ops
  BY TransferAssumption DEF Turns
<1>2. ASSUME NEW x \in Ops,
             FundBegin(x) \/ FundUnheard(x) \/ FundSettled(x)
               \/ \E outcome \in {"landed", "refused"} : FundingDecided(x, outcome)
      PROVE  TakesTurns(o)'
  BY <1>1, <1>2, TurnsFunded
<1>3. ASSUME NEW x \in Ops, OpeningLost(x) \/ GiveUp(x)
      PROVE  Untouched(o) /\ polls' = polls
  BY <1>1, <1>3 DEF OpeningLost, GiveUp, Untouched, TypeOK
<1>4. CASE \/ \E k \in Transfers, status \in AnchorStates : AnchorMoves(k, status)
           \/ UNCHANGED vars
  <2>1. Untouched(o) /\ polls' = polls
    BY <1>4 DEF AnchorMoves, Untouched, vars
  <2> QED BY <1>1, <2>1, UntouchedTurns DEF Unasked
<1>5. CASE \E x \in Ops : OpeningLost(x) \/ GiveUp(x)
  BY <1>1, <1>3, <1>5, UntouchedTurns DEF Unasked
<1>6. CASE \E x \in Ops : RecordTransfer(x) \/ \E k \in Transfers : OpenTransfer(x, k)
  BY <1>1, <1>6, TurnsRecorded, TurnsOpened
<1>7. CASE \/ \E x \in Ops : LoopPolls(x)
           \/ \E c \in Others, id \in Ops \cup {None}, k \in Transfers : OtherPolls(c, id, k)
  BY <1>1, <1>7, TurnsAsked
<1>8. CASE \E p \in Slots : PollMoves(p)
  BY <1>1, <1>8, TurnsAnswered, TurnsApplied DEF PollMoves
<1> QED BY <1>2, <1>4, <1>5, <1>6, <1>7, <1>8, StepCases DEF PollMoves

----------------------------------------------------------------------------
(* What the activity screen says *)

\* The screen says one thing of a recorded operation.
LEMMA LabelOfRecorded ==
  ASSUME TypeOK, NEW o \in Ops, Recorded(o)
  PROVE  Labels(o) = {IF ops[o].status = "completed" THEN "Done"
                      ELSE IF ops[o].status = "failed" THEN "Didn't go through"
                      ELSE "On its way"}
<1> DEFINE items == {activityToTransaction(item) : item \in listActivity}
           mine == [id |-> o, status |-> mapStatus(ops[o].status)]
<1>1. items = {[id |-> x, status |-> mapStatus(ops[x].status)] : x \in {y \in Ops : Recorded(y)}}
  <2>1. \A x : activityToTransaction(normalizeActivityItem(x))
                 = [id |-> x, status |-> mapStatus(ops[x].status)]
    BY DEF activityToTransaction, normalizeActivityItem
  <2> QED BY <2>1 DEF listActivity
<1>2. Labels(o) = {transactionStatusLabel(mapStatus(ops[o].status))}
  <2>1. mine \in items /\ mine.id = o
    BY <1>1
  <2>2. \A t \in items : t.id = o => t = mine
    BY <1>1
  <2>3. mine.status = mapStatus(ops[o].status)
    OBVIOUS
  <2>4. {t \in items : t.id = o} = {mine}
    BY <2>1, <2>2
  <2>5. Labels(o) = {transactionStatusLabel(t.status) : t \in {mine}}
    BY <2>4 DEF Labels
  <2> QED BY <2>3, <2>5
<1>3. transactionStatusLabel(mapStatus(ops[o].status)) =
        IF ops[o].status = "completed" THEN "Done"
        ELSE IF ops[o].status = "failed" THEN "Didn't go through" ELSE "On its way"
  BY DEF transactionStatusLabel, mapStatus
<1> QED BY <1>2, <1>3

----------------------------------------------------------------------------

\* The invariant holds to begin with.
LEMMA InvInit == Init => TransferInv
<1> SUFFICES ASSUME Init PROVE TransferInv
  OBVIOUS
<1>1. TypeOK
  BY DEF Init, TypeOK, Statuses, AnchorStates, Poll, NoPoll, MaxSent
<1>2. Tracked
  BY DEF Init, Tracked, Recorded
<1>3. TrueToAnchor
  BY DEF Init, TrueToAnchor, Events
<1>4. Answers /\ Resting
  BY DEF Init, Answers, Resting, NoPoll, Slots
<1>5. Exclusive
  BY DEF Init, Exclusive, Held
<1>6. Turns
  BY TransferAssumption
     DEF Init, Turns, TakesTurns, MineOf, ToldOf, Ended, Announcements, Events, NoPoll, Slots
<1> QED BY <1>1, <1>2, <1>3, <1>4, <1>5, <1>6 DEF TransferInv

\* Types, transfers, answers in flight, truth and turns hold together, whatever
\* polls overlap, fail or are overtaken, and whatever they name.
THEOREM TransferInductive == Spec => []TransferInv
<1>1. TransferInv /\ [Next]_vars => TransferInv'
  BY TypeStep, TrackedStep, AnswersStep, TrueStep, ExclusiveStep, RestingStep, TurnsStep
     DEF TransferInv
<1> QED BY InvInit, <1>1, PTL DEF Spec

\* The variables of AnchorTransfers keep their types.
THEOREM TransferTypes == Spec => []TypeOK
<1>1. TransferInv => TypeOK
  BY DEF TransferInv
<1> QED BY <1>1, TransferInductive, PTL

\* No end is stored or announced of an operation that the anchor has not reported
\* of a transfer it is linked to, or was when the end was announced, except a
\* refused funding: for any number of clients that poll at will, with whatever
\* operation and transfer.
THEOREM PollsAreTrue == Spec => []TrueToAnchor
<1>1. TransferInv => TrueToAnchor
  BY DEF TransferInv
<1> QED BY <1>1, TransferInductive, PTL

\* Of a transfer whose polls take turns the end is announced once, when it is
\* stored, and nothing before it or without it: whichever client's poll brings
\* it, and however its funding fails, is repeated or is refused.
THEOREM EndIsAnnouncedOnce == Spec => []AnnouncedAsItEnded
<1>1. TransferInv => AnnouncedAsItEnded
  BY DEF TransferInv, Turns, TakesTurns, ToldOf, AnnouncedAsItEnded
<1> QED BY <1>1, TransferInductive, PTL

\* When the app's loop has told its user that a transfer ended, the activity
\* screen says so too, with the right end, and it never says so too early.
THEOREM ScreenAgrees == Spec => []ToldIsRecorded
<1>1. ASSUME TransferInv, NEW o \in InTurn, own[o] # None
      PROVE  /\ TypeOK /\ TrueToAnchor /\ o \in Ops /\ ToldOf(o) /\ TurnOf(o) /\ MineOf(o)
             /\ Recorded(o) /\ ops[o].transfer = own[o]
  BY <1>1, TransferAssumption DEF TransferInv, Turns, TakesTurns, MineOf, Tracked
<1>2. ASSUME TransferInv, NEW o \in InTurn, loop[o] = "over"
      PROVE  Labels(o) = {IF anchor[own[o]] = "completed" THEN "Done"
                          ELSE "Didn't go through"}
  <2>1. own[o] # None
    BY <1>2, TransferAssumption DEF TransferInv, Tracked
  <2>2. Ended(o) /\ Funded(o)
    BY <1>1, <1>2, <2>1 DEF ToldOf, TurnOf
  <2>3. ops[o].status = "completed" <=> anchor[own[o]] = "completed"
    BY <1>1, <1>2, <2>1, <2>2, EndedIsDecided DEF Mapped
  <2> QED BY <1>1, <1>2, <2>1, <2>2, <2>3, LabelOfRecorded DEF Ended
<1>3. ASSUME TransferInv, NEW o \in InTurn, own[o] # None, ledger[o] # "refused",
             anchor[own[o]] \notin Ends
      PROVE  Labels(o) = {"On its way"}
  <2>1. ops[o].status \notin {"completed", "failed"}
    BY <1>1, <1>3 DEF TrueToAnchor, Ends
  <2> QED BY <1>1, <1>3, <2>1, LabelOfRecorded
<1>4. TransferInv => ToldIsRecorded
  BY <1>2, <1>3 DEF ToldIsRecorded
<1> QED BY <1>4, TransferInductive, PTL
=============================================================================
