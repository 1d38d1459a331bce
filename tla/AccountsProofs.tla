--------------------------- MODULE AccountsProofs ---------------------------
(***************************************************************************)
(* Proofs about PayLogin and AntiDrain: sign-ins belong to those who paid, *)
(* names to those who signed in last, and money paid is credited once; and *)
(* the rules that hold payouts back hold although the facts are old.       *)
(*                                                                         *)
(* IInv holds whatever players type and however little the player list     *)
(* shows: a challenge that has been seen was paid by its owner, and until  *)
(* the browser is done with it its owner keeps the name it carries.        *)
(* Tallied needs Listed and ~Slips: with them every credit is either a     *)
(* receipt of the account's own or the sign-in that another payment of it  *)
(* bought.                                                                 *)
(*                                                                         *)
(* RulesInv counts every request whose facts would let it pass as if it    *)
(* had been made: the monitor and the operators only ever take away.  And  *)
(* what is with the bot, or waits for a vault's money, when its player is  *)
(* held is remembered until the hold ends, for it may be handed out again. *)
(***************************************************************************)
EXTENDS PayLogin, AntiDrain, Sums, SequenceTheorems

-----------------------------------------------------------------------------
(* The inductive invariant                                                  *)

Reports == [of : Payments, as : {"receipt", "notice"}]

NamesAgree ==
    /\ \A p, q \in Players : nameOf[p] = nameOf[q] => p = q
    /\ \A p \in Players : nameOf[p].dot <=> p \in Bedrock

(* The browser may still turn the challenge into a sign-in.                 *)
Pending(c) == IsOpen(c) \/ poll[c] # NoName \/ challenge[c].state = "confirmed"

ChallengesAgree ==
    \A c \in Challenges :
        /\ challenge[c].state # "none" <=> challenge[c].owner \in Players
        /\ challenge[c].state \in {"confirmed", "completed"} =>
              challenge[c].seen /\ challenge[c].as = challenge[c].owner
        /\ poll[c] # NoName => challenge[c].seen /\ poll[c] = nameOf[challenge[c].owner]
        /\ challenge[c].seen =>
              challenge[c].state # "none" /\ \E x \in Made : payment[x].aim = c
        /\ challenge[c].seen /\ Pending(c) => challenge[c].name = nameOf[challenge[c].owner]

PaymentsAgree ==
    /\ \A x \in Made :
          payment[x].aim \in Challenges =>
              /\ challenge[payment[x].aim].state # "none"
              /\ challenge[payment[x].aim].owner = payment[x].by
    /\ \A i \in 1..Len(queue) : payment[queue[i].of].name = nameOf[payment[queue[i].of].by]

AccountsAgree ==
    /\ \A p \in Players : account[p].exists => account[p].name \in Names \cup {Placeholder(p)}
    /\ \A p \in Players : account[p].session => account[p].exists /\ account[p].name \in Names

IInv ==
    /\ TypeOK /\ queue \in Seq(Reports) /\ journal \subseteq Reports
    /\ NamesAgree /\ ChallengesAgree /\ PaymentsAgree /\ AccountsAgree /\ NamesAreTheirs

-----------------------------------------------------------------------------
(* What the tallies rest on                                                 *)

(* An account of a Bedrock player has the name he has always had.           *)
DotsAgree ==
    /\ \A p \in Players : account[p].exists /\ account[p].name \in Names =>
          /\ account[p].name.dot <=> p \in Bedrock
          /\ p \in Bedrock => account[p].name = nameOf[p]
    /\ \A x \in Made :
          /\ payment[x].uuid <=> payment[x].by \notin Bedrock
          /\ payment[x].by \in Bedrock => payment[x].name = nameOf[payment[x].by]
    /\ \A c \in Challenges : IsOpen(c) => challenge[c].name = nameOf[challenge[c].owner]

ReceiptOf(x) == [of |-> x, as |-> "receipt"]

(* A payment whose notice may still be matched was not credited.            *)
ReceiptsAgree ==
    /\ \A x \in Payments : receipt[x] # "none" <=> ReceiptOf(x) \in journal
    /\ \A x \in Payments : receipt[x] # "none" => x \in Made
    /\ \A x \in Made : payment[x].aim \in Challenges /\ IsOpen(payment[x].aim)
                          => receipt[x] \in {"none", "login_payment"}
    /\ \A i \in 1..Len(queue) : queue[i].as = "notice" => ReceiptOf(queue[i].of) \in journal
    /\ \A c \in Challenges : challenge[c].seen =>
          \E x \in Made : payment[x].aim = c /\ receipt[x] = "login_payment"

(* The payments of a player that were credited as they came in.             *)
CreditedFor(p, a) ==
    {x \in Payments : payment[x].by = p /\ payment[x].aim = a /\ receipt[x] = "credited"}

SignedIn(p, a) ==
    a \in Challenges /\ challenge[a].state = "completed" /\ challenge[a].as = p

CreditsAgree ==
    \A p \in Players, a \in Aims :
        credits[p][a] <= Cardinality(CreditedFor(p, a)) + (IF SignedIn(p, a) THEN 1 ELSE 0)

Tallied == DotsAgree /\ ReceiptsAgree /\ CreditsAgree

-----------------------------------------------------------------------------
(* The constants                                                            *)

ChallengeRows ==
    [state : {"none", "open", "deleted", "confirmed", "completed"},
     owner : Players \cup {Nobody}, name : Names \cup {NoName},
     seen : BOOLEAN, expired : BOOLEAN, as : Players \cup {Nobody}]
PaymentRows ==
    [by : Players \cup {Nobody}, name : Names \cup {NoName}, aim : Aims, uuid : BOOLEAN]
AccountRows ==
    [exists : BOOLEAN, session : BOOLEAN,
     name : Names \cup {NoName} \cup {Placeholder(p) : p \in Players}]

(* No name, names of players and placeholders are never taken for another.  *)
LEMMA NamesDiffer ==
    ASSUME ConstantsOK
    PROVE  /\ NoName \notin Names
           /\ \A p \in Players : Placeholder(p) \notin Names
           /\ \A p, q \in Players : Placeholder(p) = Placeholder(q) => p = q
<1>1. \A n \in Names : n.base \in Bases
  BY DEF Names
<1>2. NoName.base = "" /\ \A p \in Players : Placeholder(p).base = p
  BY DEF NoName, Placeholder
<1>3. "" \notin Bases /\ Bases \cap Players = {}
  BY DEF ConstantsOK
<1>4. QED
  BY <1>1, <1>2, <1>3

(* The rows of the tables have the fields their types say.                  *)
LEMMA RowTypes ==
    ASSUME IInv
    PROVE  /\ challenge \in [Challenges -> ChallengeRows] /\ payment \in [Payments -> PaymentRows]
           /\ account \in [Players -> AccountRows] /\ nameOf \in [Players -> Names]
           /\ poll \in [Challenges -> Names \cup {NoName}]
           /\ Made \subseteq Payments
  BY DEF IInv, TypeOK, ChallengeRows, PaymentRows, AccountRows, Made

(* Before the first payment.                                                *)
LEMMA InitIInv == ASSUME ConstantsOK, Init PROVE IInv
<1>1. Made = {}
  BY DEF Init, Made, NoPayment
<1>2. TypeOK
  <2>1. challenge \in [Challenges -> ChallengeRows]
    BY DEF Init, NoChallenge, ChallengeRows
  <2>2. payment \in [Payments -> PaymentRows]
    BY DEF Init, NoPayment, PaymentRows, Aims
  <2>3. account \in [Players -> AccountRows]
    BY DEF Init, AccountRows
  <2>4. nameOf \in [Players -> Names] /\ queue = <<>> /\ credits \in [Players -> [Aims -> Nat]]
        /\ receipt \in [Payments -> {"none", "login_payment", "credited", "unlinked"}]
        /\ poll \in [Challenges -> Names \cup {NoName}]
    BY DEF Init
  <2>5. QED
    BY <2>1, <2>2, <2>3, <2>4 DEF TypeOK, ChallengeRows, PaymentRows, AccountRows
<1>3. queue \in Seq(Reports) /\ journal \subseteq Reports
  BY DEF Init
<1>4. NamesAgree /\ ChallengesAgree /\ PaymentsAgree
  <2>1. NamesAgree
    BY DEF Init, NamesAgree
  <2>2. \A c \in Challenges : /\ challenge[c].state = "none" /\ ~challenge[c].seen
                              /\ challenge[c].owner = Nobody /\ poll[c] = NoName
    BY DEF Init, NoChallenge
  <2>3. ChallengesAgree
    BY <2>2 DEF ChallengesAgree, ConstantsOK
  <2>4. PaymentsAgree
    BY <1>1 DEF Init, PaymentsAgree
  <2>5. QED
    BY <2>1, <2>3, <2>4
<1>5. AccountsAgree /\ NamesAreTheirs
  <2>1. \A p \in Players : \/ /\ account[p].exists /\ account[p].name = nameOf[p]
                           \/ ~account[p].exists /\ ~account[p].session
    <3>1. PICK known \in SUBSET Players :
             account = [p \in Players |-> [exists |-> p \in known, session |-> p \in known,
                                           name |-> IF p \in known THEN nameOf[p] ELSE NoName]]
      BY DEF Init
    <3>2. \A p \in Players : /\ account[p].exists = (p \in known)
                             /\ account[p].session = (p \in known)
                             /\ p \in known => account[p].name = nameOf[p]
      BY <3>1, Zenon
    <3>3. QED
      BY <3>2
  <2>2. \A p \in Players : nameOf[p] \in Names
    BY DEF Init
  <2>3. QED
    BY <2>1, <2>2, NamesDiffer DEF Init, AccountsAgree, NamesAreTheirs
<1>6. QED
  BY <1>2, <1>3, <1>4, <1>5 DEF IInv

-----------------------------------------------------------------------------
(* Each step keeps the invariant                                            *)

(* A player starts a sign-in; expired ones are cleared away.                *)
LEMMA StartKeeps ==
    ASSUME ConstantsOK, IInv, NEW p \in Players, NEW c \in Challenges, NEW typed \in TypedBy(p),
           Start(p, c, typed)
    PROVE  IInv'
<1> USE RowTypes
<1>1. typed \in Names
  <2>1. nameOf[p] \in [base : Bases, dot : BOOLEAN]
    BY DEF Names
  <2>2. [nameOf[p] EXCEPT !.dot = ~@] \in [base : Bases, dot : BOOLEAN]
    BY <2>1
  <2>3. QED
    BY <2>1, <2>2 DEF TypedBy, Names
<1>2. /\ UNCHANGED <<nameOf, payment, queue, journal, receipt, account, credits, poll>>
      /\ Made' = Made
  BY DEF Start, Made
<1>3. challenge' \in [Challenges -> ChallengeRows]
  <2>1. [NoChallenge EXCEPT !.state = "open", !.owner = p, !.name = typed] \in ChallengeRows
    BY <1>1 DEF NoChallenge, ChallengeRows
  <2>2. \A d \in Challenges : [challenge[d] EXCEPT !.state = "deleted"] \in ChallengeRows
    BY DEF ChallengeRows
  <2>3. QED
    BY <2>1, <2>2 DEF Start
<1>4. \A d \in Challenges :
        \/ /\ d = c /\ challenge[d].state = "none" /\ challenge'[d].state = "open"
           /\ challenge'[d].owner = p /\ challenge'[d].seen = FALSE
        \/ /\ challenge[d].state = "open" /\ challenge[d].expired
           /\ challenge'[d] = [challenge[d] EXCEPT !.state = "deleted"]
        \/ challenge'[d] = challenge[d]
  BY DEF Start, NoChallenge, Cleared
<1>5. TypeOK'
  BY <1>2, <1>3 DEF IInv, TypeOK, ChallengeRows
<1>6. ChallengesAgree'
  <2> SUFFICES ASSUME NEW d \in Challenges
      PROVE  /\ challenge'[d].state # "none" <=> challenge'[d].owner \in Players
             /\ challenge'[d].state \in {"confirmed", "completed"} =>
                   challenge'[d].seen /\ challenge'[d].as = challenge'[d].owner
             /\ poll[d] # NoName => challenge'[d].seen /\ poll[d] = nameOf[challenge'[d].owner]
             /\ challenge'[d].seen =>
                   challenge'[d].state # "none" /\ \E x \in Made : payment[x].aim = d
             /\ challenge'[d].seen /\ Pending(d)' =>
                   challenge'[d].name = nameOf[challenge'[d].owner]
    BY <1>2 DEF ChallengesAgree
  <2>1. challenge[d] \in ChallengeRows /\ challenge'[d] \in ChallengeRows
    BY <1>3
  <2>2. CASE challenge'[d] = challenge[d]
    BY <1>2, <2>2 DEF IInv, ChallengesAgree, Pending, IsOpen
  <2>3. CASE /\ challenge[d].state = "none" /\ challenge'[d].state = "open"
             /\ challenge'[d].owner = p /\ challenge'[d].seen = FALSE
    BY <1>2, <2>3 DEF IInv, ChallengesAgree
  <2>4. CASE /\ challenge[d].state = "open" /\ challenge[d].expired
             /\ challenge'[d] = [challenge[d] EXCEPT !.state = "deleted"]
    <3>1. /\ challenge'[d].state = "deleted" /\ challenge'[d].owner = challenge[d].owner
          /\ challenge'[d].seen = challenge[d].seen /\ challenge'[d].name = challenge[d].name
      BY <2>1, <2>4 DEF ChallengeRows
    <3>2. Pending(d)' => Pending(d)
      BY <1>2, <3>1 DEF Pending, IsOpen
    <3>3. QED
      BY <1>2, <2>4, <3>1, <3>2 DEF IInv, ChallengesAgree
  <2>5. QED
    BY <1>4, <2>2, <2>3, <2>4
<1>7. PaymentsAgree'
  <2>1. \A d \in Challenges : challenge[d].state # "none" =>
            challenge'[d].state # "none" /\ challenge'[d].owner = challenge[d].owner
    BY <1>4 DEF ChallengeRows
  <2>2. QED
    BY <1>2, <2>1 DEF IInv, PaymentsAgree
<1>8. QED
  BY <1>2, <1>5, <1>6, <1>7 DEF IInv, NamesAgree, AccountsAgree, NamesAreTheirs

(* A player pays.                                                           *)
LEMMA PayKeeps ==
    ASSUME ConstantsOK, IInv, NEW p \in Players, NEW x \in Payments, NEW aim \in Aims,
           Pay(p, x, aim)
    PROVE  IInv'
<1> USE RowTypes
<1>1. PICK uuid \in BOOLEAN :
         payment' = [payment EXCEPT ![x] = [by |-> p, name |-> nameOf[p], aim |-> aim, uuid |-> uuid]]
  BY DEF Pay
<1>2. /\ payment[x].by = Nobody /\ payment' \in [Payments -> PaymentRows]
      /\ payment'[x].by = p /\ payment'[x].aim = aim /\ payment'[x].name = nameOf[p]
      /\ \A y \in Payments \ {x} : payment'[y] = payment[y]
      /\ aim \in Challenges => challenge[aim].owner = p
      /\ UNCHANGED <<nameOf, challenge, journal, receipt, account, credits, poll>>
      /\ p # Nobody
  BY <1>1 DEF Pay, PaymentRows, ConstantsOK
<1>3. x \notin Made /\ Made' = Made \cup {x}
  BY <1>2 DEF Made
<1>4. /\ queue' = Append(queue, ReceiptOf(x)) /\ ReceiptOf(x) \in Reports
      /\ queue \in Seq(Reports) /\ queue' \in Seq(Reports) /\ Len(queue') = Len(queue) + 1
      /\ Len(queue) \in Nat
      /\ \A i \in 1..Len(queue) : queue'[i] = queue[i]
      /\ queue'[Len(queue) + 1] = ReceiptOf(x)
  <2>1. queue' = Append(queue, ReceiptOf(x)) /\ ReceiptOf(x) \in Reports /\ queue \in Seq(Reports)
    BY DEF Pay, ReceiptOf, Reports, IInv
  <2>2. QED
    BY <2>1
<1>5. TypeOK'
  <2>1. \A i \in 1..Len(queue) : queue[i].of \in Made
    BY DEF IInv, TypeOK
  <2>2. ASSUME NEW i \in 1..Len(queue')
        PROVE  /\ queue'[i].of \in Made' /\ queue'[i].as \in {"receipt", "notice"}
               /\ \A j \in 1..Len(queue') : queue'[i].of = queue'[j].of => i = j
    <3>1. i \in 1..Len(queue) \/ i = Len(queue) + 1
      BY <1>4
    <3>2. \A j \in 1..Len(queue') : j \in 1..Len(queue) \/ j = Len(queue) + 1
      BY <1>4
    <3>3. QED
      BY <1>3, <1>4, <2>1, <3>1, <3>2 DEF IInv, TypeOK, ReceiptOf
  <2>3. QED
    BY <1>2, <2>2 DEF IInv, TypeOK, PaymentRows
<1>6. ChallengesAgree'
  <2>1. ASSUME NEW y \in Made PROVE y \in Made' /\ payment'[y].aim = payment[y].aim
    BY <1>2, <1>3
  <2>2. ASSUME NEW c \in Challenges, challenge[c].seen PROVE \E y \in Made' : payment'[y].aim = c
    BY <2>1, <2>2 DEF IInv, ChallengesAgree
  <2>3. \A c \in Challenges : Pending(c)' => Pending(c)
    BY <1>2 DEF Pending, IsOpen
  <2>4. QED
    BY <1>2, <2>2, <2>3 DEF IInv, ChallengesAgree
<1>7. PaymentsAgree'
  <2>1. aim \in Challenges => challenge[aim].state # "none"
    BY <1>2 DEF IInv, ChallengesAgree
  <2>2. \A y \in Made' : payment'[y].aim \in Challenges =>
            /\ challenge[payment'[y].aim].state # "none"
            /\ challenge[payment'[y].aim].owner = payment'[y].by
    BY <1>2, <1>3, <2>1 DEF IInv, PaymentsAgree
  <2>3. ASSUME NEW i \in 1..Len(queue')
        PROVE  payment'[queue'[i].of].name = nameOf[payment'[queue'[i].of].by]
    <3>1. CASE i \in 1..Len(queue)
      <4>1. queue[i].of \in Made
        BY <3>1 DEF IInv, TypeOK
      <4>2. QED
        BY <1>2, <1>3, <1>4, <3>1, <4>1 DEF IInv, PaymentsAgree
    <3>2. CASE i = Len(queue) + 1
      BY <1>2, <1>4, <3>2 DEF ReceiptOf
    <3>3. QED
      BY <1>4, <3>1, <3>2
  <2>4. QED
    BY <1>2, <2>2, <2>3 DEF PaymentsAgree
<1>8. QED
  BY <1>2, <1>4, <1>5, <1>6, <1>7 DEF IInv, NamesAgree, AccountsAgree, NamesAreTheirs

(* Without its first s reports a queue q is r, but for the first report of  *)
(* r, which may have become a notice.                                       *)
ShiftedBy(s, q, r) ==
    /\ Len(r) = Len(q) - s
    /\ \A i \in 1..Len(r) :
          /\ r[i].of = q[i + s].of
          /\ r[i].as = q[i + s].as \/ (i = 1 /\ s = 0 /\ q[1].as = "receipt")

QueueFollows(q, r) ==
    /\ q \in Seq(Reports) /\ r \in Seq(Reports)
    /\ \E s \in 0..Len(q) : ShiftedBy(s, q, r)

(* What the bot does with its queue.                                        *)
LEMMA QueueSteps ==
    ASSUME queue \in Seq(Reports), queue # <<>>
    PROVE  /\ QueueFollows(queue, queue) /\ QueueFollows(queue, Tail(queue))
           /\ QueueFollows(queue, NextReport) /\ QueueFollows(queue, <<>>)
           /\ Head(queue) \in Reports /\ Head(queue) = queue[1] /\ 1 \in 1..Len(queue)
<1>1. /\ Len(queue) \in Nat \ {0} /\ Head(queue) = queue[1] /\ Head(queue) \in Reports
      /\ Tail(queue) \in Seq(Reports) /\ Len(Tail(queue)) = Len(queue) - 1
      /\ \A i \in 1..(Len(queue) - 1) : Tail(queue)[i] = queue[i + 1]
  OBVIOUS
<1>2. QueueFollows(queue, queue)
  <2>1. \A i \in 1..Len(queue) : i + 0 = i
    BY <1>1
  <2>2. 0 \in 0..Len(queue) /\ ShiftedBy(0, queue, queue)
    BY <1>1, <2>1 DEF ShiftedBy
  <2>3. QED
    BY <2>2 DEF QueueFollows
<1>3. QueueFollows(queue, Tail(queue))
  <2>1. 1..Len(Tail(queue)) = 1..(Len(queue) - 1)
    BY <1>1
  <2>2. Len(Tail(queue)) = Len(queue) - 1 /\ 1 \in 0..Len(queue)
    BY <1>1
  <2>3. ASSUME NEW i \in 1..Len(Tail(queue)) PROVE Tail(queue)[i] = queue[i + 1]
    BY <1>1, <2>1
  <2>4. ShiftedBy(1, queue, Tail(queue))
    BY <2>2, <2>3 DEF ShiftedBy
  <2>5. QED
    BY <1>1, <2>2, <2>4 DEF QueueFollows
<1>4. QueueFollows(queue, <<>>)
  <2>1. Len(queue) \in 0..Len(queue) /\ <<>> \in Seq(Reports) /\ Len(<<>>) = 0
    BY <1>1
  <2>2. ShiftedBy(Len(queue), queue, <<>>)
    BY <1>1, <2>1 DEF ShiftedBy
  <2>3. QED
    BY <2>1, <2>2 DEF QueueFollows
<1>5. QueueFollows(queue, NextReport)
  <2>1. CASE Head(queue).as = "receipt" /\ payment[Head(queue).of].aim # Deposit
    <3> DEFINE e == [Head(queue) EXCEPT !.as = "notice"]
    <3>1. e \in Reports /\ e.of = queue[1].of
      BY <1>1 DEF Reports
    <3>2. NextReport = <<e>> \o Tail(queue)
      BY <2>1 DEF NextReport
    <3> HIDE DEF e
    <3>3. /\ NextReport \in Seq(Reports) /\ Len(NextReport) = Len(queue)
          /\ NextReport[1] = e
          /\ \A i \in 1..Len(queue) : i # 1 => NextReport[i] = queue[i]
      BY <1>1, <3>1, <3>2
    <3>4. ASSUME NEW i \in 1..Len(queue)
          PROVE  /\ NextReport[i].of = queue[i].of
                 /\ NextReport[i].as = queue[i].as \/ (i = 1 /\ queue[1].as = "receipt")
      <4>1. CASE i = 1
        BY <1>1, <2>1, <3>1, <3>3, <4>1
      <4>2. CASE i # 1
        <5>1. NextReport[i] = queue[i]
          BY <3>3, <4>2
        <5>2. QED
          BY <5>1
      <4>3. QED
        BY <4>1, <4>2
    <3>5. 0 \in 0..Len(queue) /\ ShiftedBy(0, queue, NextReport)
      BY <1>1, <3>3, <3>4 DEF ShiftedBy
    <3>6. QED
      BY <3>3, <3>5 DEF QueueFollows
  <2>2. CASE ~(Head(queue).as = "receipt" /\ payment[Head(queue).of].aim # Deposit)
    BY <1>3, <2>2 DEF NextReport
  <2>3. QED
    BY <2>1, <2>2
<1>6. QED
  BY <1>1, <1>2, <1>3, <1>4, <1>5

(* A report leaves the queue, or stays in it.                               *)
LEMMA QueueKeeps ==
    ASSUME IInv, QueueFollows(queue, queue'), UNCHANGED <<nameOf, payment>>
    PROVE  /\ queue' \in Seq(Reports)
           /\ \A i \in 1..Len(queue') :
                 /\ queue'[i].of \in Made' /\ queue'[i].as \in {"receipt", "notice"}
                 /\ \A j \in 1..Len(queue') : queue'[i].of = queue'[j].of => i = j
                 /\ payment'[queue'[i].of].name = nameOf'[payment'[queue'[i].of].by]
<1>1. PICK s \in 0..Len(queue) : /\ Len(queue') = Len(queue) - s
                                 /\ \A i \in 1..Len(queue') : queue'[i].of = queue[i + s].of
  BY DEF QueueFollows, ShiftedBy
<1>2. queue' \in Seq(Reports) /\ Made' = Made /\ Len(queue) \in Nat /\ Len(queue') \in Nat
  BY DEF QueueFollows, Made
<1>3. \A i \in 1..Len(queue') : i + s \in 1..Len(queue) /\ queue'[i] \in Reports
  BY <1>1, <1>2
<1>4. \A i, j \in 1..Len(queue) : queue[i].of = queue[j].of => i = j
  BY DEF IInv, TypeOK
<1>5. \A i \in 1..Len(queue) :
        queue[i].of \in Made /\ payment[queue[i].of].name = nameOf[payment[queue[i].of].by]
  BY DEF IInv, TypeOK, PaymentsAgree
<1>6. \A i, j \in 1..Len(queue') : queue'[i].of = queue'[j].of => i = j
  <2>1. SUFFICES ASSUME NEW i \in 1..Len(queue'), NEW j \in 1..Len(queue'),
                        queue'[i].of = queue'[j].of
                 PROVE  i = j
    OBVIOUS
  <2>2. queue[i + s].of = queue[j + s].of
    BY <1>1, <2>1
  <2>3. i + s \in 1..Len(queue) /\ j + s \in 1..Len(queue)
    BY <1>3
  <2>4. i + s = j + s
    BY <1>4, <2>2, <2>3
  <2>5. QED
    BY <1>1, <2>4
<1>7. QED
  BY <1>1, <1>2, <1>3, <1>5, <1>6 DEF Reports

(* Giving up a report, or a restart of the bot, which forgets them all.     *)
LEMMA ForgetKeeps ==
    ASSUME ConstantsOK, IInv, GiveUp \/ BotRestarts
    PROVE  IInv'
<1>1. /\ QueueFollows(queue, queue')
      /\ UNCHANGED <<nameOf, challenge, payment, journal, receipt, account, credits, poll>>
  BY QueueSteps DEF GiveUp, BotRestarts, IInv
<1>2. Made' = Made
  BY <1>1 DEF Made
<1>3. /\ queue' \in Seq(Reports)
      /\ \A i \in 1..Len(queue') :
            /\ queue'[i].of \in Made' /\ queue'[i].as \in {"receipt", "notice"}
            /\ \A j \in 1..Len(queue') : queue'[i].of = queue'[j].of => i = j
            /\ payment'[queue'[i].of].name = nameOf'[payment'[queue'[i].of].by]
  BY <1>1, QueueKeeps
<1>4. TypeOK'
  BY <1>1, <1>3 DEF IInv, TypeOK
<1>5. ChallengesAgree' /\ PaymentsAgree'
  BY <1>1, <1>2, <1>3 DEF IInv, ChallengesAgree, PaymentsAgree, Pending, IsOpen
<1>6. QED
  BY <1>1, <1>3, <1>4, <1>5 DEF IInv, NamesAgree, AccountsAgree, NamesAreTheirs

(* What a report does to the challenges: a notice marks the one it matches. *)
Noticed(x) ==
    /\ payment[x].aim \in Challenges /\ IsOpen(payment[x].aim)
    /\ challenge' = [challenge EXCEPT ![payment[x].aim].seen = TRUE,
                                      ![payment[x].aim].name = payment[x].name]

(* A report arrives, is processed if it is new, and may be sent again.      *)
LEMMA ReportDoes ==
    ASSUME ConstantsOK, IInv, NEW answered \in BOOLEAN, ReportArrives(answered)
    PROVE  LET x == Head(queue).of IN
           /\ x \in Made /\ payment[x].name = nameOf[payment[x].by]
           /\ UNCHANGED <<nameOf, payment, account, poll>>
           /\ QueueFollows(queue, queue') /\ Head(queue) \in Reports
           /\ journal' = journal \cup {Head(queue)}
           /\ \/ /\ Head(queue) \in journal \/ Head(queue).as = "notice"
                 /\ UNCHANGED <<challenge, receipt, credits>>
              \/ /\ Head(queue) \notin journal /\ Head(queue).as = "receipt" /\ ProcessReceipt(x)
              \/ Noticed(x) /\ Head(queue).as = "notice" /\ UNCHANGED <<receipt, credits>>
<1>1. queue \in Seq(Reports) /\ queue # <<>>
  BY DEF IInv, ReportArrives
<1>2. QueueFollows(queue, queue') /\ Head(queue) \in Reports
  BY <1>1, QueueSteps DEF ReportArrives
<1>3. Head(queue).of \in Made /\ payment[Head(queue).of].name = nameOf[payment[Head(queue).of].by]
  BY <1>1, QueueSteps DEF IInv, TypeOK, PaymentsAgree
<1>4. \/ /\ Head(queue) \in journal \/ Head(queue).as = "notice"
         /\ UNCHANGED <<challenge, receipt, credits>>
      \/ /\ Head(queue) \notin journal /\ Head(queue).as = "receipt"
         /\ ProcessReceipt(Head(queue).of)
      \/ /\ Noticed(Head(queue).of) /\ Head(queue).as = "notice"
         /\ UNCHANGED <<receipt, credits>>
  BY <1>2 DEF ReportArrives, ProcessNotice, Noticed, Reports
<1>5. QED
  BY <1>2, <1>3, <1>4 DEF ReportArrives

(* One more payment is seen, or one more credited.                          *)
LEMMA ReportKeeps ==
    ASSUME ConstantsOK, IInv, NEW answered \in BOOLEAN, ReportArrives(answered)
    PROVE  IInv'
<1> DEFINE x == Head(queue).of
<1> USE RowTypes
<1>1. /\ x \in Made /\ payment[x].name = nameOf[payment[x].by]
      /\ UNCHANGED <<nameOf, payment, account, poll>>
      /\ QueueFollows(queue, queue') /\ Head(queue) \in Reports
      /\ journal' = journal \cup {Head(queue)}
      /\ \/ UNCHANGED <<challenge, receipt, credits>>
         \/ ProcessReceipt(x)
         \/ Noticed(x) /\ UNCHANGED <<receipt, credits>>
  BY ReportDoes
<1> HIDE DEF x
<1>2. Made' = Made
  BY <1>1 DEF Made
<1>3. /\ queue' \in Seq(Reports)
      /\ \A i \in 1..Len(queue') :
            /\ queue'[i].of \in Made' /\ queue'[i].as \in {"receipt", "notice"}
            /\ \A j \in 1..Len(queue') : queue'[i].of = queue'[j].of => i = j
            /\ payment'[queue'[i].of].name = nameOf'[payment'[queue'[i].of].by]
  BY <1>1, QueueKeeps
<1>4. /\ receipt' \in [Payments -> {"none", "login_payment", "credited", "unlinked"}]
      /\ credits' \in [Players -> [Aims -> Nat]]
  <2>1. CASE UNCHANGED <<receipt, credits>>
    BY <2>1 DEF IInv, TypeOK
  <2>2. CASE ProcessReceipt(x)
    <3>1. receipt' \in [Payments -> {"none", "login_payment", "credited", "unlinked"}]
      BY <1>1, <2>2 DEF IInv, TypeOK, ProcessReceipt
    <3>2. \A p \in Players : [credits[p] EXCEPT ![payment[x].aim] = @ + 1] \in [Aims -> Nat]
      BY <1>1 DEF IInv, TypeOK, PaymentRows
    <3>3. \A p \in Players : credits[p] \in [Aims -> Nat]
      BY DEF IInv, TypeOK
    <3>4. QED
      BY <2>2, <3>1, <3>2, <3>3 DEF ProcessReceipt
  <2>3. QED
    BY <1>1, <2>1, <2>2
<1>5. CASE challenge' = challenge
  <2>1. TypeOK'
    BY <1>1, <1>2, <1>3, <1>4, <1>5 DEF IInv, TypeOK
  <2>2. ChallengesAgree' /\ PaymentsAgree'
    BY <1>1, <1>2, <1>3, <1>5 DEF IInv, ChallengesAgree, PaymentsAgree, Pending, IsOpen
  <2>3. QED
    BY <1>1, <1>3, <2>1, <2>2 DEF IInv, NamesAgree, AccountsAgree, NamesAreTheirs
<1>6. CASE Noticed(x)
  <2> DEFINE c == payment[x].aim
  <2>1. /\ c \in Challenges /\ IsOpen(c) /\ payment[x].by = challenge[c].owner
        /\ payment[x].name \in Names \cup {NoName}
        /\ challenge' = [challenge EXCEPT ![c].seen = TRUE, ![c].name = payment[x].name]
    BY <1>1, <1>6 DEF Noticed, IInv, PaymentsAgree, PaymentRows
  <2>2. /\ challenge' \in [Challenges -> ChallengeRows]
        /\ \A d \in Challenges \ {c} : challenge'[d] = challenge[d]
        /\ challenge'[c].state = challenge[c].state /\ challenge'[c].owner = challenge[c].owner
        /\ challenge'[c].seen /\ challenge'[c].name = payment[x].name
        /\ challenge'[c].as = challenge[c].as /\ challenge'[c].expired = challenge[c].expired
    <3> DEFINE r == [challenge[c] EXCEPT !.seen = TRUE, !.name = payment[x].name]
    <3>1. /\ r \in ChallengeRows /\ r.state = challenge[c].state /\ r.owner = challenge[c].owner
          /\ r.seen /\ r.name = payment[x].name /\ r.as = challenge[c].as
          /\ r.expired = challenge[c].expired
      BY <2>1 DEF ChallengeRows
    <3>2. challenge' = [challenge EXCEPT ![c] = r]
      BY <2>1
    <3> HIDE DEF r, c
    <3>3. QED
      BY <2>1, <3>1, <3>2
  <2>3. c = payment[x].aim
    OBVIOUS
  <2> HIDE DEF c
  <2>4. TypeOK'
    BY <1>1, <1>2, <1>3, <1>4, <2>2 DEF IInv, TypeOK, ChallengeRows
  <2>5. \A d \in Challenges : challenge'[d].state = challenge[d].state /\ challenge'[d].owner = challenge[d].owner
    BY <2>2
  <2>6. PaymentsAgree'
    BY <1>1, <1>2, <1>3, <2>5 DEF IInv, PaymentsAgree
  <2>7. challenge'[c].name = nameOf[challenge'[c].owner]
    BY <1>1, <2>1, <2>2
  <2>8. \A d \in Challenges \ {c} : Pending(d)' = Pending(d)
    BY <1>1, <2>2 DEF Pending, IsOpen
  <2>9. ChallengesAgree'
    <3> SUFFICES ASSUME NEW d \in Challenges
        PROVE  /\ challenge'[d].state # "none" <=> challenge'[d].owner \in Players
               /\ challenge'[d].state \in {"confirmed", "completed"} =>
                     challenge'[d].seen /\ challenge'[d].as = challenge'[d].owner
               /\ poll[d] # NoName => challenge'[d].seen /\ poll[d] = nameOf[challenge'[d].owner]
               /\ challenge'[d].seen =>
                     challenge'[d].state # "none" /\ \E y \in Made : payment[y].aim = d
               /\ challenge'[d].seen /\ Pending(d)' =>
                     challenge'[d].name = nameOf[challenge'[d].owner]
      BY <1>1, <1>2 DEF ChallengesAgree
    <3>1. CASE d # c
      BY <2>2, <2>8, <3>1 DEF IInv, ChallengesAgree
    <3>2. CASE d = c
      <4>1. challenge[d].state = "open"
        BY <2>1, <3>2 DEF IsOpen
      <4>2. \E y \in Made : payment[y].aim = d
        BY <1>1, <2>3, <3>2
      <4>3. poll[d] # NoName => poll[d] = nameOf[challenge[d].owner]
        BY DEF IInv, ChallengesAgree
      <4>4. challenge[d].owner \in Players
        BY <4>1 DEF IInv, ChallengesAgree
      <4>5. QED
        BY <2>2, <2>7, <3>2, <4>1, <4>2, <4>3, <4>4
    <3>3. QED
      BY <3>1, <3>2
  <2>10. QED
    BY <1>1, <1>3, <2>4, <2>6, <2>9 DEF IInv, NamesAgree, AccountsAgree, NamesAreTheirs
<1>7. QED
  BY <1>1, <1>5, <1>6 DEF ProcessReceipt

(* The browser asks how its sign-in stands.                                 *)
LEMMA StatusAsksKeeps ==
    ASSUME ConstantsOK, IInv, NEW c \in Challenges, StatusAsks(c)
    PROVE  IInv'
<1> USE RowTypes
<1>1. /\ UNCHANGED <<nameOf, challenge, payment, queue, journal, receipt, account, credits>>
      /\ Made' = Made /\ IsOpen(c) /\ challenge[c].seen
      /\ poll' = [poll EXCEPT ![c] = challenge[c].name]
      /\ challenge[c].name = nameOf[challenge[c].owner]
  BY DEF StatusAsks, Made, IInv, ChallengesAgree, Pending
<1>2. poll' \in [Challenges -> Names \cup {NoName}]
  BY <1>1 DEF ChallengeRows
<1>3. TypeOK'
  BY <1>1, <1>2 DEF IInv, TypeOK
<1>4. \A d \in Challenges : Pending(d)' => Pending(d)
  BY <1>1 DEF Pending, IsOpen
<1>5. ChallengesAgree'
  BY <1>1, <1>4 DEF IInv, ChallengesAgree
<1>6. PaymentsAgree'
  BY <1>1 DEF IInv, PaymentsAgree
<1>7. QED
  BY <1>1, <1>3, <1>5, <1>6 DEF IInv, NamesAgree, AccountsAgree, NamesAreTheirs

(* Mojang answers; only the owner has the name that was asked for.          *)
LEMMA StatusConfirmsDoes ==
    ASSUME ConstantsOK, IInv, NEW c \in Challenges, StatusConfirms(c)
    PROVE  /\ UNCHANGED <<nameOf, payment, queue, journal, receipt, account, credits>>
           /\ poll' = [poll EXCEPT ![c] = NoName] /\ poll[c] # NoName
           /\ \/ UNCHANGED challenge
              \/ /\ challenge[c].state = "open"
                 /\ challenge' = [challenge EXCEPT ![c] =
                       [challenge[c] EXCEPT !.state = "confirmed", !.as = challenge[c].owner,
                                            !.name = poll[c]]]
<1>1. /\ UNCHANGED <<nameOf, payment, queue, journal, receipt, account, credits>>
      /\ poll' = [poll EXCEPT ![c] = NoName] /\ poll[c] # NoName
  BY DEF StatusConfirms
<1>2. /\ challenge[c].owner \in Players /\ poll[c] = nameOf[challenge[c].owner]
      /\ challenge[c] \in ChallengeRows
  BY <1>1, RowTypes DEF IInv, ChallengesAgree
<1>3. ASSUME NEW p \in Resolved(poll[c]), MayConfirm(c),
             challenge' = [challenge EXCEPT ![c].state = "confirmed", ![c].as = p,
                                            ![c].name = poll[c]]
      PROVE  /\ challenge[c].state = "open"
             /\ challenge' = [challenge EXCEPT ![c] =
                   [challenge[c] EXCEPT !.state = "confirmed", !.as = challenge[c].owner,
                                        !.name = poll[c]]]
  <2>1. p = challenge[c].owner
    BY <1>2, <1>3 DEF Resolved, IInv, NamesAgree
  <2>2. challenge[c].state = "open"
    BY <1>3 DEF MayConfirm
  <2>3. QED
    BY <1>3, <2>1, <2>2, RowTypes
<1>4. QED
  BY <1>1, <1>3 DEF StatusConfirms

(* A sign-in is confirmed for its owner, under the name he has.             *)
LEMMA StatusConfirmsKeeps ==
    ASSUME ConstantsOK, IInv, NEW c \in Challenges, StatusConfirms(c)
    PROVE  IInv'
<1> USE RowTypes
<1> DEFINE r == [challenge[c] EXCEPT !.state = "confirmed", !.as = challenge[c].owner,
                                     !.name = poll[c]]
<1>1. /\ UNCHANGED <<nameOf, payment, queue, journal, receipt, account, credits>>
      /\ poll' = [poll EXCEPT ![c] = NoName] /\ poll[c] # NoName
      /\ challenge' = challenge
         \/ (challenge[c].state = "open" /\ challenge' = [challenge EXCEPT ![c] = r])
  BY StatusConfirmsDoes
<1>2. Made' = Made
  BY <1>1 DEF Made
<1>3. /\ challenge[c].seen /\ poll[c] = nameOf[challenge[c].owner]
      /\ challenge[c].owner \in Players
  BY <1>1 DEF IInv, ChallengesAgree
<1>4. /\ r \in ChallengeRows /\ r.state = "confirmed" /\ r.as = challenge[c].owner
      /\ r.owner = challenge[c].owner /\ r.name = nameOf[challenge[c].owner] /\ r.seen
      /\ r.expired = challenge[c].expired
  BY <1>3 DEF ChallengeRows
<1> HIDE DEF r
<1>5. /\ poll' \in [Challenges -> Names \cup {NoName}]
      /\ \A d \in Challenges : poll'[d] # NoName => poll'[d] = poll[d]
  BY <1>1
<1>6. CASE challenge' = challenge
  <2>1. TypeOK'
    BY <1>1, <1>2, <1>5, <1>6 DEF IInv, TypeOK
  <2>2. \A d \in Challenges : Pending(d)' => Pending(d)
    BY <1>1, <1>5, <1>6 DEF Pending, IsOpen
  <2>3. ChallengesAgree' /\ PaymentsAgree'
    BY <1>1, <1>2, <1>5, <1>6, <2>2 DEF IInv, ChallengesAgree, PaymentsAgree
  <2>4. QED
    BY <1>1, <2>1, <2>3 DEF IInv, NamesAgree, AccountsAgree, NamesAreTheirs
<1>7. CASE challenge[c].state = "open" /\ challenge' = [challenge EXCEPT ![c] = r]
  <2>1. /\ challenge' \in [Challenges -> ChallengeRows] /\ challenge'[c] = r
        /\ \A d \in Challenges \ {c} : challenge'[d] = challenge[d]
    BY <1>4, <1>7
  <2>2. TypeOK'
    BY <1>1, <1>2, <1>5, <2>1 DEF IInv, TypeOK, ChallengeRows
  <2>3. PaymentsAgree'
    BY <1>1, <1>2, <1>4, <1>7, <2>1 DEF IInv, PaymentsAgree
  <2>4. \A d \in Challenges \ {c} : Pending(d)' => Pending(d)
    BY <1>1, <1>5, <2>1 DEF Pending, IsOpen
  <2>5. ChallengesAgree'
    <3> SUFFICES ASSUME NEW d \in Challenges
        PROVE  /\ challenge'[d].state # "none" <=> challenge'[d].owner \in Players
               /\ challenge'[d].state \in {"confirmed", "completed"} =>
                     challenge'[d].seen /\ challenge'[d].as = challenge'[d].owner
               /\ poll'[d] # NoName => challenge'[d].seen /\ poll'[d] = nameOf[challenge'[d].owner]
               /\ challenge'[d].seen =>
                     challenge'[d].state # "none" /\ \E y \in Made : payment[y].aim = d
               /\ challenge'[d].seen /\ Pending(d)' =>
                     challenge'[d].name = nameOf[challenge'[d].owner]
      BY <1>1, <1>2 DEF ChallengesAgree
    <3>1. CASE d # c
      BY <1>5, <2>1, <2>4, <3>1 DEF IInv, ChallengesAgree
    <3>2. CASE d = c
      BY <1>3, <1>4, <1>5, <2>1, <3>2 DEF IInv, ChallengesAgree
    <3>3. QED
      BY <3>1, <3>2
  <2>6. QED
    BY <1>1, <2>2, <2>3, <2>5 DEF IInv, NamesAgree, AccountsAgree, NamesAreTheirs
<1>8. QED
  BY <1>1, <1>6, <1>7

(* A challenge expires.                                                     *)
LEMMA ExpireKeeps ==
    ASSUME ConstantsOK, IInv, NEW c \in Challenges, Expire(c)
    PROVE  IInv'
<1> USE RowTypes
<1> DEFINE r == [challenge[c] EXCEPT !.expired = TRUE]
<1>1. /\ UNCHANGED <<nameOf, payment, queue, journal, receipt, account, credits, poll>>
      /\ challenge' = [challenge EXCEPT ![c] = r] /\ Made' = Made
  BY DEF Expire, Made
<1>2. /\ r \in ChallengeRows /\ r.state = challenge[c].state /\ r.as = challenge[c].as
      /\ r.owner = challenge[c].owner /\ r.name = challenge[c].name
      /\ r.seen = challenge[c].seen /\ r.expired
  BY DEF ChallengeRows
<1> HIDE DEF r
<1>3. /\ challenge' \in [Challenges -> ChallengeRows] /\ challenge'[c] = r
      /\ \A d \in Challenges \ {c} : challenge'[d] = challenge[d]
  BY <1>1, <1>2
<1>4. \A d \in Challenges :
        /\ challenge'[d].state = challenge[d].state /\ challenge'[d].as = challenge[d].as
        /\ challenge'[d].owner = challenge[d].owner /\ challenge'[d].name = challenge[d].name
        /\ challenge'[d].seen = challenge[d].seen
        /\ challenge'[d].expired = challenge[d].expired \/ challenge'[d].expired
  BY <1>2, <1>3
<1>5. TypeOK'
  BY <1>1, <1>3 DEF IInv, TypeOK, ChallengeRows
<1>6. \A d \in Challenges : Pending(d)' => Pending(d)
  BY <1>1, <1>4 DEF Pending, IsOpen
<1>7. ChallengesAgree' /\ PaymentsAgree'
  BY <1>1, <1>4, <1>6 DEF IInv, ChallengesAgree, PaymentsAgree
<1>8. QED
  BY <1>1, <1>5, <1>7 DEF IInv, NamesAgree, AccountsAgree, NamesAreTheirs

(* A player takes another name while nothing of his is under way.           *)
LEMMA RenameKeeps ==
    ASSUME ConstantsOK, IInv, NEW p \in Players, NEW name \in Names, Rename(p, name)
    PROVE  IInv'
<1> USE RowTypes
<1>1. /\ UNCHANGED <<challenge, payment, queue, journal, receipt, account, credits, poll>>
      /\ Made' = Made /\ queue = <<>> /\ nameOf' = [nameOf EXCEPT ![p] = name]
      /\ p \notin Bedrock /\ ~name.dot /\ \A q \in Players : nameOf[q] # name
      /\ \A c \in Challenges : poll[c] = NoName /\ ~Pending(c)
  BY DEF Rename, Made, Pending
<1>2. nameOf' \in [Players -> Names]
  BY <1>1
<1>3. TypeOK'
  BY <1>1, <1>2 DEF IInv, TypeOK
<1>4. NamesAgree'
  BY <1>1 DEF IInv, NamesAgree
<1>5. \A c \in Challenges : ~Pending(c)'
  BY <1>1 DEF Pending, IsOpen
<1>6. ChallengesAgree'
  BY <1>1, <1>5 DEF IInv, ChallengesAgree
<1>7. PaymentsAgree'
  BY <1>1 DEF IInv, PaymentsAgree
<1>8. QED
  BY <1>1, <1>3, <1>4, <1>6, <1>7 DEF IInv, AccountsAgree, NamesAreTheirs

(* What completing a sign-in does: to its own account, to the one that had  *)
(* its name, and to everything that can be redeemed with it.                *)
LEMMA CompleteDoes ==
    ASSUME ConstantsOK, IInv, NEW c \in Challenges, Complete(c)
    PROVE  LET p == challenge[c].as  name == challenge[c].name IN
           /\ UNCHANGED <<nameOf, payment, queue, journal, receipt, poll>>
           /\ challenge[c].state = "confirmed" /\ p = challenge[c].owner /\ p \in Players
           /\ name = nameOf[p] /\ name \in Names
           /\ account'[p] = [exists |-> TRUE, session |-> TRUE, name |-> name]
           /\ \A q \in Players \ {p} :
                 account'[q] = IF account[q].exists /\ account[q].name = name
                               THEN [account[q] EXCEPT !.name = Placeholder(q), !.session = FALSE]
                               ELSE account[q]
           /\ account' \in [Players -> AccountRows]
           /\ credits' = [credits EXCEPT ![p] = [a \in Aims |->
                            IF a \in Redeemable(p) THEN @[a] + 1 ELSE @[a]]]
           /\ challenge' \in [Challenges -> ChallengeRows]
           /\ \A d \in Challenges :
                 challenge'[d] = IF d \in Redeemable(p)
                                 THEN [challenge[d] EXCEPT !.state = "completed"] ELSE challenge[d]
<1> USE RowTypes
<1> DEFINE p == challenge[c].as
           name == challenge[c].name
<1>1. /\ UNCHANGED <<nameOf, payment, queue, journal, receipt, poll>>
      /\ challenge[c].state = "confirmed"
  BY DEF Complete
<1>2. /\ challenge[c].seen /\ p = challenge[c].owner /\ p \in Players
      /\ name = nameOf[p] /\ name \in Names
  BY <1>1 DEF IInv, ChallengesAgree, Pending
<1>3. account' = [q \in Players |->
                    IF q = p THEN [exists |-> TRUE, session |-> TRUE, name |-> name]
                    ELSE IF q \in Displaced(p, name)
                    THEN [account[q] EXCEPT !.name = Placeholder(q), !.session = FALSE]
                    ELSE account[q]]
  BY DEF Complete
<1>4. /\ credits' = [credits EXCEPT ![p] = [a \in Aims |->
                       IF a \in Redeemable(p) THEN @[a] + 1 ELSE @[a]]]
      /\ challenge' = [d \in Challenges |->
                         IF d \in Redeemable(p) THEN [challenge[d] EXCEPT !.state = "completed"]
                         ELSE challenge[d]]
  BY DEF Complete
<1> HIDE DEF p, name
<1>5. /\ account'[p] = [exists |-> TRUE, session |-> TRUE, name |-> name]
      /\ \A q \in Players \ {p} :
            account'[q] = IF account[q].exists /\ account[q].name = name
                          THEN [account[q] EXCEPT !.name = Placeholder(q), !.session = FALSE]
                          ELSE account[q]
  BY <1>2, <1>3 DEF Displaced
<1>6. account' \in [Players -> AccountRows]
  <2>1. [exists |-> TRUE, session |-> TRUE, name |-> name] \in AccountRows
    BY <1>2 DEF AccountRows
  <2>2. \A q \in Players :
          [account[q] EXCEPT !.name = Placeholder(q), !.session = FALSE] \in AccountRows
    BY DEF AccountRows
  <2>3. QED
    BY <1>3, <2>1, <2>2
<1>7. challenge' \in [Challenges -> ChallengeRows]
  <2>1. \A d \in Challenges : [challenge[d] EXCEPT !.state = "completed"] \in ChallengeRows
    BY DEF ChallengeRows
  <2>2. QED
    BY <1>4, <2>1
<1>8. \A d \in Challenges :
        challenge'[d] = IF d \in Redeemable(p)
                        THEN [challenge[d] EXCEPT !.state = "completed"] ELSE challenge[d]
  BY <1>4
<1>9. QED
  BY <1>1, <1>2, <1>4, <1>5, <1>6, <1>7, <1>8 DEF p, name

(* A sign-in is completed, and whoever had the name before loses it.        *)
LEMMA CompleteKeeps ==
    ASSUME ConstantsOK, IInv, NEW c \in Challenges, Complete(c)
    PROVE  IInv'
<1> USE RowTypes
<1> DEFINE p == challenge[c].as
           name == challenge[c].name
<1>1. /\ UNCHANGED <<nameOf, payment, queue, journal, receipt, poll>>
      /\ challenge[c].state = "confirmed" /\ p = challenge[c].owner /\ p \in Players
      /\ name = nameOf[p] /\ name \in Names
      /\ account'[p] = [exists |-> TRUE, session |-> TRUE, name |-> name]
      /\ \A q \in Players \ {p} :
            account'[q] = IF account[q].exists /\ account[q].name = name
                          THEN [account[q] EXCEPT !.name = Placeholder(q), !.session = FALSE]
                          ELSE account[q]
      /\ account' \in [Players -> AccountRows]
      /\ credits' = [credits EXCEPT ![p] = [a \in Aims |->
                       IF a \in Redeemable(p) THEN @[a] + 1 ELSE @[a]]]
      /\ challenge' \in [Challenges -> ChallengeRows]
      /\ \A d \in Challenges :
            challenge'[d] = IF d \in Redeemable(p)
                            THEN [challenge[d] EXCEPT !.state = "completed"] ELSE challenge[d]
  BY CompleteDoes
<1>2. Made' = Made
  BY <1>1 DEF Made
<1> HIDE DEF p, name
<1>3. \A d \in Challenges :
        \/ challenge'[d] = challenge[d]
        \/ /\ challenge[d].state = "confirmed" /\ challenge'[d].state = "completed"
           /\ challenge'[d].owner = challenge[d].owner /\ challenge'[d].as = challenge[d].as
           /\ challenge'[d].name = challenge[d].name /\ challenge'[d].seen = challenge[d].seen
  BY <1>1 DEF Redeemable, ChallengeRows
<1>4. TypeOK'
  <2>1. credits' \in [Players -> [Aims -> Nat]]
    <3> DEFINE row == [a \in Aims |-> IF a \in Redeemable(p) THEN credits[p][a] + 1
                                      ELSE credits[p][a]]
    <3>1. credits \in [Players -> [Aims -> Nat]]
      BY DEF IInv, TypeOK
    <3>2. credits' = [credits EXCEPT ![p] = row]
      BY <1>1
    <3>3. row \in [Aims -> Nat]
      <4>1. credits[p] \in [Aims -> Nat]
        BY <1>1, <3>1
      <4>2. QED
        BY <4>1
    <3> HIDE DEF row
    <3>4. QED
      BY <3>1, <3>2, <3>3
  <2>2. QED
    BY <1>1, <1>2, <2>1 DEF IInv, TypeOK, ChallengeRows, AccountRows
<1>5. PaymentsAgree'
  <2>1. \A d \in Challenges : challenge[d].state # "none" =>
            challenge'[d].state # "none" /\ challenge'[d].owner = challenge[d].owner
    BY <1>3
  <2>2. QED
    BY <1>1, <1>2, <2>1 DEF IInv, PaymentsAgree
<1>6. \A d \in Challenges : Pending(d)' => Pending(d)
  BY <1>1, <1>3 DEF Pending, IsOpen
<1>7. ChallengesAgree'
  <2> SUFFICES ASSUME NEW d \in Challenges
      PROVE  /\ challenge'[d].state # "none" <=> challenge'[d].owner \in Players
             /\ challenge'[d].state \in {"confirmed", "completed"} =>
                   challenge'[d].seen /\ challenge'[d].as = challenge'[d].owner
             /\ poll[d] # NoName => challenge'[d].seen /\ poll[d] = nameOf[challenge'[d].owner]
             /\ challenge'[d].seen =>
                   challenge'[d].state # "none" /\ \E y \in Made : payment[y].aim = d
             /\ challenge'[d].seen /\ Pending(d)' =>
                   challenge'[d].name = nameOf[challenge'[d].owner]
    BY <1>1, <1>2 DEF ChallengesAgree
  <2>1. CASE challenge'[d] = challenge[d]
    BY <1>6, <2>1 DEF IInv, ChallengesAgree
  <2>2. CASE challenge'[d] # challenge[d]
    BY <1>3, <1>6, <2>2 DEF IInv, ChallengesAgree
  <2>3. QED
    BY <2>1, <2>2
<1>8. /\ account'[p].exists /\ account'[p].session /\ account'[p].name = name
      /\ \A q \in Players \ {p} :
            \/ account'[q] = account[q] /\ (account[q].exists => account[q].name # name)
            \/ /\ account'[q].name = Placeholder(q) /\ ~account'[q].session
               /\ account[q].exists /\ account[q].name = name
  <2>1. account'[p].exists /\ account'[p].session /\ account'[p].name = name
    <3>1. account'[p] = [exists |-> TRUE, session |-> TRUE, name |-> name]
      BY <1>1
    <3>2. account'[p].exists = TRUE /\ account'[p].session = TRUE /\ account'[p].name = name
      BY <3>1
    <3>3. QED
      BY <3>2
  <2>2. ASSUME NEW q \in Players \ {p}
        PROVE  \/ account'[q] = account[q] /\ (account[q].exists => account[q].name # name)
               \/ /\ account'[q].name = Placeholder(q) /\ ~account'[q].session
                  /\ account[q].exists /\ account[q].name = name
    <3>1. account[q] \in AccountRows
      OBVIOUS
    <3>2. CASE account[q].exists /\ account[q].name = name
      <4>1. account'[q] = [account[q] EXCEPT !.name = Placeholder(q), !.session = FALSE]
        BY <1>1, <3>2
      <4>2. account'[q].name = Placeholder(q) /\ ~account'[q].session
        BY <3>1, <4>1 DEF AccountRows
      <4>3. QED
        BY <3>2, <4>2
    <3>3. CASE ~(account[q].exists /\ account[q].name = name)
      BY <1>1, <3>3
    <3>4. QED
      BY <3>2, <3>3
  <2>3. QED
    BY <2>1, <2>2
<1>9. AccountsAgree' /\ NamesAreTheirs'
  <2>1. \A q \in Players : account[q].exists => account[q].name \in Names \cup {Placeholder(q)}
    BY DEF IInv, AccountsAgree
  <2>2. AccountsAgree'
    <3> SUFFICES ASSUME NEW q \in Players
        PROVE  /\ account'[q].exists => account'[q].name \in Names \cup {Placeholder(q)}
               /\ account'[q].session => account'[q].exists /\ account'[q].name \in Names
      BY DEF AccountsAgree
    <3>1. CASE q = p
      BY <1>1, <1>8, <3>1
    <3>2. CASE q # p
      BY <1>8, <2>1, <3>2 DEF IInv, AccountsAgree
    <3>3. QED
      BY <3>1, <3>2
  <2>3. ASSUME NEW q \in Players, NEW s \in Players,
               account'[q].exists, account'[s].exists, q # s
        PROVE  account'[q].name # account'[s].name
    <3>1. CASE q = p
      <4>1. s \in Players \ {p} /\ account'[q].name = name
        BY <1>8, <2>3, <3>1
      <4>2. CASE account'[s] = account[s] /\ (account[s].exists => account[s].name # name)
        BY <2>3, <4>1, <4>2
      <4>3. CASE account'[s].name = Placeholder(s)
        <5>1. name \in Names /\ Placeholder(s) \notin Names
          BY <1>1, NamesDiffer
        <5>2. QED
          BY <4>1, <4>3, <5>1
      <4>4. QED
        BY <1>8, <4>1, <4>2, <4>3
    <3>2. CASE s = p
      <4>1. q \in Players \ {p} /\ account'[s].name = name
        BY <1>8, <2>3, <3>2
      <4>2. CASE account'[q] = account[q] /\ (account[q].exists => account[q].name # name)
        BY <2>3, <4>1, <4>2
      <4>3. CASE account'[q].name = Placeholder(q)
        <5>1. name \in Names /\ Placeholder(q) \notin Names
          BY <1>1, NamesDiffer
        <5>2. QED
          BY <4>1, <4>3, <5>1
      <4>4. QED
        BY <1>8, <4>1, <4>2, <4>3
    <3>3. CASE q # p /\ s # p
      <4>1. account[q].exists /\ account[s].exists
        BY <1>8, <2>3, <3>3
      <4>2. account[q].name # account[s].name
        BY <2>3, <4>1 DEF IInv, NamesAreTheirs
      <4>3. QED
        BY <1>8, <2>1, <2>3, <3>3, <4>1, <4>2, NamesDiffer
    <3>4. QED
      BY <3>1, <3>2, <3>3
  <2>4. \A q \in Players : account'[q].session => account'[q].name # Placeholder(q)
    BY <2>2, NamesDiffer DEF AccountsAgree
  <2>5. QED
    BY <2>2, <2>3, <2>4 DEF NamesAreTheirs
<1>10. QED
  BY <1>1, <1>4, <1>5, <1>7, <1>9 DEF IInv, NamesAgree

(* Every step keeps the invariant.                                          *)
LEMMA NextKeepsIInv == ASSUME ConstantsOK, IInv, [Next]_vars PROVE IInv'
<1>1. CASE PlayerNext
  BY <1>1, StartKeeps, PayKeeps, RenameKeeps DEF PlayerNext
<1>2. CASE BotNext
  BY <1>2, ForgetKeeps, ReportKeeps DEF BotNext
<1>3. CASE \E c \in Challenges : BrowserNext(c) \/ Expire(c)
  BY <1>3, StatusAsksKeeps, StatusConfirmsKeeps, CompleteKeeps, ExpireKeeps DEF BrowserNext
<1>4. CASE UNCHANGED vars
  BY <1>4 DEF vars, IInv, TypeOK, NamesAgree, ChallengesAgree, PaymentsAgree, AccountsAgree,
              NamesAreTheirs, Made, Pending, IsOpen
<1>5. QED
  BY <1>1, <1>2, <1>3, <1>4 DEF Next

-----------------------------------------------------------------------------
(* Results for every house                                                  *)

(* Challenges, payments and accounts agree in every reachable state.        *)
THEOREM Inductive == ASSUME ConstantsOK PROVE Spec => []IInv
<1>1. Init => IInv
  BY InitIInv
<1>2. IInv /\ [Next]_vars => IInv'
  BY NextKeepsIInv
<1>3. QED
  BY <1>1, <1>2, PTL DEF Spec

(* Type correctness.                                                        *)
THEOREM TypeCorrect == ASSUME ConstantsOK PROVE Spec => []TypeOK
<1>1. IInv => TypeOK
  BY DEF IInv
<1>2. QED
  BY <1>1, Inductive, PTL

(* A sign-in is confirmed only for a player who has paid its amount, and    *)
(* nobody is signed in under a name another account has signed in with      *)
(* since: whatever players type, rename themselves to and pay, and whatever *)
(* the bot forgets or repeats.                                              *)
THEOREM SignInIsThePayers == ASSUME ConstantsOK PROVE Spec => []SignInsAreTheirs
<1>1. ASSUME IInv PROVE ConfirmedHasPaid
  <2> SUFFICES ASSUME NEW c \in Challenges, challenge[c].state \in {"confirmed", "completed"}
               PROVE  \E x \in Made : payment[x].aim = c /\ payment[x].by = challenge[c].as
    BY DEF ConfirmedHasPaid
  <2>1. /\ challenge[c].as = challenge[c].owner
        /\ \E x \in Made : payment[x].aim = c
    BY <1>1 DEF IInv, ChallengesAgree
  <2>2. QED
    BY <1>1, <2>1 DEF IInv, PaymentsAgree
<1>2. IInv => SignInsAreTheirs
  BY <1>1 DEF IInv, SignInsAreTheirs
<1>3. QED
  BY <1>2, Inductive, PTL

(* A confirmed sign-in is never cleared away: it stays, or is credited.     *)
THEOREM ConfirmedIsNotLost == ASSUME ConstantsOK PROVE Spec => [][ConfirmedIsKept]_vars
<1>1. ASSUME ConstantsOK, IInv, [Next]_vars PROVE [ConfirmedIsKept]_vars
  <2> USE RowTypes, <1>1
  <2> SUFFICES ASSUME Next, NEW c \in Challenges, challenge[c].state = "confirmed",
                      challenge[c]' # challenge[c]
               PROVE  \/ challenge[c]'.state = "confirmed"
                      \/ /\ challenge[c]'.state = "completed"
                         /\ credits'[challenge[c].as][c] = credits[challenge[c].as][c] + 1
    BY DEF ConfirmedIsKept
  <2>1. ASSUME NEW p \in Players, NEW d \in Challenges, NEW typed \in TypedBy(p),
               Start(p, d, typed)
        PROVE  challenge'[c] = challenge[c]
    BY <2>1 DEF Start, Cleared
  <2>2. ASSUME NEW answered \in BOOLEAN, ReportArrives(answered) PROVE challenge'[c] = challenge[c]
    <3>1. challenge' = challenge \/ Noticed(Head(queue).of)
      BY <2>2, ReportDoes DEF ProcessReceipt
    <3>2. ~IsOpen(c)
      BY DEF IsOpen
    <3>3. QED
      BY <3>1, <3>2 DEF Noticed
  <2>3. ASSUME NEW d \in Challenges, StatusConfirms(d) PROVE challenge'[c] = challenge[c]
    BY <2>3, StatusConfirmsDoes
  <2>4. ASSUME NEW d \in Challenges, Complete(d), challenge'[c] # challenge[c]
        PROVE  /\ challenge'[c].state = "completed"
               /\ credits'[challenge[c].as][c] = credits[challenge[c].as][c] + 1
    <3> DEFINE p == challenge[d].as
    <3>1. /\ p \in Players
          /\ credits' = [credits EXCEPT ![p] = [a \in Aims |->
                           IF a \in Redeemable(p) THEN @[a] + 1 ELSE @[a]]]
          /\ challenge'[c] = IF c \in Redeemable(p)
                             THEN [challenge[c] EXCEPT !.state = "completed"] ELSE challenge[c]
      BY <2>4, CompleteDoes
    <3>2. c \in Redeemable(p) /\ challenge[c].as = p /\ c \in Aims
      BY <2>4, <3>1 DEF Redeemable, Aims
    <3> HIDE DEF p
    <3>3. credits'[p][c] = credits[p][c] + 1
      BY <3>1, <3>2 DEF IInv, TypeOK
    <3>4. challenge'[c].state = "completed"
      BY <3>1, <3>2 DEF ChallengeRows
    <3>5. QED
      BY <3>2, <3>3, <3>4
  <2>5. ASSUME NEW d \in Challenges, Expire(d) PROVE challenge'[c].state = "confirmed"
    BY <2>5 DEF Expire, ChallengeRows
  <2>6. CASE PlayerNext
    BY <2>1, <2>6 DEF PlayerNext, Pay, Rename
  <2>7. CASE BotNext
    BY <2>2, <2>7 DEF BotNext, GiveUp, BotRestarts
  <2>8. CASE \E d \in Challenges : BrowserNext(d) \/ Expire(d)
    BY <2>3, <2>4, <2>5, <2>8 DEF BrowserNext, StatusAsks
  <2>9. QED
    BY <2>6, <2>7, <2>8 DEF Next
<1>2. QED
  BY <1>1, Inductive, PTL DEF Spec

-----------------------------------------------------------------------------
(* Money is credited once                                                   *)

(* Steps that only move challenges on.                                      *)
LEMMA QuietKeeps ==
    ASSUME ConstantsOK, IInv, Tallied,
           UNCHANGED <<nameOf, payment, queue, journal, receipt, account, credits>>,
           \A c \in Challenges :
              /\ IsOpen(c)' => challenge'[c].name = nameOf[challenge'[c].owner]
              /\ IsOpen(c)' => IsOpen(c) \/ challenge[c].state = "none"
              /\ challenge'[c].seen => challenge[c].seen
              /\ challenge[c].state = "completed" =>
                    challenge'[c].state = "completed" /\ challenge'[c].as = challenge[c].as
    PROVE  Tallied'
<1>1. Made' = Made
  BY DEF Made
<1>2. DotsAgree'
  BY <1>1 DEF Tallied, DotsAgree
<1>3. ReceiptsAgree'
  <2>1. \A x \in Made : payment[x].aim \in Challenges => challenge[payment[x].aim].state # "none"
    BY DEF IInv, PaymentsAgree
  <2>2. QED
    BY <1>1, <2>1 DEF Tallied, ReceiptsAgree
<1>4. CreditsAgree'
  <2> SUFFICES ASSUME NEW p \in Players, NEW a \in Aims
               PROVE  credits[p][a] <= Cardinality(CreditedFor(p, a))
                                       + (IF SignedIn(p, a)' THEN 1 ELSE 0)
    BY DEF CreditsAgree, CreditedFor
  <2>1. SignedIn(p, a) => SignedIn(p, a)'
    BY DEF SignedIn
  <2>2. credits[p][a] <= Cardinality(CreditedFor(p, a)) + (IF SignedIn(p, a) THEN 1 ELSE 0)
    BY DEF Tallied, CreditsAgree
  <2>3. Cardinality(CreditedFor(p, a)) \in Nat /\ credits[p][a] \in Nat
    <3>1. IsFiniteSet(CreditedFor(p, a))
      BY FS_Subset DEF ConstantsOK, CreditedFor
    <3>2. QED
      BY <3>1, FS_CardinalityType DEF IInv, TypeOK
  <2>4. QED
    BY <2>1, <2>2, <2>3
<1>5. QED
  BY <1>2, <1>3, <1>4 DEF Tallied

(* Starting a sign-in, polling, confirming and expiring are such steps.     *)
LEMMA QuietSteps ==
    ASSUME ConstantsOK, ~Slips, IInv, Tallied, NEW c \in Challenges,
           \/ \E p \in Players : \E typed \in TypedBy(p) : Start(p, c, typed)
           \/ StatusAsks(c) \/ StatusConfirms(c) \/ Expire(c)
    PROVE  Tallied'
<1> USE RowTypes
<1>0. \A d \in Challenges : IsOpen(d) => challenge[d].name = nameOf[challenge[d].owner]
  BY DEF Tallied, DotsAgree
<1>1. ASSUME NEW p \in Players, NEW typed \in TypedBy(p), Start(p, c, typed) PROVE Tallied'
  <2>1. typed = nameOf[p] /\ UNCHANGED <<nameOf, payment, queue, journal, receipt, account, credits>>
    BY <1>1 DEF TypedBy, Start
  <2> DEFINE row == [NoChallenge EXCEPT !.state = "open", !.owner = p, !.name = typed]
  <2>2. row.state = "open" /\ row.owner = p /\ row.name = typed /\ row.seen = FALSE
    BY DEF NoChallenge
  <2>3. /\ challenge[c].state = "none"
        /\ \A d \in Challenges :
              challenge'[d] = IF d = c THEN row
                              ELSE IF Cleared(d) THEN [challenge[d] EXCEPT !.state = "deleted"]
                              ELSE challenge[d]
    BY <1>1 DEF Start
  <2> HIDE DEF row
  <2>4. \A d \in Challenges :
          \/ /\ d = c /\ challenge[d].state = "none" /\ challenge'[d].state = "open"
             /\ challenge'[d].owner = p /\ challenge'[d].seen = FALSE
             /\ challenge'[d].name = nameOf[p]
          \/ /\ challenge[d].state = "open" /\ challenge[d].expired
             /\ challenge'[d] = [challenge[d] EXCEPT !.state = "deleted"]
          \/ challenge'[d] = challenge[d]
    BY <2>1, <2>2, <2>3 DEF Cleared
  <2>5. ASSUME NEW d \in Challenges
        PROVE  /\ IsOpen(d)' => challenge'[d].name = nameOf[challenge'[d].owner]
               /\ IsOpen(d)' => IsOpen(d) \/ challenge[d].state = "none"
               /\ challenge'[d].seen => challenge[d].seen
               /\ challenge[d].state = "completed" =>
                     challenge'[d].state = "completed" /\ challenge'[d].as = challenge[d].as
    <3>1. challenge[d] \in ChallengeRows
      OBVIOUS
    <3>2. CASE challenge'[d] = challenge[d]
      BY <1>0, <3>2 DEF IsOpen
    <3>3. CASE /\ d = c /\ challenge[d].state = "none" /\ challenge'[d].state = "open"
               /\ challenge'[d].owner = p /\ challenge'[d].seen = FALSE
               /\ challenge'[d].name = nameOf[p]
      BY <3>3
    <3>4. CASE /\ challenge[d].state = "open" /\ challenge[d].expired
               /\ challenge'[d] = [challenge[d] EXCEPT !.state = "deleted"]
      <4>1. challenge'[d].state = "deleted" /\ challenge'[d].seen = challenge[d].seen
        BY <3>1, <3>4 DEF ChallengeRows
      <4>2. QED
        BY <3>4, <4>1 DEF IsOpen
    <3>5. QED
      BY <2>4, <3>2, <3>3, <3>4
  <2>6. QED
    BY <2>1, <2>5, QuietKeeps
<1>2. CASE StatusAsks(c)
  <2>1. UNCHANGED <<nameOf, challenge, payment, queue, journal, receipt, account, credits>>
    BY <1>2 DEF StatusAsks
  <2>2. \A d \in Challenges : IsOpen(d)' = IsOpen(d)
    BY <2>1 DEF IsOpen
  <2>3. QED
    BY <1>0, <2>1, <2>2, QuietKeeps
<1>3. CASE StatusConfirms(c)
  <2> DEFINE r == [challenge[c] EXCEPT !.state = "confirmed", !.as = challenge[c].owner,
                                       !.name = poll[c]]
  <2>1. /\ UNCHANGED <<nameOf, payment, queue, journal, receipt, account, credits>>
        /\ challenge' = challenge
           \/ (challenge[c].state = "open" /\ challenge' = [challenge EXCEPT ![c] = r])
    BY <1>3, StatusConfirmsDoes
  <2>2. r.state = "confirmed" /\ r.seen = challenge[c].seen
    BY DEF ChallengeRows
  <2> HIDE DEF r
  <2>3. ASSUME NEW d \in Challenges
        PROVE  /\ IsOpen(d)' => challenge'[d].name = nameOf[challenge'[d].owner]
               /\ IsOpen(d)' => IsOpen(d) \/ challenge[d].state = "none"
               /\ challenge'[d].seen => challenge[d].seen
               /\ challenge[d].state = "completed" =>
                     challenge'[d].state = "completed" /\ challenge'[d].as = challenge[d].as
    <3>1. CASE challenge'[d] = challenge[d]
      BY <1>0, <3>1 DEF IsOpen
    <3>2. CASE challenge'[d] # challenge[d]
      <4>1. d = c /\ challenge[d].state = "open" /\ challenge'[d] = r
        BY <2>1, <3>2
      <4>2. QED
        BY <2>2, <4>1 DEF IsOpen
    <3>3. QED
      BY <3>1, <3>2
  <2>4. QED
    BY <2>1, <2>3, QuietKeeps
<1>4. CASE Expire(c)
  <2> DEFINE r == [challenge[c] EXCEPT !.expired = TRUE]
  <2>1. /\ UNCHANGED <<nameOf, payment, queue, journal, receipt, account, credits>>
        /\ challenge' = [challenge EXCEPT ![c] = r] /\ challenge[c].state # "completed"
    BY <1>4 DEF Expire
  <2>2. r.expired = TRUE /\ r.seen = challenge[c].seen
    BY DEF ChallengeRows
  <2> HIDE DEF r
  <2>3. ASSUME NEW d \in Challenges
        PROVE  /\ IsOpen(d)' => challenge'[d].name = nameOf[challenge'[d].owner]
               /\ IsOpen(d)' => IsOpen(d) \/ challenge[d].state = "none"
               /\ challenge'[d].seen => challenge[d].seen
               /\ challenge[d].state = "completed" =>
                     challenge'[d].state = "completed" /\ challenge'[d].as = challenge[d].as
    <3>1. CASE d # c
      <4>1. challenge'[d] = challenge[d]
        BY <2>1, <3>1
      <4>2. QED
        BY <1>0, <4>1 DEF IsOpen
    <3>2. CASE d = c
      <4>1. challenge'[d] = r
        BY <2>1, <3>2
      <4>2. QED
        BY <2>1, <2>2, <3>2, <4>1 DEF IsOpen
    <3>3. QED
      BY <3>1, <3>2
  <2>4. QED
    BY <2>1, <2>3, QuietKeeps
<1>5. QED
  BY <1>1, <1>2, <1>3, <1>4

(* The tallies are numbers.                                                 *)
LEMMA TallyTypes ==
    ASSUME ConstantsOK, IInv, NEW p \in Players, NEW a \in Aims
    PROVE  /\ IsFiniteSet(CreditedFor(p, a)) /\ Cardinality(CreditedFor(p, a)) \in Nat
           /\ credits[p][a] \in Nat
<1>1. IsFiniteSet(CreditedFor(p, a))
  BY FS_Subset DEF ConstantsOK, CreditedFor
<1>2. QED
  BY <1>1, FS_CardinalityType DEF IInv, TypeOK

(* A player takes another name: Bedrock players keep theirs.                *)
LEMMA RenameTallies ==
    ASSUME ConstantsOK, IInv, Tallied, NEW p \in Players, NEW name \in Names, Rename(p, name)
    PROVE  Tallied'
<1>1. /\ UNCHANGED <<challenge, payment, queue, journal, receipt, account, credits>>
      /\ nameOf' = [nameOf EXCEPT ![p] = name] /\ p \notin Bedrock
      /\ \A c \in Challenges : ~IsOpen(c)
  BY DEF Rename
<1>2. Made' = Made /\ \A c \in Challenges : ~IsOpen(c)'
  BY <1>1 DEF Made, IsOpen
<1>3. \A q \in Bedrock : q \in Players /\ nameOf'[q] = nameOf[q]
  BY <1>1, RowTypes DEF ConstantsOK
<1>4. DotsAgree'
  BY <1>1, <1>2, <1>3 DEF Tallied, DotsAgree
<1>5. ReceiptsAgree'
  BY <1>1, <1>2 DEF Tallied, ReceiptsAgree
<1>6. CreditsAgree'
  BY <1>1 DEF Tallied, CreditsAgree, CreditedFor, SignedIn
<1>7. QED
  BY <1>4, <1>5, <1>6 DEF Tallied

(* A player pays: nothing of it is credited yet.                            *)
LEMMA PayTallies ==
    ASSUME ConstantsOK, Listed, IInv, Tallied,
           NEW p \in Players, NEW x \in Payments, NEW aim \in Aims, Pay(p, x, aim)
    PROVE  Tallied'
<1> USE RowTypes
<1>1. PICK uuid \in (IF p \in Bedrock THEN {FALSE} ELSE IF Listed THEN {TRUE} ELSE BOOLEAN) :
         payment' = [payment EXCEPT ![x] = [by |-> p, name |-> nameOf[p], aim |-> aim, uuid |-> uuid]]
  BY DEF Pay
<1>2. /\ payment[x].by = Nobody /\ p # Nobody
      /\ payment'[x].by = p /\ payment'[x].aim = aim /\ payment'[x].name = nameOf[p]
      /\ payment'[x].uuid <=> p \notin Bedrock
      /\ \A y \in Payments \ {x} : payment'[y] = payment[y]
      /\ queue' = Append(queue, [of |-> x, as |-> "receipt"])
      /\ UNCHANGED <<nameOf, challenge, journal, receipt, account, credits>>
  BY <1>1 DEF Pay, ConstantsOK
<1>3. /\ x \notin Made /\ Made' = Made \cup {x} /\ Made \subseteq Payments
      /\ \A y \in Made : payment'[y] = payment[y]
  BY <1>2 DEF Made
<1>4. receipt[x] = "none"
  BY <1>3 DEF Tallied, ReceiptsAgree
<1>5. \A c \in Challenges : IsOpen(c)' = IsOpen(c)
  BY <1>2 DEF IsOpen
<1>6. DotsAgree'
  <2>1. \A y \in Made' : /\ payment'[y].uuid <=> payment'[y].by \notin Bedrock
                         /\ payment'[y].by \in Bedrock => payment'[y].name = nameOf[payment'[y].by]
    BY <1>2, <1>3 DEF Tallied, DotsAgree
  <2>2. QED
    BY <1>2, <1>5, <2>1 DEF Tallied, DotsAgree
<1>7. ReceiptsAgree'
  <2>1. /\ \A y \in Payments : receipt[y] # "none" <=> ReceiptOf(y) \in journal
        /\ \A y \in Payments : receipt[y] # "none" => y \in Made'
    BY <1>3 DEF Tallied, ReceiptsAgree
  <2>2. \A y \in Made' : payment'[y].aim \in Challenges /\ IsOpen(payment[y].aim)'
                            => receipt[y] \in {"none", "login_payment"}
    <3>1. \A y \in Made : payment[y].aim \in Challenges /\ IsOpen(payment[y].aim)
                            => receipt[y] \in {"none", "login_payment"}
      BY DEF Tallied, ReceiptsAgree
    <3>2. ASSUME NEW y \in Made', payment'[y].aim \in Challenges, IsOpen(payment[y].aim)'
          PROVE  receipt[y] \in {"none", "login_payment"}
      <4>1. CASE y = x
        BY <1>4, <4>1
      <4>2. CASE y # x
        <5>1. y \in Made /\ payment'[y] = payment[y]
          BY <1>3, <4>2
        <5>2. IsOpen(payment[y].aim)
          BY <1>2, <3>2, <5>1 DEF IsOpen
        <5>3. QED
          BY <3>1, <3>2, <5>1, <5>2
      <4>3. QED
        BY <4>1, <4>2
    <3>3. QED
      BY <3>2
  <2>3. ASSUME NEW i \in 1..Len(queue'), queue'[i].as = "notice"
        PROVE  ReceiptOf(queue'[i].of) \in journal
    <3>1. /\ queue \in Seq(Reports) /\ [of |-> x, as |-> "receipt"] \in Reports
      BY DEF IInv, Reports
    <3>2. /\ Len(queue') = Len(queue) + 1 /\ Len(queue) \in Nat
          /\ \A j \in 1..Len(queue) : queue'[j] = queue[j]
          /\ queue'[Len(queue) + 1] = [of |-> x, as |-> "receipt"]
      BY <1>2, <3>1
    <3>3. i \in 1..Len(queue)
      BY <2>3, <3>2
    <3>4. QED
      BY <2>3, <3>2, <3>3 DEF Tallied, ReceiptsAgree
  <2>4. ASSUME NEW c \in Challenges, challenge[c].seen
        PROVE  \E y \in Made' : payment'[y].aim = c /\ receipt[y] = "login_payment"
    <3>1. PICK y \in Made : payment[y].aim = c /\ receipt[y] = "login_payment"
      BY <2>4 DEF Tallied, ReceiptsAgree
    <3>2. QED
      BY <1>3, <3>1
  <2>5. QED
    BY <1>2, <2>1, <2>2, <2>3, <2>4 DEF ReceiptsAgree
<1>8. CreditsAgree'
  <2>1. \A q \in Players, a \in Aims : CreditedFor(q, a)' = CreditedFor(q, a)
    BY <1>2, <1>4 DEF CreditedFor
  <2>2. QED
    BY <1>2, <2>1 DEF Tallied, CreditsAgree, SignedIn
<1>9. QED
  BY <1>6, <1>7, <1>8 DEF Tallied

(* Reports are given up, or forgotten.                                      *)
LEMMA ForgetTallies ==
    ASSUME ConstantsOK, IInv, Tallied, GiveUp \/ BotRestarts
    PROVE  Tallied'
<1>1. /\ UNCHANGED <<nameOf, challenge, payment, journal, receipt, account, credits>>
      /\ Made' = Made /\ queue # <<>> /\ queue' \in {Tail(queue), <<>>}
      /\ queue \in Seq(Reports)
  BY DEF GiveUp, BotRestarts, Made, IInv
<1>2. \A c \in Challenges : IsOpen(c)' = IsOpen(c)
  BY <1>1 DEF IsOpen
<1>3. ASSUME NEW i \in 1..Len(queue'), queue'[i].as = "notice"
      PROVE  ReceiptOf(queue'[i].of) \in journal
  <2>1. queue' = Tail(queue) /\ i + 1 \in 1..Len(queue) /\ queue'[i] = queue[i + 1]
    BY <1>1
  <2>2. QED
    BY <1>3, <2>1 DEF Tallied, ReceiptsAgree
<1>4. DotsAgree' /\ ReceiptsAgree'
  BY <1>1, <1>2, <1>3 DEF Tallied, DotsAgree, ReceiptsAgree
<1>5. CreditsAgree'
  BY <1>1 DEF Tallied, CreditsAgree, CreditedFor, SignedIn
<1>6. QED
  BY <1>4, <1>5 DEF Tallied

(* A payment is credited to nobody but the player who made it: the list has *)
(* the UUID of a Java player, and the name of a Bedrock player is his own.  *)
LEMMA HolderIsPayer ==
    ASSUME ConstantsOK, IInv, Tallied, NEW x \in Made
    PROVE  Holder(x) \subseteq {payment[x].by} /\ payment[x].by \in Players
<1> USE RowTypes
<1>1. payment[x] \in PaymentRows /\ payment[x].by \in Players
  BY DEF Made, PaymentRows
<1>2. CASE payment[x].uuid
  BY <1>1, <1>2 DEF Holder
<1>3. CASE ~payment[x].uuid
  <2>1. payment[x].by \in Bedrock /\ payment[x].name = nameOf[payment[x].by]
    BY <1>3 DEF Tallied, DotsAgree
  <2>2. payment[x].name \in Names /\ payment[x].name.dot
    BY <1>1, <2>1 DEF IInv, NamesAgree
  <2>3. ASSUME NEW q \in Players, account[q].exists, account[q].name = payment[x].name
        PROVE  q = payment[x].by
    <3>1. q \in Bedrock /\ nameOf[q] = nameOf[payment[x].by]
      BY <2>1, <2>2, <2>3 DEF Tallied, DotsAgree
    <3>2. QED
      BY <1>1, <3>1 DEF IInv, NamesAgree
  <2>4. QED
    BY <1>1, <1>3, <2>3 DEF Holder, HolderByName
<1>4. QED
  BY <1>1, <1>2, <1>3

(* A receipt is processed: a sign-in that is open gets it, or its payer.    *)
LEMMA ReceiptTallies ==
    ASSUME ConstantsOK, IInv, Tallied, NEW x \in Made, ReceiptOf(x) \notin journal,
           payment[x].name = nameOf[payment[x].by], ProcessReceipt(x),
           UNCHANGED <<payment, account, poll>>
    PROVE  /\ \A y \in Payments \ {x} : receipt'[y] = receipt[y]
           /\ receipt'[x] \in {"login_payment", "credited", "unlinked"}
           /\ payment[x].aim \in Challenges /\ IsOpen(payment[x].aim)
                 => receipt'[x] = "login_payment"
           /\ CreditsAgree'
<1> USE RowTypes
<1>1. /\ receipt' = [receipt EXCEPT ![x] = IF IsLogin(x) THEN "login_payment"
                                           ELSE IF Holder(x) # {} THEN "credited" ELSE "unlinked"]
      /\ credits' = [q \in Players |->
                       IF ~IsLogin(x) /\ q \in Holder(x)
                       THEN [credits[q] EXCEPT ![payment[x].aim] = @ + 1] ELSE credits[q]]
      /\ UNCHANGED challenge
  BY DEF ProcessReceipt
<1>2. /\ receipt'[x] = IF IsLogin(x) THEN "login_payment"
                       ELSE IF Holder(x) # {} THEN "credited" ELSE "unlinked"
      /\ \A y \in Payments \ {x} : receipt'[y] = receipt[y]
      /\ receipt[x] = "none"
  BY <1>1 DEF IInv, TypeOK, Tallied, ReceiptsAgree
<1>3. ASSUME payment[x].aim \in Challenges, IsOpen(payment[x].aim) PROVE IsLogin(x)
  <2>1. challenge[payment[x].aim].owner = payment[x].by
    BY <1>3 DEF IInv, PaymentsAgree
  <2>2. challenge[payment[x].aim].name = nameOf[payment[x].by]
    BY <1>3, <2>1 DEF Tallied, DotsAgree
  <2>3. QED
    BY <1>3, <2>2 DEF IsLogin
<1>4. CreditsAgree'
  <2> SUFFICES ASSUME NEW q \in Players, NEW a \in Aims
               PROVE  credits'[q][a] <= Cardinality(CreditedFor(q, a)')
                                        + (IF SignedIn(q, a) THEN 1 ELSE 0)
    BY <1>1 DEF CreditsAgree, SignedIn
  <2>1. credits[q][a] <= Cardinality(CreditedFor(q, a)) + (IF SignedIn(q, a) THEN 1 ELSE 0)
    BY DEF Tallied, CreditsAgree
  <2>2. /\ IsFiniteSet(CreditedFor(q, a)) /\ Cardinality(CreditedFor(q, a)) \in Nat
        /\ credits[q][a] \in Nat /\ credits[q] \in [Aims -> Nat]
    BY TallyTypes DEF IInv, TypeOK
  <2>3. CASE ~IsLogin(x) /\ q \in Holder(x) /\ payment[x].aim = a
    <3>1. q = payment[x].by /\ Holder(x) # {}
      BY <2>3, HolderIsPayer
    <3>2. x \notin CreditedFor(q, a) /\ CreditedFor(q, a)' = CreditedFor(q, a) \cup {x}
      BY <1>2, <2>3, <3>1 DEF CreditedFor
    <3>3. Cardinality(CreditedFor(q, a)') = Cardinality(CreditedFor(q, a)) + 1
      BY <2>2, <3>2, FS_AddElement
    <3>4. credits'[q][a] = credits[q][a] + 1
      BY <1>1, <2>2, <2>3
    <3>5. QED
      BY <2>1, <2>2, <3>3, <3>4
  <2>4. CASE ~(~IsLogin(x) /\ q \in Holder(x) /\ payment[x].aim = a)
    <3>1. credits'[q][a] = credits[q][a]
      BY <1>1, <2>2, <2>4
    <3>2. CreditedFor(q, a) \subseteq CreditedFor(q, a)'
      BY <1>2 DEF CreditedFor
    <3>3. IsFiniteSet(CreditedFor(q, a)')
      BY FS_Subset DEF ConstantsOK, CreditedFor
    <3>4. /\ Cardinality(CreditedFor(q, a)') \in Nat
          /\ Cardinality(CreditedFor(q, a)) <= Cardinality(CreditedFor(q, a)')
      BY <3>2, <3>3, FS_Subset, FS_CardinalityType
    <3>5. QED
      BY <2>1, <2>2, <3>1, <3>4
  <2>5. QED
    BY <2>3, <2>4
<1>5. QED
  BY <1>2, <1>3, <1>4

(* A report arrives.                                                        *)
LEMMA ReportTallies ==
    ASSUME ConstantsOK, IInv, Tallied, NEW answered \in BOOLEAN, ReportArrives(answered)
    PROVE  Tallied'
<1> DEFINE x == Head(queue).of
<1> USE RowTypes
<1>1. /\ x \in Made /\ payment[x].name = nameOf[payment[x].by]
      /\ UNCHANGED <<nameOf, payment, account, poll>>
      /\ QueueFollows(queue, queue') /\ Head(queue) \in Reports
      /\ journal' = journal \cup {Head(queue)}
      /\ \/ /\ Head(queue) \in journal \/ Head(queue).as = "notice"
            /\ UNCHANGED <<challenge, receipt, credits>>
         \/ /\ Head(queue) \notin journal /\ Head(queue).as = "receipt" /\ ProcessReceipt(x)
         \/ Noticed(x) /\ Head(queue).as = "notice" /\ UNCHANGED <<receipt, credits>>
  BY ReportDoes
<1>2. /\ queue \in Seq(Reports) /\ queue # <<>> /\ Head(queue) = queue[1] /\ 1 \in 1..Len(queue)
  BY QueueSteps DEF IInv, ReportArrives
<1>3. Head(queue).as = "receipt" <=> Head(queue) = ReceiptOf(x)
  BY <1>1 DEF Reports, ReceiptOf
<1>4. Head(queue).as = "notice" => ReceiptOf(x) \in journal
  BY <1>2 DEF Tallied, ReceiptsAgree
<1> HIDE DEF x
<1>5. Made' = Made
  BY <1>1 DEF Made
<1>6. \A i \in 1..Len(queue') : queue'[i].as = "notice" => ReceiptOf(queue'[i].of) \in journal'
  <2>1. PICK s \in 0..Len(queue) : ShiftedBy(s, queue, queue')
    BY <1>1 DEF QueueFollows
  <2>2. /\ Len(queue) \in Nat /\ Len(queue') = Len(queue) - s
        /\ \A i \in 1..Len(queue') :
              /\ queue'[i].of = queue[i + s].of
              /\ queue'[i].as = queue[i + s].as \/ (i = 1 /\ s = 0 /\ queue[1].as = "receipt")
    BY <1>2, <2>1 DEF ShiftedBy
  <2>3. ASSUME NEW i \in 1..Len(queue'), queue'[i].as = "notice"
        PROVE  ReceiptOf(queue'[i].of) \in journal'
    <3>1. i + s \in 1..Len(queue)
      BY <2>2
    <3>2. CASE queue'[i].as = queue[i + s].as
      BY <1>1, <2>2, <2>3, <3>1, <3>2 DEF Tallied, ReceiptsAgree
    <3>3. CASE i = 1 /\ s = 0 /\ queue[1].as = "receipt"
      <4>1. queue'[i].of = queue[1].of
        BY <2>2, <3>3
      <4>2. ReceiptOf(queue[1].of) = Head(queue)
        BY <1>2, <1>3, <3>3 DEF x
      <4>3. QED
        BY <1>1, <4>1, <4>2
    <3>4. QED
      BY <2>2, <3>2, <3>3
  <2>4. QED
    BY <2>3
<1>7. \A y \in Payments : ReceiptOf(y) \in journal' <=>
                             ReceiptOf(y) \in journal \/ (y = x /\ Head(queue).as = "receipt")
  BY <1>1, <1>3 DEF ReceiptOf, Reports
<1>8. CASE /\ Head(queue) \in journal \/ Head(queue).as = "notice"
           /\ UNCHANGED <<challenge, receipt, credits>>
  <2>1. \A y \in Payments : ReceiptOf(y) \in journal' <=> ReceiptOf(y) \in journal
    BY <1>3, <1>7, <1>8
  <2>2. \A c \in Challenges : IsOpen(c)' = IsOpen(c)
    BY <1>8 DEF IsOpen
  <2>3. DotsAgree'
    BY <1>1, <1>5, <1>8, <2>2 DEF Tallied, DotsAgree
  <2>4. ReceiptsAgree'
    BY <1>1, <1>5, <1>6, <1>8, <2>1, <2>2 DEF Tallied, ReceiptsAgree
  <2>5. CreditsAgree'
    BY <1>1, <1>8 DEF Tallied, CreditsAgree, CreditedFor, SignedIn
  <2>6. QED
    BY <2>3, <2>4, <2>5 DEF Tallied
<1>9. CASE Head(queue) \notin journal /\ Head(queue).as = "receipt" /\ ProcessReceipt(x)
  <2>1. /\ \A y \in Payments \ {x} : receipt'[y] = receipt[y]
        /\ receipt'[x] \in {"login_payment", "credited", "unlinked"}
        /\ payment[x].aim \in Challenges /\ IsOpen(payment[x].aim)
              => receipt'[x] = "login_payment"
        /\ CreditsAgree'
    BY <1>1, <1>3, <1>9, ReceiptTallies
  <2>2. challenge' = challenge /\ \A c \in Challenges : IsOpen(c)' = IsOpen(c)
    BY <1>9 DEF ProcessReceipt, IsOpen
  <2>3. DotsAgree'
    BY <1>1, <1>5, <2>2 DEF Tallied, DotsAgree
  <2>4. receipt[x] = "none"
    BY <1>1, <1>3, <1>9 DEF Tallied, ReceiptsAgree
  <2>5. ReceiptsAgree'
    <3>1. /\ \A y \in Payments : receipt'[y] # "none" <=> ReceiptOf(y) \in journal'
          /\ \A y \in Payments : receipt'[y] # "none" => y \in Made
      BY <1>1, <1>7, <1>9, <2>1 DEF Tallied, ReceiptsAgree
    <3>2. \A y \in Made : payment[y].aim \in Challenges /\ IsOpen(payment[y].aim)
                             => receipt'[y] \in {"none", "login_payment"}
      BY <2>1 DEF Tallied, ReceiptsAgree
    <3>3. \A c \in Challenges : challenge[c].seen =>
             \E y \in Made : payment[y].aim = c /\ receipt'[y] = "login_payment"
      BY <2>1, <2>4 DEF Tallied, ReceiptsAgree
    <3>4. QED
      BY <1>1, <1>5, <1>6, <2>2, <3>1, <3>2, <3>3 DEF ReceiptsAgree
  <2>6. QED
    BY <2>1, <2>3, <2>5 DEF Tallied
<1>10. CASE Noticed(x) /\ Head(queue).as = "notice" /\ UNCHANGED <<receipt, credits>>
  <2> DEFINE c == payment[x].aim
             r == [challenge[c] EXCEPT !.seen = TRUE, !.name = payment[x].name]
  <2>1. /\ c \in Challenges /\ IsOpen(c) /\ payment[x].by = challenge[c].owner
        /\ challenge' = [challenge EXCEPT ![c] = r]
    BY <1>1, <1>10 DEF Noticed, IInv, PaymentsAgree
  <2>2. /\ r.state = challenge[c].state /\ r.owner = challenge[c].owner /\ r.as = challenge[c].as
        /\ r.expired = challenge[c].expired /\ r.name = payment[x].name
    BY <2>1 DEF ChallengeRows
  <2>3. c = payment[x].aim
    OBVIOUS
  <2> HIDE DEF c, r
  <2>4. challenge'[c] = r /\ \A d \in Challenges \ {c} : challenge'[d] = challenge[d]
    BY <2>1
  <2>5. \A d \in Challenges : /\ IsOpen(d)' = IsOpen(d)
                              /\ challenge'[d].state = challenge[d].state
                              /\ challenge'[d].as = challenge[d].as
                              /\ challenge'[d].owner = challenge[d].owner
    BY <2>2, <2>4 DEF IsOpen
  <2>6. DotsAgree'
    <3>1. \A d \in Challenges : IsOpen(d) => challenge'[d].name = nameOf[challenge'[d].owner]
      BY <1>1, <2>1, <2>2, <2>4, <2>5 DEF Tallied, DotsAgree
    <3>2. QED
      BY <1>1, <1>5, <2>5, <3>1 DEF Tallied, DotsAgree
  <2>7. receipt[x] = "login_payment"
    BY <1>1, <1>4, <1>10, <2>1, <2>3 DEF Tallied, ReceiptsAgree
  <2>8. ReceiptsAgree'
    <3>1. \A y \in Payments : ReceiptOf(y) \in journal' <=> ReceiptOf(y) \in journal
      BY <1>7, <1>10
    <3>2. \A d \in Challenges : challenge'[d].seen =>
             \E y \in Made : payment[y].aim = d /\ receipt[y] = "login_payment"
      BY <1>1, <2>3, <2>4, <2>7 DEF Tallied, ReceiptsAgree
    <3>3. QED
      BY <1>1, <1>5, <1>6, <1>10, <2>5, <3>1, <3>2 DEF Tallied, ReceiptsAgree
  <2>9. CreditsAgree'
    BY <1>1, <1>10, <2>5 DEF Tallied, CreditsAgree, CreditedFor, SignedIn
  <2>10. QED
    BY <2>6, <2>8, <2>9 DEF Tallied
<1>11. QED
  BY <1>1, <1>8, <1>9, <1>10

(* A sign-in is completed: everything confirmed for the account is credited,*)
(* and may not be again.                                                    *)
LEMMA CompleteTallies ==
    ASSUME ConstantsOK, IInv, Tallied, NEW c \in Challenges, Complete(c)
    PROVE  Tallied'
<1> USE RowTypes
<1> DEFINE p == challenge[c].as
           name == challenge[c].name
           row == [a \in Aims |-> IF a \in Redeemable(p) THEN credits[p][a] + 1
                                  ELSE credits[p][a]]
<1>1. /\ UNCHANGED <<nameOf, payment, queue, journal, receipt, poll>>
      /\ p \in Players /\ name = nameOf[p] /\ name \in Names
      /\ account'[p] = [exists |-> TRUE, session |-> TRUE, name |-> name]
      /\ \A q \in Players \ {p} :
            account'[q] = IF account[q].exists /\ account[q].name = name
                          THEN [account[q] EXCEPT !.name = Placeholder(q), !.session = FALSE]
                          ELSE account[q]
      /\ credits' = [credits EXCEPT ![p] = row]
      /\ \A d \in Challenges :
            challenge'[d] = IF d \in Redeemable(p)
                            THEN [challenge[d] EXCEPT !.state = "completed"] ELSE challenge[d]
  BY CompleteDoes
<1>2. Made' = Made
  BY <1>1 DEF Made
<1>3. \A a \in Aims : row[a] = IF a \in Redeemable(p) THEN credits[p][a] + 1 ELSE credits[p][a]
  OBVIOUS
<1> HIDE DEF p, name, row
<1>4. \A d \in Challenges :
        \/ challenge'[d] = challenge[d] /\ d \notin Redeemable(p)
        \/ /\ challenge[d].state = "confirmed" /\ challenge[d].as = p /\ d \in Redeemable(p)
           /\ challenge'[d].state = "completed" /\ challenge'[d].as = p
           /\ challenge'[d].seen = challenge[d].seen
  <2>1. ASSUME NEW d \in Redeemable(p)
        PROVE  /\ d \in Challenges /\ challenge[d].state = "confirmed" /\ challenge[d].as = p
               /\ challenge'[d].state = "completed" /\ challenge'[d].as = p
               /\ challenge'[d].seen = challenge[d].seen
    BY <1>1 DEF Redeemable, ChallengeRows
  <2>2. QED
    BY <1>1, <2>1
<1>5. \A d \in Challenges : IsOpen(d)' => IsOpen(d) /\ challenge'[d] = challenge[d]
  BY <1>4 DEF IsOpen
<1>6. DotsAgree'
  <2>1. ASSUME NEW q \in Players, account'[q].exists, account'[q].name \in Names
        PROVE  /\ account'[q].name.dot <=> q \in Bedrock
               /\ q \in Bedrock => account'[q].name = nameOf[q]
    <3>1. CASE q = p
      <4>1. account'[q].name = nameOf[q]
        <5>1. account'[p] = [exists |-> TRUE, session |-> TRUE, name |-> name]
          BY <1>1
        <5>2. account'[p].name = name
          BY <5>1
        <5>3. QED
          BY <1>1, <3>1, <5>2
      <4>2. QED
        BY <4>1 DEF IInv, NamesAgree
    <3>2. CASE q # p /\ account[q].exists /\ account[q].name = name
      <4>1. account'[q] = [account[q] EXCEPT !.name = Placeholder(q), !.session = FALSE]
        BY <1>1, <3>2
      <4>2. account'[q].name = Placeholder(q)
        BY <4>1 DEF AccountRows
      <4>3. QED
        BY <2>1, <4>2, NamesDiffer
    <3>3. CASE q # p /\ ~(account[q].exists /\ account[q].name = name)
      <4>1. account'[q] = account[q]
        BY <1>1, <3>3
      <4>2. QED
        BY <2>1, <4>1 DEF Tallied, DotsAgree
    <3>4. QED
      BY <3>1, <3>2, <3>3
  <2>2. \A d \in Challenges : IsOpen(d)' => challenge'[d].name = nameOf[challenge'[d].owner]
    BY <1>5 DEF Tallied, DotsAgree
  <2>3. QED
    BY <1>1, <1>2, <2>1, <2>2 DEF Tallied, DotsAgree
<1>7. ReceiptsAgree'
  <2>1. \A d \in Challenges : challenge'[d].seen = challenge[d].seen
    BY <1>4
  <2>2. QED
    BY <1>1, <1>2, <1>5, <2>1 DEF Tallied, ReceiptsAgree
<1>8. CreditsAgree'
  <2> SUFFICES ASSUME NEW q \in Players, NEW a \in Aims
               PROVE  credits'[q][a] <= Cardinality(CreditedFor(q, a))
                                        + (IF SignedIn(q, a)' THEN 1 ELSE 0)
    BY <1>1 DEF CreditsAgree, CreditedFor
  <2>1. credits[q][a] <= Cardinality(CreditedFor(q, a)) + (IF SignedIn(q, a) THEN 1 ELSE 0)
    BY DEF Tallied, CreditsAgree
  <2>2. Cardinality(CreditedFor(q, a)) \in Nat /\ credits[q][a] \in Nat
    BY TallyTypes
  <2>3. credits \in [Players -> [Aims -> Nat]]
    BY DEF IInv, TypeOK
  <2>4. CASE q = p /\ a \in Redeemable(p)
    <3>1. credits'[q][a] = credits[q][a] + 1
      BY <1>1, <1>3, <2>3, <2>4
    <3>2. ~SignedIn(q, a) /\ SignedIn(q, a)'
      <4>1. a \in Challenges
        BY <2>4 DEF Redeemable
      <4>2. QED
        BY <1>4, <2>4, <4>1 DEF SignedIn
    <3>3. QED
      BY <2>1, <2>2, <3>1, <3>2
  <2>5. CASE ~(q = p /\ a \in Redeemable(p))
    <3>1. credits'[q][a] = credits[q][a]
      BY <1>1, <1>3, <2>3, <2>5
    <3>2. SignedIn(q, a) => SignedIn(q, a)'
      BY <1>4 DEF SignedIn
    <3>3. QED
      BY <2>1, <2>2, <3>1, <3>2
  <2>6. QED
    BY <2>4, <2>5
<1>9. QED
  BY <1>6, <1>7, <1>8 DEF Tallied

(* Before the first payment.                                                *)
LEMMA InitTallied == ASSUME ConstantsOK, ~Slips, Init PROVE Tallied
<1>1. Made = {}
  BY DEF Init, Made, NoPayment
<1>2. \A c \in Challenges : challenge[c].state = "none" /\ ~challenge[c].seen
  BY DEF Init, NoChallenge
<1>3. DotsAgree
  <2>1. PICK known \in SUBSET Players :
           account = [p \in Players |-> [exists |-> p \in known, session |-> p \in known,
                                         name |-> IF p \in known THEN nameOf[p] ELSE NoName]]
    BY DEF Init
  <2>2. \A p \in Players : account[p].name \in Names => account[p].name = nameOf[p]
    BY <2>1, NamesDiffer
  <2>3. \A p \in Players : nameOf[p].dot <=> p \in Bedrock
    BY DEF Init
  <2>4. QED
    BY <1>1, <1>2, <2>2, <2>3 DEF DotsAgree, IsOpen
<1>4. ReceiptsAgree
  BY <1>1, <1>2 DEF Init, ReceiptsAgree
<1>5. CreditsAgree
  <2> SUFFICES ASSUME NEW p \in Players, NEW a \in Aims
               PROVE  credits[p][a] <= Cardinality(CreditedFor(p, a))
                                       + (IF SignedIn(p, a) THEN 1 ELSE 0)
    BY DEF CreditsAgree
  <2>1. credits[p][a] = 0
    BY DEF Init
  <2>2. Cardinality(CreditedFor(p, a)) \in Nat
    BY TallyTypes, InitIInv
  <2>3. QED
    BY <2>1, <2>2
<1>6. QED
  BY <1>3, <1>4, <1>5 DEF Tallied

(* Every step keeps the tallies.                                            *)
LEMMA NextTallies ==
    ASSUME ConstantsOK, Listed, ~Slips, IInv, Tallied, [Next]_vars
    PROVE  Tallied'
<1>1. CASE PlayerNext
  BY <1>1, QuietSteps, PayTallies, RenameTallies DEF PlayerNext
<1>2. CASE BotNext
  BY <1>2, ForgetTallies, ReportTallies DEF BotNext
<1>3. CASE \E c \in Challenges : BrowserNext(c) \/ Expire(c)
  BY <1>3, QuietSteps, CompleteTallies DEF BrowserNext
<1>4. CASE UNCHANGED vars
  BY <1>4 DEF vars, Tallied, DotsAgree, ReceiptsAgree, CreditsAgree, CreditedFor, SignedIn,
              Made, IsOpen
<1>5. QED
  BY <1>1, <1>2, <1>3, <1>4 DEF Next

(* A sign-in that was completed was paid by a payment that is not among     *)
(* those credited as they came in.                                          *)
LEMMA TalliesSuffice ==
    ASSUME ConstantsOK, IInv, Tallied
    PROVE  CreditedOncePerPayment
<1> SUFFICES ASSUME NEW p \in Players, NEW a \in Aims
             PROVE  credits[p][a]
                       <= Cardinality({x \in Made : payment[x].by = p /\ payment[x].aim = a})
  BY DEF CreditedOncePerPayment
<1> DEFINE C == CreditedFor(p, a)
           P == {x \in Made : payment[x].by = p /\ payment[x].aim = a}
<1>1. credits[p][a] <= Cardinality(C) + (IF SignedIn(p, a) THEN 1 ELSE 0)
  BY DEF Tallied, CreditsAgree
<1>2. IsFiniteSet(C) /\ Cardinality(C) \in Nat /\ credits[p][a] \in Nat
  BY TallyTypes
<1>3. C \subseteq P
  BY DEF CreditedFor, Tallied, ReceiptsAgree
<1>4. IsFiniteSet(P)
  BY FS_Subset DEF ConstantsOK, Made
<1>5. Cardinality(P) \in Nat /\ Cardinality(C) <= Cardinality(P)
  BY <1>3, <1>4, FS_Subset, FS_CardinalityType
<1>6. CASE SignedIn(p, a)
  <2>1. a \in Challenges /\ challenge[a].seen /\ challenge[a].owner = p
    BY <1>6 DEF SignedIn, IInv, ChallengesAgree
  <2>2. PICK x \in Made : payment[x].aim = a /\ receipt[x] = "login_payment"
    BY <2>1 DEF Tallied, ReceiptsAgree
  <2>3. x \in P /\ x \notin C
    BY <2>1, <2>2 DEF IInv, PaymentsAgree, CreditedFor
  <2>4. Cardinality(C \cup {x}) = Cardinality(C) + 1
    BY <1>2, <2>3, FS_AddElement
  <2>5. Cardinality(C \cup {x}) <= Cardinality(P)
    BY <1>3, <1>4, <2>3, FS_Subset
  <2>6. QED
    BY <1>1, <1>2, <1>5, <1>6, <2>4, <2>5
<1>7. CASE ~SignedIn(p, a)
  BY <1>1, <1>2, <1>5, <1>7
<1>8. QED
  BY <1>6, <1>7

(* An account is credited for an amount no oftener than its player paid it, *)
(* provided names are typed as they are and the list shows who has paid:    *)
(* without either an amount may be credited to another or a second time.    *)
THEOREM CreditedOnce ==
    ASSUME ConstantsOK, Listed, ~Slips PROVE Spec => []CreditedOncePerPayment
<1>1. Init => Tallied
  BY InitTallied
<1>2. IInv /\ Tallied /\ [Next]_vars => Tallied'
  BY NextTallies
<1>3. IInv /\ Tallied => CreditedOncePerPayment
  BY TalliesSuffice
<1>4. QED
  BY <1>1, <1>2, <1>3, Inductive, PTL DEF Spec

-----------------------------------------------------------------------------
(* Anti-drain rules: the inductive invariant                                *)

Asking == {w \in Withdrawals : facts[w].read}

(* What player p, and all who are not staff, have taken out unseen.         *)
UnseenOf(p)  == SumOf(Amount, Unseen(Of(p)))
UnseenTheirs == {w \in Unseen(Withdrawals) : Owner[w] \notin Staff}
PaidIn       == SumOf(deposited, Users \ Staff)

(* Requests under way whose facts would let them by the house's rule.       *)
WouldPass ==
    {w \in Asking : /\ Owner[w] \notin Staff /\ Amount[w] <= Threshold
                    /\ facts[w].flow + Amount[w] <= HouseHourly}

(* What was read with a request is not too little for it: while it is under *)
(* way the player makes no other one, or has made one and must wait.        *)
FactsStand ==
    \A w \in Withdrawals : facts[w].read =>
        /\ status[w] = "none"
        /\ facts[w].deposited <= deposited[Owner[w]]
        /\ Owner[w] \notin cooling => UnseenOf(Owner[w]) <= facts[w].withdrawn

AllowanceStands ==
    NetCashout > 0 => \A p \in Users \ Staff : UnseenOf(p) <= deposited[p] + NetCashout

(* Every request that would pass is counted before it is made.              *)
HouseStands ==
    HouseHourly > 0 =>
      SumOf(Amount, UnseenTheirs) + SumOf(Amount, WouldPass)
        <= HouseHourly + (MaxAsking - 1) * Threshold + PaidIn

(* The money of a payout is with the vault only while nobody can claim it.  *)
Funded(w) ==
    /\ status[w] = "awaiting_vault" => funding[w] = "vault"
    /\ status[w] \in {"none", "pending_approval", "queued", "processing", "dead"} =>
          funding[w] # "vault"

(* It may yet be handed out to the bot with no operator asked.              *)
Bound(w) ==
    \/ status[w] \in {"awaiting_vault", "queued", "processing"}
    \/ status[w] = "manual_review" /\ funding[w] = "vault"

HoldStands ==
    \A w \in Withdrawals :
        Funded(w) /\ (Owner[w] \in hold /\ Bound(w) => w \in approved \cup missed)

RulesInv == RulesTypeOK /\ FactsStand /\ HoldStands /\ AllowanceStands /\ HouseStands

(* Sums are over finite sets.                                               *)
FiniteRules == IsFiniteSet(Withdrawals) /\ IsFiniteSet(Users)

LEMMA RuleTypes ==
    ASSUME RulesOK
    PROVE  /\ \A w \in Withdrawals : Amount[w] \in Nat /\ Amount[w] > 0 /\ Owner[w] \in Users
           /\ Threshold \in Nat /\ NetCashout \in Nat /\ HouseHourly \in Nat
           /\ MaxAsking \in Nat \ {0} /\ Staff \subseteq Users /\ Deposits \subseteq Nat
  BY DEF RulesOK

LEMMA TotalIsSum ==
    ASSUME RulesOK, FiniteRules, NEW S \in SUBSET Withdrawals
    PROVE  Total(S) = SumOf(Amount, S) /\ SumOf(Amount, S) \in Nat /\ IsFiniteSet(S)
  <1>1. IsFiniteSet(S)
    BY FS_Subset DEF FiniteRules
  <1>2. \A w \in S : Amount[w] \in Nat
    BY RuleTypes
  <1> QED BY <1>1, <1>2, SumIsFold, SumType DEF Total, SumOver

LEMMA PaidInIsSum ==
    ASSUME RulesOK, FiniteRules, RulesTypeOK
    PROVE  SumOver(Users \ Staff, LAMBDA p : deposited[p]) = PaidIn /\ PaidIn \in Nat
  <1>1. IsFiniteSet(Users \ Staff)
    BY FS_Subset DEF FiniteRules
  <1>2. \A p \in Users \ Staff : deposited[p] \in Nat
    BY DEF RulesTypeOK
  <1> QED BY <1>1, <1>2, SumIsFold, SumType DEF SumOver, PaidIn

(* Fewer withdrawals are worth no more.                                     *)
LEMMA FewerAreLess ==
    ASSUME RulesOK, FiniteRules, NEW S \in SUBSET Withdrawals, NEW T \in SUBSET S
    PROVE  /\ SumOf(Amount, T) <= SumOf(Amount, S)
           /\ SumOf(Amount, T) \in Nat /\ SumOf(Amount, S) \in Nat
  <1>1. \A w \in S : Amount[w] \in Nat
    BY RuleTypes
  <1> QED BY <1>1, TotalIsSum, SumOfFewer

LEMMA OneMoreIsMore ==
    ASSUME RulesOK, FiniteRules, NEW S \in SUBSET Withdrawals, NEW w \in Withdrawals
    PROVE  SumOf(Amount, S \cup {w}) <= SumOf(Amount, S) + Amount[w]
  <1>1. \A x \in S \cup {w} : Amount[x] \in Nat
    BY RuleTypes
  <1> QED BY <1>1, TotalIsSum, SumOfMore

-----------------------------------------------------------------------------
(* A step that makes no request and sends nothing unseen: whatever an       *)
(* operator, the bot, the monitor and the clock do.                         *)
LEMMA QuietStepKeeps ==
    ASSUME RulesOK, FiniteRules, RulesInv, RulesTypeOK', HoldStands',
           \A w \in Withdrawals : Sent(w)' /\ w \notin approved' => Sent(w) /\ w \notin approved,
           \A w \in Withdrawals : status[w] = "none" => status'[w] = "none",
           facts' = facts,
           \A w \in Withdrawals : facts[w].read /\ Owner[w] \in cooling => Owner[w] \in cooling',
           \A p \in Users : deposited[p] <= deposited'[p]
    PROVE  RulesInv'
  <1>1. ASSUME NEW p \in Users
        PROVE  UnseenOf(p)' <= UnseenOf(p) /\ UnseenOf(p)' \in Nat /\ UnseenOf(p) \in Nat
    <2>1. Unseen(Of(p))' \in SUBSET Unseen(Of(p)) /\ Unseen(Of(p)) \in SUBSET Withdrawals
      BY DEF Unseen, Of
    <2> QED BY <2>1, FewerAreLess DEF UnseenOf
  <1>2. FactsStand'
    <2> SUFFICES ASSUME NEW w \in Withdrawals, facts'[w].read
                 PROVE  /\ status'[w] = "none"
                        /\ facts'[w].deposited <= deposited'[Owner[w]]
                        /\ Owner[w] \notin cooling' => UnseenOf(Owner[w])' <= facts'[w].withdrawn
      BY DEF FactsStand
    <2>1. Owner[w] \in Users /\ facts[w] \in FactsRead
      BY RuleTypes DEF RulesInv, RulesTypeOK
    <2>2. deposited[Owner[w]] \in Nat /\ deposited'[Owner[w]] \in Nat
      BY <2>1 DEF RulesInv, RulesTypeOK
    <2>3. facts[w].deposited \in Nat /\ facts[w].withdrawn \in Nat
      BY <2>1 DEF FactsRead
    <2> QED BY <1>1, <2>1, <2>2, <2>3 DEF RulesInv, FactsStand
  <1>3. AllowanceStands'
    <2> SUFFICES ASSUME NetCashout > 0, NEW p \in Users \ Staff
                 PROVE  UnseenOf(p)' <= deposited'[p] + NetCashout
      BY DEF AllowanceStands
    <2>1. UnseenOf(p) <= deposited[p] + NetCashout
      BY DEF RulesInv, AllowanceStands
    <2>2. deposited[p] \in Nat /\ deposited'[p] \in Nat /\ NetCashout \in Nat
      BY RuleTypes DEF RulesInv, RulesTypeOK
    <2> QED BY <1>1, <2>1, <2>2
  <1>4. HouseStands'
    <2>1. UnseenTheirs' \in SUBSET UnseenTheirs /\ UnseenTheirs \in SUBSET Withdrawals
      BY DEF UnseenTheirs, Unseen
    <2>2. WouldPass' = WouldPass /\ WouldPass \in SUBSET Withdrawals
      BY DEF WouldPass, Asking
    <2>3. PaidIn <= PaidIn'
      <3>1. IsFiniteSet(Users \ Staff)
        BY FS_Subset DEF FiniteRules
      <3>2. \A p \in Users \ Staff : deposited[p] \in Nat /\ deposited'[p] \in Nat
        BY DEF RulesInv, RulesTypeOK
      <3> QED BY <3>1, <3>2, SumGrows DEF PaidIn
    <2>4. PaidIn \in Nat /\ PaidIn' \in Nat
      <3>1. IsFiniteSet(Users \ Staff)
        BY FS_Subset DEF FiniteRules
      <3>2. \A p \in Users \ Staff : deposited[p] \in Nat /\ deposited'[p] \in Nat
        BY DEF RulesInv, RulesTypeOK
      <3> QED BY <3>1, <3>2, SumType DEF PaidIn
    <2>5. /\ SumOf(Amount, UnseenTheirs') <= SumOf(Amount, UnseenTheirs)
          /\ SumOf(Amount, UnseenTheirs') \in Nat /\ SumOf(Amount, UnseenTheirs) \in Nat
          /\ SumOf(Amount, WouldPass) \in Nat
      BY <2>1, <2>2, FewerAreLess
    <2>6. HouseHourly > 0 =>
             SumOf(Amount, UnseenTheirs) + SumOf(Amount, WouldPass)
               <= HouseHourly + (MaxAsking - 1) * Threshold + PaidIn
      BY DEF RulesInv, HouseStands
    <2>7. HouseHourly + (MaxAsking - 1) * Threshold \in Nat
      BY RuleTypes
    <2>8. SumOf(Amount, WouldPass') = SumOf(Amount, WouldPass)
      BY <2>2
    <2> QED BY <2>3, <2>4, <2>5, <2>6, <2>7, <2>8 DEF HouseStands
  <1> QED BY <1>2, <1>3, <1>4 DEF RulesInv

-----------------------------------------------------------------------------
(* What is read with a request covers all that was let go unseen.           *)
LEMMA FactsCover ==
    ASSUME RulesOK, FiniteRules, RulesTypeOK, NEW w \in Withdrawals
    PROVE  /\ Facts(w) \in FactsRead
           /\ Facts(w).deposited = deposited[Owner[w]]
           /\ UnseenOf(Owner[w]) <= Facts(w).withdrawn
           /\ SumOf(Amount, UnseenTheirs) - PaidIn <= Facts(w).flow
  <1> DEFINE p == Owner[w]
             counted == {x \in Of(p) : status[x] \notin {"none", "failed", "rejected"}}
             sent == {x \in Withdrawals : Owner[x] \notin Staff /\ Sent(x)}
  <1>1. p \in Users
    BY RuleTypes
  <1>2. counted \in SUBSET Withdrawals /\ sent \in SUBSET Withdrawals
    BY DEF Of
  <1>3. Withdrawn(p) = SumOf(Amount, counted)
    BY <1>2, TotalIsSum DEF Withdrawn
  <1>4. HouseFlow = SumOf(Amount, sent) - PaidIn
    <2>1. HouseFlow = Total(sent) - SumOver(Users \ Staff, LAMBDA q : deposited[q])
      BY DEF HouseFlow
    <2> HIDE DEF sent
    <2> QED BY <2>1, <1>2, TotalIsSum, PaidInIsSum
  <1>5. Unseen(Of(p)) \in SUBSET counted
    BY DEF Unseen, Sent
  <1>6. UnseenTheirs \in SUBSET sent
    BY DEF Unseen, UnseenTheirs
  <1>7. PaidIn \in Nat /\ deposited[p] \in Nat
    BY <1>1, PaidInIsSum DEF RulesTypeOK
  <1> HIDE DEF counted, sent
  <1>8. /\ SumOf(Amount, Unseen(Of(p))) <= SumOf(Amount, counted)
        /\ SumOf(Amount, UnseenTheirs) <= SumOf(Amount, sent)
        /\ SumOf(Amount, counted) \in Nat /\ SumOf(Amount, sent) \in Nat
        /\ SumOf(Amount, UnseenTheirs) \in Nat
    BY <1>2, <1>5, <1>6, FewerAreLess
  <1>9. Facts(w) = [read |-> TRUE, withdrawn |-> SumOf(Amount, counted),
                    deposited |-> deposited[p], flow |-> SumOf(Amount, sent) - PaidIn,
                    held |-> p \in hold]
    BY <1>3, <1>4 DEF Facts
  <1> QED BY <1>7, <1>8, <1>9 DEF FactsRead, UnseenOf

(* The requests beside one that is about to be read.                        *)
LEMMA OthersAreFew ==
    ASSUME RulesOK, FiniteRules, Cardinality(Asking) < MaxAsking
    PROVE  /\ SumOf(Amount, WouldPass) <= (MaxAsking - 1) * Threshold
           /\ SumOf(Amount, WouldPass) \in Nat
  <1>1. WouldPass \in SUBSET Asking /\ Asking \in SUBSET Withdrawals
    BY DEF WouldPass, Asking
  <1>2. IsFiniteSet(WouldPass) /\ IsFiniteSet(Asking) /\ SumOf(Amount, WouldPass) \in Nat
    BY <1>1, TotalIsSum
  <1>3. Cardinality(WouldPass) <= Cardinality(Asking)
        /\ Cardinality(WouldPass) \in Nat /\ Cardinality(Asking) \in Nat
    BY <1>1, <1>2, FS_Subset, FS_CardinalityType
  <1>4. \A x \in WouldPass : Amount[x] \in 0..Threshold
    BY <1>1, RuleTypes DEF WouldPass
  <1>5. SumOf(Amount, WouldPass) <= Cardinality(WouldPass) * Threshold
    BY <1>2, <1>4, RuleTypes, SumAtMost
  <1>6. Cardinality(WouldPass) <= MaxAsking - 1
    BY <1>3, RuleTypes
  <1>7. \A a, b, c \in Nat : a <= b => a * c <= b * c
    OBVIOUS
  <1>8. Cardinality(WouldPass) * Threshold <= (MaxAsking - 1) * Threshold
    BY <1>3, <1>6, <1>7, RuleTypes
  <1>9. /\ Cardinality(WouldPass) * Threshold \in Nat
        /\ (MaxAsking - 1) * Threshold \in Nat
    BY <1>3, RuleTypes
  <1> QED BY <1>2, <1>5, <1>8, <1>9

LEMMA AskKeeps ==
    ASSUME RulesOK, FiniteRules, RulesInv, NEW w \in Withdrawals, Ask(w)
    PROVE  RulesInv'
  <1>1. /\ status[w] = "none" /\ facts' = [facts EXCEPT ![w] = Facts(w)]
        /\ UNCHANGED <<status, funding, approved, cooling, deposited, won, hold, holdAll, missed,
                       monitorVars>>
        /\ Cardinality(Asking) < MaxAsking
    BY DEF Ask, Asking
  <1>2. Facts(w) \in FactsRead
    BY FactsCover DEF RulesInv
  <1>3. /\ facts \in [Withdrawals -> FactsRead] /\ facts'[w] = Facts(w)
        /\ \A x \in Withdrawals \ {w} : facts'[x] = facts[x]
    BY <1>1 DEF RulesInv, RulesTypeOK
  <1>4. RulesTypeOK'
    BY <1>1, <1>2 DEF RulesInv, RulesTypeOK, monitorVars
  <1>5. /\ \A p : UnseenOf(p)' = UnseenOf(p)
        /\ UnseenTheirs' = UnseenTheirs /\ PaidIn' = PaidIn
    BY <1>1 DEF UnseenOf, UnseenTheirs, Unseen, Sent, PaidIn
  <1>6. FactsStand'
    <2> SUFFICES ASSUME NEW x \in Withdrawals, facts'[x].read
                 PROVE  /\ status'[x] = "none"
                        /\ facts'[x].deposited <= deposited'[Owner[x]]
                        /\ Owner[x] \notin cooling' => UnseenOf(Owner[x])' <= facts'[x].withdrawn
      BY DEF FactsStand
    <2>1. CASE x = w
      <3>1. Facts(w).deposited = deposited[Owner[w]] /\ UnseenOf(Owner[w]) <= Facts(w).withdrawn
        BY FactsCover DEF RulesInv
      <3>2. deposited[Owner[w]] \in Nat
        BY RuleTypes DEF RulesInv, RulesTypeOK
      <3> QED BY <2>1, <3>1, <3>2, <1>1, <1>3, <1>5
    <2>2. CASE x # w
      BY <2>2, <1>1, <1>3, <1>5 DEF RulesInv, FactsStand
    <2> QED BY <2>1, <2>2
  <1>7. HoldStands' /\ AllowanceStands'
    BY <1>1, <1>5 DEF RulesInv, HoldStands, Funded, Bound, AllowanceStands
  <1>8. HouseStands'
    <2> SUFFICES ASSUME HouseHourly > 0
                 PROVE  SumOf(Amount, UnseenTheirs) + SumOf(Amount, WouldPass')
                          <= HouseHourly + (MaxAsking - 1) * Threshold + PaidIn
      BY <1>5 DEF HouseStands
    <2>1. /\ UnseenTheirs \in SUBSET Withdrawals /\ WouldPass \in SUBSET Withdrawals
          /\ WouldPass' \in SUBSET (WouldPass \cup {w})
      BY <1>3 DEF UnseenTheirs, Unseen, WouldPass, Asking
    <2>2. SumOf(Amount, UnseenTheirs) \in Nat /\ SumOf(Amount, WouldPass) \in Nat
      BY <2>1, TotalIsSum
    <2>3. PaidIn \in Nat /\ HouseHourly \in Nat /\ (MaxAsking - 1) * Threshold \in Nat
      BY PaidInIsSum, RuleTypes DEF RulesInv
    <2>4. SumOf(Amount, UnseenTheirs) + SumOf(Amount, WouldPass)
            <= HouseHourly + (MaxAsking - 1) * Threshold + PaidIn
      BY DEF RulesInv, HouseStands
    <2>5. CASE w \in WouldPass'
      <3>1. Facts(w).flow + Amount[w] <= HouseHourly
        BY <2>5, <1>3 DEF WouldPass
      <3>2. SumOf(Amount, UnseenTheirs) - PaidIn <= Facts(w).flow
        BY FactsCover DEF RulesInv
      <3>3. Facts(w).flow \in Int /\ Amount[w] \in Nat
        BY <1>2, RuleTypes DEF FactsRead
      <3>4. SumOf(Amount, WouldPass \cup {w}) <= SumOf(Amount, WouldPass) + Amount[w]
        BY <2>1, OneMoreIsMore
      <3>5. WouldPass \cup {w} \in SUBSET Withdrawals
        BY <2>1
      <3>6. /\ SumOf(Amount, WouldPass') <= SumOf(Amount, WouldPass \cup {w})
            /\ SumOf(Amount, WouldPass') \in Nat /\ SumOf(Amount, WouldPass \cup {w}) \in Nat
        BY <2>1, <3>5, FewerAreLess
      <3>7. SumOf(Amount, WouldPass) <= (MaxAsking - 1) * Threshold
        BY <1>1, OthersAreFew
      <3> QED BY <2>2, <2>3, <3>1, <3>2, <3>3, <3>4, <3>6, <3>7
    <2>6. CASE w \notin WouldPass'
      <3>1. WouldPass' \in SUBSET WouldPass
        BY <2>1, <2>6
      <3>2. SumOf(Amount, WouldPass') <= SumOf(Amount, WouldPass) /\ SumOf(Amount, WouldPass') \in Nat
        BY <2>1, <3>1, FewerAreLess
      <3> QED BY <2>2, <2>3, <2>4, <3>2
    <2> QED BY <2>5, <2>6
  <1> QED BY <1>4, <1>6, <1>7, <1>8 DEF RulesInv

(* The request is refused, or judged by what was read with it.              *)
LEMMA CreateKeeps ==
    ASSUME RulesOK, FiniteRules, RulesInv, NEW w \in Withdrawals, Create(w)
    PROVE  RulesInv'
  <1> DEFINE p == Owner[w]
             passes == MayCreate(w) /\ ~NeedsReview(w, facts[w], IsHeld(w))
  <1>1. /\ facts[w].read /\ facts' = [facts EXCEPT ![w] = NoFacts]
        /\ UNCHANGED <<approved, deposited, won, hold, holdAll, missed, monitorVars>>
        /\ MayCreate(w) => cooling' = cooling \cup {p}
        /\ MayCreate(w) /\ ~passes =>
             status' = [status EXCEPT ![w] = "pending_approval"] /\ UNCHANGED funding
        /\ passes => QueueJob(w)
        /\ ~MayCreate(w) => UNCHANGED <<status, funding, cooling>>
    BY DEF Create
  <1>2. /\ p \in Users /\ facts \in [Withdrawals -> FactsRead] /\ status \in [Withdrawals -> Statuses]
        /\ funding \in [Withdrawals -> Fundings]
        /\ deposited \in [Users -> Nat] /\ cooling \subseteq Users
    BY RuleTypes DEF RulesInv, RulesTypeOK
  <1>3. /\ facts'[w] = NoFacts /\ ~facts'[w].read
        /\ \A x \in Withdrawals \ {w} : facts'[x] = facts[x]
    BY <1>1, <1>2 DEF NoFacts
  <1>4. RulesTypeOK'
    <2>1. NoFacts \in FactsRead
      BY DEF NoFacts, FactsRead
    <2>2. /\ status' \in [Withdrawals -> Statuses] /\ cooling' \subseteq Users
          /\ funding' \in [Withdrawals -> Fundings]
      BY <1>1, <1>2 DEF Statuses, Fundings, QueueJob
    <2> QED BY <1>1, <1>2, <2>1, <2>2 DEF RulesInv, RulesTypeOK, monitorVars
  <1>5. /\ status[w] = "none" /\ funding[w] # "vault"
        /\ \A x \in Withdrawals \ {w} : status'[x] = status[x] /\ funding'[x] = funding[x]
    BY <1>1, <1>2 DEF RulesInv, FactsStand, HoldStands, Funded, QueueJob
  <1>6. ~passes => ~Sent(w)' /\ status'[w] \in {"none", "pending_approval"} /\ funding' = funding
    BY <1>1, <1>2, <1>5 DEF Sent
  <1>7. \A S \in SUBSET Withdrawals :
            /\ Unseen(S)' \subseteq Unseen(S) \cup {w}
            /\ ~passes \/ w \notin S => Unseen(S)' \subseteq Unseen(S)
    BY <1>1, <1>5, <1>6 DEF Unseen, Sent
  <1>8. /\ Of(p) \in SUBSET Withdrawals /\ \A q : Of(q) \in SUBSET Withdrawals
        /\ \A q : q # p => w \notin Of(q)
    BY DEF Of
  <1> HIDE DEF passes
  <1>9. ASSUME NEW q \in Users, ~passes \/ q # p
        PROVE  UnseenOf(q)' <= UnseenOf(q) /\ UnseenOf(q)' \in Nat /\ UnseenOf(q) \in Nat
    <2>1. Unseen(Of(q))' \in SUBSET Unseen(Of(q))
      <3>1. Unseen(Of(q))' = {x \in Of(q) : Sent(x)' /\ x \notin approved'}
        BY DEF Unseen, Of
      <3> QED BY <1>7, <1>8, <1>9 DEF Unseen, Of
    <2>2. Unseen(Of(q)) \in SUBSET Withdrawals
      BY <1>8 DEF Unseen
    <2> QED BY <2>1, <2>2, FewerAreLess DEF UnseenOf
  <1>10. UnseenOf(p)' <= UnseenOf(p) + Amount[w] /\ UnseenOf(p)' \in Nat /\ UnseenOf(p) \in Nat
    <2>1. Unseen(Of(p))' \in SUBSET (Unseen(Of(p)) \cup {w})
      BY <1>7, <1>8 DEF Unseen, Of
    <2>2. Unseen(Of(p)) \in SUBSET Withdrawals /\ Unseen(Of(p)) \cup {w} \in SUBSET Withdrawals
      BY <1>8 DEF Unseen
    <2>3. /\ SumOf(Amount, Unseen(Of(p))') <= SumOf(Amount, Unseen(Of(p)) \cup {w})
          /\ SumOf(Amount, Unseen(Of(p))') \in Nat
          /\ SumOf(Amount, Unseen(Of(p)) \cup {w}) \in Nat
      BY <2>1, <2>2, FewerAreLess
    <2>4. SumOf(Amount, Unseen(Of(p)) \cup {w}) <= SumOf(Amount, Unseen(Of(p))) + Amount[w]
      BY <2>2, OneMoreIsMore
    <2>5. SumOf(Amount, Unseen(Of(p))) \in Nat /\ Amount[w] \in Nat
      BY <2>2, TotalIsSum, RuleTypes
    <2> QED BY <2>3, <2>4, <2>5 DEF UnseenOf
  <1>11. FactsStand'
    <2> SUFFICES ASSUME NEW x \in Withdrawals, facts'[x].read
                 PROVE  /\ status'[x] = "none"
                        /\ facts'[x].deposited <= deposited'[Owner[x]]
                        /\ Owner[x] \notin cooling' => UnseenOf(Owner[x])' <= facts'[x].withdrawn
      BY DEF FactsStand
    <2>1. x # w /\ facts'[x] = facts[x] /\ facts[x].read /\ status'[x] = status[x]
      BY <1>3, <1>5
    <2>2. /\ status[x] = "none" /\ facts[x].deposited <= deposited[Owner[x]]
          /\ Owner[x] \notin cooling => UnseenOf(Owner[x]) <= facts[x].withdrawn
      BY <2>1 DEF RulesInv, FactsStand
    <2>3. Owner[x] \in Users /\ facts[x].withdrawn \in Nat
      BY <1>2, RuleTypes DEF FactsRead
    <2>4. ASSUME Owner[x] \notin cooling' PROVE UnseenOf(Owner[x])' <= facts[x].withdrawn
      <3>1. Owner[x] \notin cooling /\ (~passes \/ Owner[x] # p)
        BY <1>1, <2>4 DEF passes
      <3>2. /\ UnseenOf(Owner[x])' <= UnseenOf(Owner[x])
            /\ UnseenOf(Owner[x])' \in Nat /\ UnseenOf(Owner[x]) \in Nat
        BY <3>1, <2>3, <1>9
      <3> QED BY <3>1, <3>2, <2>2, <2>3
    <2> QED BY <2>1, <2>2, <2>4, <1>1
  <1>12. HoldStands'
    <2> SUFFICES ASSUME NEW x \in Withdrawals
                 PROVE  /\ Funded(x)'
                        /\ Owner[x] \in hold /\ Bound(x)' => x \in approved \cup missed
      BY <1>1 DEF HoldStands
    <2>1. CASE x = w /\ ~passes
      BY <1>5, <1>6, <2>1 DEF Funded, Bound
    <2>2. CASE x = w /\ passes
      <3>1. Owner[w] \notin hold
        BY <2>2 DEF passes, NeedsReview, IsHeld
      <3>2. Funded(w)'
        BY <1>1, <1>2, <1>5, <2>2 DEF QueueJob, Funded
      <3> QED BY <2>2, <3>1, <3>2
    <2>3. CASE x # w
      BY <1>5, <2>3 DEF RulesInv, HoldStands, Funded, Bound
    <2> QED BY <2>1, <2>2, <2>3
  <1>13. AllowanceStands'
    <2> SUFFICES ASSUME NetCashout > 0, NEW q \in Users \ Staff
                 PROVE  UnseenOf(q)' <= deposited[q] + NetCashout
      BY <1>1 DEF AllowanceStands
    <2>1. UnseenOf(q) <= deposited[q] + NetCashout
      BY DEF RulesInv, AllowanceStands
    <2>2. deposited[q] \in Nat /\ NetCashout \in Nat
      BY <1>2, RuleTypes
    <2>3. CASE ~passes \/ q # p
      BY <1>9, <2>1, <2>2, <2>3
    <2>4. CASE passes /\ q = p
      <3>1. facts[w].withdrawn + Amount[w] - facts[w].deposited <= NetCashout
        <4>1. ~(facts[w].withdrawn + Amount[w] - facts[w].deposited > NetCashout)
          BY <2>4 DEF passes, NeedsReview
        <4> QED BY <4>1, <1>2, <2>2, RuleTypes DEF FactsRead
      <3>2. p \notin cooling
        BY <2>4 DEF passes, MayCreate
      <3>3. UnseenOf(p) <= facts[w].withdrawn /\ facts[w].deposited <= deposited[p]
        BY <1>1, <3>2 DEF RulesInv, FactsStand
      <3>4. facts[w].withdrawn \in Nat /\ facts[w].deposited \in Nat /\ Amount[w] \in Nat
        BY <1>2, RuleTypes DEF FactsRead
      <3> QED BY <1>10, <2>2, <2>4, <3>1, <3>3, <3>4
    <2> QED BY <2>3, <2>4
  <1>14. HouseStands'
    <2> SUFFICES ASSUME HouseHourly > 0
                 PROVE  SumOf(Amount, UnseenTheirs') + SumOf(Amount, WouldPass')
                          <= HouseHourly + (MaxAsking - 1) * Threshold + PaidIn
      BY <1>1 DEF HouseStands, PaidIn
    <2>1. /\ UnseenTheirs \in SUBSET Withdrawals /\ WouldPass \in SUBSET Withdrawals
          /\ WouldPass' \in SUBSET (WouldPass \ {w})
      BY <1>3 DEF UnseenTheirs, Unseen, WouldPass, Asking
    <2>2. /\ SumOf(Amount, UnseenTheirs) \in Nat /\ SumOf(Amount, WouldPass) \in Nat
          /\ IsFiniteSet(WouldPass)
      BY <2>1, TotalIsSum
    <2>3. PaidIn \in Nat /\ HouseHourly \in Nat /\ (MaxAsking - 1) * Threshold \in Nat
      BY PaidInIsSum, RuleTypes DEF RulesInv
    <2>4. SumOf(Amount, UnseenTheirs) + SumOf(Amount, WouldPass)
            <= HouseHourly + (MaxAsking - 1) * Threshold + PaidIn
      BY DEF RulesInv, HouseStands
    <2>5. CASE passes /\ p \notin Staff
      <3>1. w \in WouldPass
        <4>1. Amount[w] <= Threshold /\ facts[w].flow + Amount[w] <= HouseHourly
          <5>1. ~(Amount[w] > Threshold) /\ ~(facts[w].flow + Amount[w] > HouseHourly)
            BY <2>5 DEF passes, NeedsReview
          <5> QED BY <5>1, <1>2, RuleTypes DEF FactsRead
        <4> QED BY <4>1, <1>1, <2>5 DEF WouldPass, Asking
      <3>2. \A x \in WouldPass : Amount[x] \in Nat
        BY <2>1, RuleTypes
      <3>3. SumOf(Amount, WouldPass) = Amount[w] + SumOf(Amount, WouldPass \ {w})
        BY <2>2, <3>1, <3>2, SumSplits
      <3>4. WouldPass \ {w} \in SUBSET Withdrawals
        BY <2>1
      <3>5. /\ SumOf(Amount, WouldPass') <= SumOf(Amount, WouldPass \ {w})
            /\ SumOf(Amount, WouldPass') \in Nat /\ SumOf(Amount, WouldPass \ {w}) \in Nat
        BY <2>1, <3>4, FewerAreLess
      <3>6. UnseenTheirs' \in SUBSET (UnseenTheirs \cup {w})
        BY <1>7 DEF UnseenTheirs, Unseen
      <3>7. UnseenTheirs \cup {w} \in SUBSET Withdrawals
        BY <2>1
      <3>8. /\ SumOf(Amount, UnseenTheirs') <= SumOf(Amount, UnseenTheirs \cup {w})
            /\ SumOf(Amount, UnseenTheirs') \in Nat /\ SumOf(Amount, UnseenTheirs \cup {w}) \in Nat
        BY <3>6, <3>7, FewerAreLess
      <3>9. SumOf(Amount, UnseenTheirs \cup {w}) <= SumOf(Amount, UnseenTheirs) + Amount[w]
        BY <2>1, OneMoreIsMore
      <3>10. Amount[w] \in Nat
        BY RuleTypes
      <3> QED BY <2>2, <2>3, <2>4, <3>3, <3>5, <3>8, <3>9, <3>10
    <2>6. CASE ~passes \/ p \in Staff
      <3>1. UnseenTheirs' \in SUBSET UnseenTheirs
        <4>1. ~passes => Unseen(Withdrawals)' \subseteq Unseen(Withdrawals)
          BY <1>7
        <4>2. Unseen(Withdrawals)' \subseteq Unseen(Withdrawals) \cup {w}
          BY <1>7
        <4> QED BY <2>6, <4>1, <4>2 DEF UnseenTheirs
      <3>2. WouldPass' \in SUBSET WouldPass
        BY <2>1
      <3>3. /\ SumOf(Amount, UnseenTheirs') <= SumOf(Amount, UnseenTheirs)
            /\ SumOf(Amount, UnseenTheirs') \in Nat
            /\ SumOf(Amount, WouldPass') <= SumOf(Amount, WouldPass)
            /\ SumOf(Amount, WouldPass') \in Nat
        BY <2>1, <3>1, <3>2, FewerAreLess
      <3> QED BY <2>2, <2>3, <2>4, <3>3
    <2> QED BY <2>5, <2>6
  <1> QED BY <1>4, <1>11, <1>12, <1>13, <1>14 DEF RulesInv

-----------------------------------------------------------------------------
(* The steps that let nothing go unseen                                     *)

(* A cooldown that ends is of a player with no request under way.           *)
LEMMA CooldownKeeps ==
    ASSUME RulesOK, FiniteRules, RulesInv, NEW p \in Users, CooldownEnds(p)
    PROVE  RulesInv'
  <1>1. /\ cooling' = cooling \ {p} /\ \A w \in Of(p) : ~facts[w].read
        /\ UNCHANGED <<status, funding, approved, facts, deposited, won, hold, holdAll, missed,
                       monitorVars>>
    BY DEF CooldownEnds
  <1>2. RulesTypeOK' /\ HoldStands'
    BY <1>1 DEF RulesInv, RulesTypeOK, HoldStands, Funded, Bound, monitorVars
  <1>3. \A w \in Withdrawals : facts[w].read /\ Owner[w] \in cooling => Owner[w] \in cooling'
    BY <1>1 DEF Of
  <1>4. \A q \in Users : deposited[q] <= deposited'[q]
    BY <1>1 DEF RulesInv, RulesTypeOK
  <1>5. \A w \in Withdrawals : Sent(w)' => Sent(w)
    BY <1>1 DEF Sent
  <1> QED BY <1>1, <1>2, <1>3, <1>4, <1>5, QuietStepKeeps

(* One withdrawal moves: none is created, it is on its way only if it was   *)
(* or an operator has approved it, and its money is where the status says.  *)
OneMoves(w) ==
    /\ status' \in [Withdrawals -> Statuses] /\ funding' \in [Withdrawals -> Fundings]
    /\ \A x \in Withdrawals \ {w} : status'[x] = status[x] /\ funding'[x] = funding[x]
    /\ status[w] # "none" /\ approved' \in {approved, approved \cup {w}}
    /\ Sent(w)' => Sent(w) \/ w \in approved'
    /\ Bound(w)' => Bound(w) \/ w \in approved'
    /\ Funded(w)'

LEMMA OneMoved ==
    ASSUME RulesInv, NEW w \in Withdrawals,
           \/ Claim(w) \/ Settle(w) \/ ReportAfterLease(w) \/ SettleLate(w)
           \/ Release(w) \/ GiveUpRelease(w)
           \/ Quarantine(w) \/ RetryRelease(w) \/ Resolve(w) \/ Approve(w) \/ Reject(w)
    PROVE  OneMoves(w)
  <1>1. /\ status \in [Withdrawals -> Statuses] /\ funding \in [Withdrawals -> Fundings]
        /\ Funded(w)
    BY DEF RulesInv, RulesTypeOK, HoldStands
  <1>2. CASE Claim(w)
    BY <1>1, <1>2 DEF Claim, Move, OneMoves, Sent, Bound, Funded, Statuses
  <1>3. CASE Settle(w)
    BY <1>1, <1>3 DEF Settle, Move, OneMoves, Sent, Bound, Funded, Statuses
  <1>4. CASE ReportAfterLease(w)
    BY <1>1, <1>4 DEF ReportAfterLease, Move, OneMoves, Sent, Bound, Funded, Statuses
  <1>5. CASE SettleLate(w)
    BY <1>1, <1>5 DEF SettleLate, Move, OneMoves, Sent, Bound, Funded, Statuses
  <1>6. CASE Release(w)
    BY <1>1, <1>6 DEF Release, Move, OneMoves, Sent, Bound, Funded, Statuses, Fundings
  <1>7. CASE GiveUpRelease(w)
    BY <1>1, <1>7 DEF GiveUpRelease, Move, OneMoves, Sent, Bound, Funded, Statuses
  <1>8. CASE Quarantine(w)
    BY <1>1, <1>8 DEF Quarantine, Move, OneMoves, Sent, Bound, Funded, Statuses
  <1>9. CASE RetryRelease(w)
    BY <1>1, <1>9 DEF RetryRelease, Move, OneMoves, Sent, Bound, Funded, Statuses
  <1>10. CASE Resolve(w)
    BY <1>1, <1>10 DEF Resolve, Move, OneMoves, Sent, Bound, Funded, Statuses
  <1>11. CASE Approve(w)
    BY <1>1, <1>11 DEF Approve, QueueJob, OneMoves, Sent, Bound, Funded, Statuses, Fundings
  <1>12. CASE Reject(w)
    BY <1>1, <1>12 DEF Reject, Move, OneMoves, Sent, Bound, Funded, Statuses
  <1> QED BY <1>2, <1>3, <1>4, <1>5, <1>6, <1>7, <1>8, <1>9, <1>10, <1>11, <1>12

(* The bot takes up a payout and settles it or returns it, the vault funds  *)
(* one, late news and operators settle one: approved is seen.               *)
LEMMA PayoutMoveKeeps ==
    ASSUME RulesOK, FiniteRules, RulesInv, NEW w \in Withdrawals,
           \/ Claim(w) \/ Settle(w) \/ ReportAfterLease(w) \/ SettleLate(w)
           \/ Release(w) \/ GiveUpRelease(w)
           \/ Quarantine(w) \/ RetryRelease(w) \/ Resolve(w) \/ Approve(w) \/ Reject(w)
    PROVE  RulesInv'
  <1>1. UNCHANGED <<facts, cooling, deposited, won, hold, holdAll, missed, monitorVars>>
    BY DEF Claim, Settle, ReportAfterLease, SettleLate, Release, GiveUpRelease, Quarantine,
           RetryRelease, Resolve, Approve, Reject, Move, Aside
  <1>2. OneMoves(w)
    BY OneMoved
  <1>3. /\ status' \in [Withdrawals -> Statuses] /\ funding' \in [Withdrawals -> Fundings]
        /\ \A x \in Withdrawals \ {w} : status'[x] = status[x] /\ funding'[x] = funding[x]
        /\ status[w] # "none" /\ approved' \in {approved, approved \cup {w}}
    BY <1>2 DEF OneMoves
  <1>4. RulesTypeOK'
    BY <1>1, <1>3 DEF RulesInv, RulesTypeOK, monitorVars
  <1>5. HoldStands'
    <2> SUFFICES ASSUME NEW x \in Withdrawals
                 PROVE  /\ Funded(x)'
                        /\ Owner[x] \in hold /\ Bound(x)' => x \in approved' \cup missed
      BY <1>1 DEF HoldStands
    <2>1. Funded(x) /\ (Owner[x] \in hold /\ Bound(x) => x \in approved \cup missed)
      BY DEF RulesInv, HoldStands
    <2>2. CASE x = w
      BY <1>2, <1>3, <2>1, <2>2 DEF OneMoves
    <2>3. CASE x # w
      BY <1>3, <2>1, <2>3 DEF Funded, Bound
    <2> QED BY <2>2, <2>3
  <1>6. \A x \in Withdrawals : Sent(x)' /\ x \notin approved' => Sent(x) /\ x \notin approved
    BY <1>2, <1>3 DEF OneMoves, Sent
  <1>7. \A q \in Users : deposited[q] <= deposited'[q]
    BY <1>1 DEF RulesInv, RulesTypeOK
  <1> QED BY <1>1, <1>3, <1>4, <1>5, <1>6, <1>7, QuietStepKeeps

(* What is pulled back waits for an operator, and no approval outlives it;  *)
(* what is left of it on its way is with the bot or has a vault's money.    *)
LEMMA PulledBack ==
    ASSUME RulesInv, NEW S \in SUBSET Withdrawals, PullBack(S)
    PROVE  /\ status' \in [Withdrawals -> Statuses] /\ approved' \subseteq Withdrawals
           /\ funding' = funding
           /\ \A w \in Withdrawals :
                /\ Sent(w)' /\ w \notin approved' => Sent(w) /\ w \notin approved
                /\ status[w] = "none" => status'[w] = "none"
                /\ Funded(w)'
                /\ Bound(w)' => Bound(w) /\ (w \in approved => w \in approved')
                /\ Bound(w)' /\ w \in S => status[w] = "processing" \/ funding[w] # "float"
  <1>1. /\ status \in [Withdrawals -> Statuses] /\ approved \subseteq Withdrawals
        /\ \A w \in Withdrawals : Funded(w)
    BY DEF RulesInv, RulesTypeOK, HoldStands
  <1> DEFINE back == {x \in S : Holdable(x)}
  <1>2. /\ status' = [x \in Withdrawals |-> IF x \in back THEN "pending_approval" ELSE status[x]]
        /\ approved' = approved \ back /\ funding' = funding
    BY DEF PullBack
  <1>3. status' \in [Withdrawals -> Statuses] /\ approved' \subseteq Withdrawals
    BY <1>1, <1>2 DEF Statuses
  <1>4. ASSUME NEW w \in Withdrawals
        PROVE  /\ Sent(w)' /\ w \notin approved' => Sent(w) /\ w \notin approved
               /\ status[w] = "none" => status'[w] = "none"
               /\ Funded(w)'
               /\ Bound(w)' => Bound(w) /\ (w \in approved => w \in approved')
               /\ Bound(w)' /\ w \in S => status[w] = "processing" \/ funding[w] # "float"
    <2>1. CASE w \in back
      <3>1. status'[w] = "pending_approval" /\ status[w] = "queued"
        BY <1>2, <2>1 DEF Holdable
      <3> QED BY <1>1, <1>2, <3>1 DEF Sent, Bound, Funded
    <2>2. CASE w \notin back
      <3>1. status'[w] = status[w] /\ (w \in approved => w \in approved') /\ (w \in approved' => w \in approved)
        BY <1>2, <2>2
      <3>2. w \in S => ~(status[w] = "queued" /\ funding[w] = "float")
        BY <2>2 DEF Holdable
      <3> QED BY <1>1, <1>2, <3>1, <3>2 DEF Sent, Bound, Funded
    <2> QED BY <2>1, <2>2
  <1> HIDE DEF back
  <1> QED BY <1>2, <1>3, <1>4

(* A pull-back, be it with a hold, of whose player it takes all it can, and *)
(* notes what it cannot.                                                    *)
LEMMA PullBackKeeps ==
    ASSUME RulesOK, FiniteRules, RulesInv, NEW S \in SUBSET Withdrawals, PullBack(S),
           UNCHANGED <<facts, cooling, deposited, won, holdAll>>,
           hold' \subseteq Users, missed' \subseteq Withdrawals,
           \A w \in Withdrawals \ S : Owner[w] \in hold' => Owner[w] \in hold,
           \A w \in missed : w \in missed' \/ w \in S,
           \/ UNCHANGED <<hold, missed>>
           \/ \A w \in S : status[w] = "processing" \/ funding[w] # "float" => w \in missed',
           toHold' \subseteq Users \ Staff, pass' \in {"idle", "holding", "tripping"},
           toHold' # {} => pass' = "holding"
    PROVE  RulesInv'
  <1>1. RulesTypeOK'
    BY PulledBack DEF RulesInv, RulesTypeOK
  <1>2. HoldStands'
    <2> SUFFICES ASSUME NEW w \in Withdrawals
                 PROVE  /\ Funded(w)'
                        /\ Owner[w] \in hold' /\ Bound(w)' => w \in approved' \cup missed'
      BY DEF HoldStands
    <2>1. /\ Funded(w)'
          /\ Bound(w)' => Bound(w) /\ (w \in approved => w \in approved')
          /\ Bound(w)' /\ w \in S => status[w] = "processing" \/ funding[w] # "float"
      BY PulledBack
    <2>2. Owner[w] \in hold /\ Bound(w) => w \in approved \cup missed
      BY DEF RulesInv, HoldStands
    <2>3. CASE w \in S
      BY <2>1, <2>2, <2>3
    <2>4. CASE w \notin S
      BY <2>1, <2>2, <2>4
    <2> QED BY <2>1, <2>3, <2>4
  <1>3. \A q \in Users : deposited[q] <= deposited'[q]
    BY DEF RulesInv, RulesTypeOK
  <1> QED BY <1>1, <1>2, <1>3, PulledBack, QuietStepKeeps

LEMMA PlaceHoldKeeps ==
    ASSUME RulesOK, FiniteRules, RulesInv, NEW p \in Users, PlaceHold(p),
           UNCHANGED <<facts, cooling, deposited, won, holdAll>>,
           toHold' \subseteq Users \ Staff, pass' \in {"idle", "holding", "tripping"},
           toHold' # {} => pass' = "holding"
    PROVE  RulesInv'
  <1>1. Of(p) \in SUBSET Withdrawals /\ \A w \in Withdrawals \ Of(p) : Owner[w] # p
    BY DEF Of
  <1>2. hold' = hold \cup {p} /\ PullBack(Of(p))
    BY DEF PlaceHold
  <1>3. /\ missed \subseteq Withdrawals /\ hold \subseteq Users
        /\ missed' = (missed \ Of(p))
                       \cup {w \in Of(p) : status[w] = "processing" \/ funding[w] # "float"}
    BY DEF PlaceHold, NoteMissed, RulesInv, RulesTypeOK
  <1>4. /\ hold' \subseteq Users /\ missed' \subseteq Withdrawals
        /\ \A w \in Withdrawals \ Of(p) : Owner[w] \in hold' => Owner[w] \in hold
        /\ \A w \in missed : w \in missed' \/ w \in Of(p)
        /\ \A w \in Of(p) : status[w] = "processing" \/ funding[w] # "float" => w \in missed'
    BY <1>1, <1>2, <1>3
  <1> QED BY <1>1, <1>2, <1>4, PullBackKeeps

(* Operators, who hold one payout, all of a player's or all there are.      *)
LEMMA HoldKeeps ==
    ASSUME RulesOK, FiniteRules, RulesInv,
           \/ \E w \in Withdrawals : HoldOne(w)
           \/ \E p \in Users : HoldPlayer(p)
           \/ HoldQueued
    PROVE  RulesInv'
  <1>0. /\ hold \subseteq Users /\ missed \subseteq Withdrawals /\ toHold \subseteq Users \ Staff
        /\ pass \in {"idle", "holding", "tripping"} /\ (toHold # {} => pass = "holding")
    BY DEF RulesInv, RulesTypeOK
  <1>1. CASE \E w \in Withdrawals : HoldOne(w)
    <2>1. PICK w \in Withdrawals : HoldOne(w)
      BY <1>1
    <2>2. {w} \in SUBSET Withdrawals
      OBVIOUS
    <2> QED BY <1>0, <2>1, <2>2, PullBackKeeps DEF HoldOne, Aside, monitorVars
  <1>2. CASE \E p \in Users : HoldPlayer(p)
    <2>1. PICK p \in Users : HoldPlayer(p)
      BY <1>2
    <2> QED BY <1>0, <2>1, PlaceHoldKeeps DEF HoldPlayer, monitorVars
  <1>3. CASE HoldQueued
    BY <1>0, <1>3, PullBackKeeps DEF HoldQueued, Aside, monitorVars
  <1> QED BY <1>1, <1>2, <1>3

(* The monitor, which holds the winners and pulls everything back when the  *)
(* house is at its limit.                                                   *)
LEMMA MonitorKeeps ==
    ASSUME RulesOK, FiniteRules, RulesInv, MonitorNext
    PROVE  RulesInv'
  <1>0. /\ hold \subseteq Users /\ missed \subseteq Withdrawals /\ toHold \subseteq Users \ Staff
        /\ pass \in {"idle", "holding", "tripping"} /\ (toHold # {} => pass = "holding")
    BY DEF RulesInv, RulesTypeOK
  <1>1. ASSUME Watch \/ CheckHouse PROVE RulesInv'
    <2>1. UNCHANGED <<requestVars, deposited, won, hold, holdAll, missed>>
      BY <1>1 DEF Watch, CheckHouse
    <2>2. Winners \subseteq Users \ Staff
      BY DEF Winners
    <2>3. RulesTypeOK' /\ HoldStands'
      BY <1>0, <1>1, <2>1, <2>2
         DEF Watch, CheckHouse, RulesInv, RulesTypeOK, HoldStands, Funded, Bound, requestVars
    <2>4. \A q \in Users : deposited[q] <= deposited'[q]
      BY <2>1 DEF RulesInv, RulesTypeOK
    <2>5. \A w \in Withdrawals : Sent(w)' => Sent(w)
      BY <2>1 DEF Sent, requestVars
    <2> QED BY <2>1, <2>3, <2>4, <2>5, QuietStepKeeps DEF requestVars
  <1>2. ASSUME NEW p \in Users, AutoHold(p) PROVE RulesInv'
    <2>1. /\ p \in toHold /\ toHold' = toHold \ {p} /\ pass' = pass
          /\ UNCHANGED <<facts, cooling, deposited, won, holdAll>>
      BY <1>2 DEF AutoHold
    <2>2. CASE p \in hold
      <3>1. UNCHANGED <<status, funding, approved, hold, missed>>
        BY <1>2, <2>2 DEF AutoHold
      <3>2. RulesTypeOK' /\ HoldStands'
        BY <1>0, <2>1, <3>1 DEF RulesInv, RulesTypeOK, HoldStands, Funded, Bound
      <3>3. \A q \in Users : deposited[q] <= deposited'[q]
        BY <2>1 DEF RulesInv, RulesTypeOK
      <3>4. \A w \in Withdrawals : Sent(w)' => Sent(w)
        BY <3>1 DEF Sent
      <3> QED BY <2>1, <3>1, <3>2, <3>3, <3>4, QuietStepKeeps
    <2>3. CASE p \notin hold
      <3>1. PlaceHold(p)
        BY <1>2, <2>3 DEF AutoHold
      <3> QED BY <1>0, <2>1, <3>1, PlaceHoldKeeps
    <2> QED BY <2>2, <2>3
  <1>3. ASSUME TripBreaker PROVE RulesInv'
    <2>1. toHold = {}
      BY <1>0, <1>3 DEF TripBreaker
    <2> QED BY <1>0, <1>3, <2>1, PullBackKeeps DEF TripBreaker
  <1> QED BY <1>1, <1>2, <1>3 DEF MonitorNext

(* Players pay in and play; an operator ends a hold or asks for all to be   *)
(* held that come next.                                                     *)
LEMMA OtherStepsKeep ==
    ASSUME RulesOK, FiniteRules, RulesInv,
           \/ \E p \in Users, n \in Deposits : PayIn(p, n)
           \/ \E p \in Users, n \in Prizes : Play(p, n)
           \/ \E p \in Users : ReleasePlayer(p)
           \/ SwitchHoldAll
    PROVE  RulesInv'
  <1>1. /\ UNCHANGED <<requestVars, monitorVars>>
        /\ hold' \subseteq hold /\ missed' \subseteq missed
        /\ \A w \in missed : Owner[w] \in hold' => w \in missed'
    BY DEF PayIn, Play, ReleasePlayer, SwitchHoldAll, Of
  <1>2. holdAll' \in BOOLEAN
    BY DEF PayIn, Play, ReleasePlayer, SwitchHoldAll, RulesInv, RulesTypeOK
  <1>3. won' \in [Users -> Nat]
    <2>1. won \in [Users -> Nat]
      BY DEF RulesInv, RulesTypeOK
    <2>2. CASE \E p \in Users, n \in Prizes : Play(p, n)
      <3>1. PICK p \in Users, n \in Prizes : /\ won[p] + n \in 0..MaxWon
                                            /\ won' = [won EXCEPT ![p] = @ + n]
        BY <2>2 DEF Play
      <3>2. won[p] + n \in Nat
        BY <3>1 DEF RulesOK
      <3> QED BY <2>1, <3>1, <3>2
    <2>3. CASE won' = won
      BY <2>1, <2>3
    <2> QED BY <2>2, <2>3 DEF PayIn, ReleasePlayer, SwitchHoldAll
  <1>4. deposited' \in [Users -> Nat] /\ \A q \in Users : deposited[q] <= deposited'[q]
    <2>1. deposited \in [Users -> Nat]
      BY DEF RulesInv, RulesTypeOK
    <2>2. CASE \E p \in Users, n \in Deposits : PayIn(p, n)
      <3>1. PICK p \in Users, n \in Nat : deposited' = [deposited EXCEPT ![p] = @ + n]
        BY <2>2, RuleTypes DEF PayIn
      <3> QED BY <2>1, <3>1
    <2>3. CASE deposited' = deposited
      BY <2>1, <2>3
    <2> QED BY <2>2, <2>3 DEF Play, ReleasePlayer, SwitchHoldAll
  <1>5. RulesTypeOK'
    BY <1>1, <1>2, <1>3, <1>4 DEF RulesInv, RulesTypeOK, requestVars, monitorVars
  <1>6. HoldStands'
    BY <1>1 DEF RulesInv, HoldStands, Funded, Bound, requestVars
  <1>7. \A w \in Withdrawals : Sent(w)' => Sent(w)
    BY <1>1 DEF Sent, requestVars
  <1> QED BY <1>1, <1>4, <1>5, <1>6, <1>7, QuietStepKeeps DEF requestVars

LEMMA RulesInitially == ASSUME RulesOK, FiniteRules, RulesInit PROVE RulesInv
  <1>1. /\ \A w \in Withdrawals : ~facts[w].read /\ status[w] = "none"
        /\ hold = {} /\ toHold = {} /\ \A p \in Users : deposited[p] = 0
    BY DEF RulesInit, NoFacts
  <1>2. RulesTypeOK
    <2>1. NoFacts \in FactsRead
      BY DEF NoFacts, FactsRead
    <2>2. /\ facts \in [Withdrawals -> FactsRead] /\ status \in [Withdrawals -> Statuses]
          /\ funding \in [Withdrawals -> Fundings]
          /\ deposited \in [Users -> Nat] /\ won \in [Users -> Nat]
      BY <2>1 DEF RulesInit, Statuses, Fundings
    <2> QED BY <2>2 DEF RulesInit, RulesTypeOK
  <1>3. /\ \A p : Unseen(Of(p)) = {}
        /\ UnseenTheirs = {} /\ WouldPass = {}
    BY <1>1 DEF Unseen, Of, Sent, UnseenTheirs, WouldPass, Asking
  <1>4. \A p : UnseenOf(p) = 0
    BY <1>3, SumOfNone DEF UnseenOf
  <1>5. SumOf(Amount, UnseenTheirs) = 0 /\ SumOf(Amount, WouldPass) = 0
    BY <1>3, SumOfNone
  <1>6. AllowanceStands
    BY <1>1, <1>4, RuleTypes DEF AllowanceStands
  <1>7. PaidIn \in Nat /\ HouseHourly \in Nat /\ (MaxAsking - 1) * Threshold \in Nat
    BY <1>2, PaidInIsSum, RuleTypes
  <1>8. HouseStands
    BY <1>5, <1>7 DEF HouseStands
  <1>9. HoldStands
    BY <1>1 DEF RulesInit, HoldStands, Funded, Bound
  <1> QED BY <1>1, <1>2, <1>6, <1>8, <1>9 DEF RulesInv, FactsStand

LEMMA RulesNextKeeps ==
    ASSUME RulesOK, FiniteRules, RulesInv, [RulesNext]_rulesVars
    PROVE  RulesInv'
  <1>1. ASSUME UNCHANGED rulesVars PROVE RulesInv'
    <2>1. UNCHANGED <<status, funding, approved, facts, cooling, deposited, won, hold, holdAll,
                      missed, pass, toHold>>
      BY <1>1 DEF rulesVars, requestVars, monitorVars
    <2>2. RulesTypeOK' /\ HoldStands'
      BY <2>1 DEF RulesInv, RulesTypeOK, HoldStands, Funded, Bound
    <2>3. \A q \in Users : deposited[q] <= deposited'[q]
      BY <2>1 DEF RulesInv, RulesTypeOK
    <2>4. \A w \in Withdrawals : Sent(w)' => Sent(w)
      BY <2>1 DEF Sent
    <2> QED BY <2>1, <2>2, <2>3, <2>4, QuietStepKeeps
  <1>2. ASSUME UserNext PROVE RulesInv'
    BY <1>2, AskKeeps, CreateKeeps, CooldownKeeps, OtherStepsKeep DEF UserNext
  <1>3. ASSUME PayoutNext PROVE RulesInv'
    BY <1>3, PayoutMoveKeeps DEF PayoutNext
  <1>4. ASSUME OperatorNext PROVE RulesInv'
    BY <1>4, PayoutMoveKeeps, HoldKeeps, OtherStepsKeep DEF OperatorNext
  <1> QED BY <1>1, <1>2, <1>3, <1>4, MonitorKeeps DEF RulesNext

(* The sums the invariant is about are those the properties name.           *)
LEMMA RulesFollow == ASSUME RulesOK, FiniteRules, RulesInv PROVE RulesHold
  <1>1. AllowanceKept
    <2> SUFFICES ASSUME NetCashout > 0, NEW p \in Users \ Staff
                 PROVE  Total(Unseen(Of(p))) <= deposited[p] + NetCashout
      BY DEF AllowanceKept
    <2>1. Unseen(Of(p)) \in SUBSET Withdrawals
      BY DEF Unseen, Of
    <2>2. Total(Unseen(Of(p))) = UnseenOf(p)
      BY <2>1, TotalIsSum DEF UnseenOf
    <2> QED BY <2>2 DEF RulesInv, AllowanceStands
  <1>2. HouseLimitKept
    <2> SUFFICES ASSUME HouseHourly > 0
                 PROVE  Total(UnseenTheirs) <= HouseHourly + (MaxAsking - 1) * Threshold
                          + SumOver(Users \ Staff, LAMBDA p : deposited[p])
      BY DEF HouseLimitKept, UnseenTheirs
    <2>1. UnseenTheirs \in SUBSET Withdrawals /\ WouldPass \in SUBSET Withdrawals
      BY DEF UnseenTheirs, Unseen, WouldPass, Asking
    <2>2. /\ Total(UnseenTheirs) = SumOf(Amount, UnseenTheirs)
          /\ SumOf(Amount, UnseenTheirs) \in Nat /\ SumOf(Amount, WouldPass) \in Nat
      BY <2>1, TotalIsSum
    <2>3. SumOver(Users \ Staff, LAMBDA p : deposited[p]) = PaidIn /\ PaidIn \in Nat
      BY PaidInIsSum DEF RulesInv
    <2>4. HouseHourly \in Nat /\ (MaxAsking - 1) * Threshold \in Nat
      BY RuleTypes
    <2>5. SumOf(Amount, UnseenTheirs) + SumOf(Amount, WouldPass)
            <= HouseHourly + (MaxAsking - 1) * Threshold + PaidIn
      BY DEF RulesInv, HouseStands
    <2> QED BY <2>2, <2>3, <2>4, <2>5
  <1>3. HoldHolds
    BY DEF RulesInv, HoldStands, HoldHolds, Bound
  <1> QED BY <1>1, <1>2, <1>3 DEF RulesInv, RulesHold

-----------------------------------------------------------------------------
(* Anti-drain rules: the theorems                                           *)

LEMMA RulesInductive == ASSUME RulesOK, FiniteRules PROVE RulesSpec => []RulesInv
  <1>1. RulesInit => RulesInv
    BY RulesInitially
  <1>2. RulesInv /\ [RulesNext]_rulesVars => RulesInv'
    BY RulesNextKeeps
  <1> QED BY <1>1, <1>2, PTL DEF RulesSpec

(* Type correctness of withdrawals, their money, facts, holds and the       *)
(* monitor's pass.                                                          *)
THEOREM RulesTypeCorrect == ASSUME RulesOK, FiniteRules PROVE RulesSpec => []RulesTypeOK
  <1>1. RulesInv => RulesTypeOK
    BY DEF RulesInv
  <1> QED BY <1>1, RulesInductive, PTL

(* The rules hold although they are judged by facts read before: nobody     *)
(* takes out more unseen than the deposits and the allowance; nothing of a  *)
(* held player is on its way to the bot that no operator has approved, but  *)
(* for what the bot had claimed or the vault had funded when the hold came, *)
(* which is handed out again when the bot returns it; and the house is not  *)
(* drained by more than its hourly limit, what came in, and a payout for    *)
(* each further request that may be under way at once.                      *)
THEOREM RulesAreKept == ASSUME RulesOK, FiniteRules PROVE RulesSpec => []RulesHold
  <1>1. RulesInv => RulesHold
    BY RulesFollow
  <1> QED BY <1>1, RulesInductive, PTL

=============================================================================
