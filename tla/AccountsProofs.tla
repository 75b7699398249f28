--------------------------- MODULE AccountsProofs ---------------------------
(* Start-up, for any markets and any number of restarts, and start-up and  *)
(* funding together, for any amounts, numbers and keys.                    *)
EXTENDS Accounts, AmountProofs, TLAPS

---------------------------------------------------------------------------
(* What a start leaves behind. *)

\* The markets that have been dealt with: prepared, or in trouble.
DealtWith ==
  \A m \in Market : m < at \/ step = "running" => m \in prepared \cup troubled

\* What the next call can rely on.
StepOK ==
  /\ step \in {"fetch", "hash", "send", "refetch"} /\ at # User => at \in watched
  /\ step = "refetch" => at \in chain
  /\ step = "market" => at # User

IInv == TypeOK /\ PreparedExist /\ OutcomeHasCause /\ RecreatesOnlyIfMisled
          /\ DealtWith /\ StepOK

\* Every start satisfies the inductive invariant at first.
LEMMA InitIInv == Init => IInv
BY StartUpAssumption
DEF Init, IInv, TypeOK, PreparedExist, OutcomeHasCause, RecreatesOnlyIfMisled, DealtWith,
    StepOK, User, Market, Account, Calls, Ended

\* Every call, and every restart, keeps it.
LEMMA NextIInv == IInv /\ [Next]_vars => IInv'
<1> SUFFICES ASSUME IInv, [Next]_vars PROVE IInv'
  OBVIOUS
<1> USE StartUpAssumption
      DEF IInv, TypeOK, PreparedExist, OutcomeHasCause, RecreatesOnlyIfMisled, DealtWith,
          StepOK, User, Market, Account, Calls, Ended, Trouble, StopWith
<1>1. CASE GetMarket  BY <1>1 DEF GetMarket
<1>2. CASE GetMarketErr  BY <1>2 DEF GetMarketErr, MoveOn
<1>3. CASE GetMarketMissing  BY <1>3 DEF GetMarketMissing
<1>4. CASE Fetch  BY <1>4 DEF Fetch, MoveOn
<1>5. CASE FetchMissing  BY <1>5 DEF FetchMissing
<1>6. CASE FetchStale  BY <1>6 DEF FetchStale
<1>7. CASE FetchErr  BY <1>7 DEF FetchErr
<1>8. CASE Hash  BY <1>8 DEF Hash
<1>9. CASE HashErr  BY <1>9 DEF HashErr
<1>10. CASE Send  BY <1>10 DEF Send
<1>11. CASE SendErr  BY <1>11 DEF SendErr, MoveOn
<1>12. CASE RefetchErr  BY <1>12 DEF RefetchErr
<1>13. CASE Restart  BY <1>13 DEF Restart
<1>14. ASSUME NEW a \in Account, LandLate(a)  PROVE IInv'  BY <1>14 DEF LandLate
<1>15. ASSUME NEW a \in Account, Expire(a)  PROVE IInv'  BY <1>15 DEF Expire
<1>16. CASE UNCHANGED vars  BY <1>16 DEF vars
<1> QED
  BY <1>1, <1>2, <1>3, <1>4, <1>5, <1>6, <1>7, <1>8, <1>9, <1>10, <1>11, <1>12, <1>13, <1>14,
     <1>15, <1>16
  DEF Next, Call

\* Type correctness, for any markets and any number of restarts.
THEOREM TypeCorrect == Spec => []TypeOK
<1>1. IInv => TypeOK  BY DEF IInv
<1> QED  BY <1>1, InitIInv, NextIInv, PTL DEF Spec

\* The handlers, contexts and polled keys of a start are those of accounts that
\* exist, whatever failed or was lost and whenever the program was killed.
THEOREM PreparedAlwaysExist == Spec => []PreparedExist
<1>1. IInv => PreparedExist  BY DEF IInv
<1> QED  BY <1>1, InitIInv, NextIInv, PTL DEF Spec

\* A market is missing, or a start ends before the prompt, only where a call of
\* that start failed.
THEOREM OutcomesHaveCauses == Spec => []OutcomeHasCause
<1>1. IInv => OutcomeHasCause  BY DEF IInv
<1> QED  BY <1>1, InitIInv, NextIInv, PTL DEF Spec

\* An existing account is created again only after a call about it failed.
THEOREM RecreationsAreMisled == Spec => []RecreatesOnlyIfMisled
<1>1. IInv => RecreatesOnlyIfMisled  BY DEF IInv
<1> QED  BY <1>1, InitIInv, NextIInv, PTL DEF Spec

---------------------------------------------------------------------------
(* The commands that fund the account. *)

\* A start behaves as without the commands that follow it.
THEOREM StartsAsBefore == AccountsSpec => Spec
<1>1. AccountsInit => Init
  BY DEF AccountsInit
<1>2. [AccountsNext]_accountsVars => [Next]_vars
  BY DEF AccountsNext, accountsVars, AtPrompt, Next
<1> QED BY <1>1, <1>2, PTL DEF AccountsSpec, Spec

---------------------------------------------------------------------------
\* What every typed amount is converted to.
LEMMA NativeFits == \A x \in Amounts : Native(x) \in 0..(U64 - 1)
BY NativeIsU64, FundingAssumption

Ledger == [token : BOOLEAN, balance : Nat, deposits : Nat, users : SUBSET Numbers,
           delegate : Delegates]

\* The transactions that the commands build.
AirdropTxs == {<<RequestAirdrop>>, <<CreateToken, RequestAirdrop>>}
DepositTxs == {<<DepositCollateral(a)>> : a \in 0..(U64 - 1)}
OtherTxs == {<<CreateUser(n)>> : n \in Numbers} \cup {<<SetDelegate(k)>> : k \in Delegates}
Txs == AirdropTxs \cup DepositTxs \cup OtherTxs

FundInv ==
  /\ ledger \in Ledger
  /\ \A t \in inFlight : t.line \in 1..lines /\ t.ixs \in Txs
  /\ next \in {"prompt", "token", "hash", "send", "panicked"}
  /\ ixs \in Txs \cup {<< >>} /\ (InHand => ixs \in Txs)
  /\ misled \in BOOLEAN /\ lines \in 0..MaxLines /\ (next # "prompt" => lines > 0)
  /\ reported \in Nat /\ reported <= ledger.deposits
  /\ AirdropFits

\* An instruction that is allowed leaves a ledger; it never closes the token
\* account, creates it only if asked to, and takes no deposit back.
LEMMA EffectOnLedger ==
  ASSUME NEW l \in Ledger,
         NEW ix \in {CreateToken, RequestAirdrop} \cup {CreateUser(n) : n \in Numbers}
                      \cup {SetDelegate(k) : k \in Delegates}
                      \cup {DepositCollateral(a) : a \in 0..(U64 - 1)},
         Allowed(l, ix)
  PROVE  /\ Effect(l, ix) \in Ledger
         /\ Effect(l, ix).token <=> l.token \/ ix = CreateToken
         /\ Effect(l, ix).deposits = l.deposits + (IF ix.kind = "deposit" THEN ix.arg ELSE 0)
<1>1. CASE ix = CreateToken
  <2>1. ix.kind = "createToken"  BY <1>1 DEF CreateToken
  <2>2. Effect(l, ix) = [l EXCEPT !.token = TRUE]  BY <2>1 DEF Effect
  <2>3. Effect(l, ix) \in Ledger /\ Effect(l, ix).deposits = l.deposits /\ l.deposits \in Nat
    BY <2>2 DEF Ledger
  <2>4. Effect(l, ix).token = TRUE  BY <2>2 DEF Ledger
  <2>5. ix.kind # "deposit"  BY <2>1
  <2> QED BY <1>1, <2>3, <2>4, <2>5
<1>2. CASE ix = RequestAirdrop
  <2>1. ix.kind = "airdrop" /\ ix.arg = AirdropAmount  BY <1>2 DEF RequestAirdrop
  <2>2. Effect(l, ix) = [l EXCEPT !.balance = @ + AirdropAmount]  BY <2>1 DEF Effect
  <2>3. ix # CreateToken  BY <2>1 DEF CreateToken
  <2> QED BY <2>1, <2>2, <2>3, FundingAssumption DEF Ledger
<1>3. ASSUME NEW n \in Numbers, ix = CreateUser(n)
      PROVE  /\ Effect(l, ix) \in Ledger /\ ix.kind = "user"
             /\ Effect(l, ix).token = l.token /\ Effect(l, ix).deposits = l.deposits
  <2>1. ix.kind = "user" /\ ix.arg = n  BY <1>3 DEF CreateUser
  <2>2. Effect(l, ix) = [l EXCEPT !.users = @ \cup {n}]  BY <2>1 DEF Effect
  <2> QED BY <2>1, <2>2 DEF Ledger
<1>4. ASSUME NEW k \in Delegates, ix = SetDelegate(k)
      PROVE  /\ Effect(l, ix) \in Ledger /\ ix.kind = "delegate"
             /\ Effect(l, ix).token = l.token /\ Effect(l, ix).deposits = l.deposits
  <2>1. ix.kind = "delegate" /\ ix.arg = k  BY <1>4 DEF SetDelegate
  <2>2. Effect(l, ix) = [l EXCEPT !.delegate = k]  BY <2>1 DEF Effect
  <2> QED BY <2>1, <2>2 DEF Ledger
<1>5. ASSUME NEW a \in 0..(U64 - 1), ix = DepositCollateral(a)
      PROVE  /\ Effect(l, ix) \in Ledger /\ ix.kind = "deposit" /\ ix.arg = a
             /\ Effect(l, ix).token = l.token /\ Effect(l, ix).deposits = l.deposits + a
  <2>1. ix.kind = "deposit" /\ ix.arg = a  BY <1>5 DEF DepositCollateral
  <2>2. Effect(l, ix) = [l EXCEPT !.balance = @ - a, !.deposits = @ + a]  BY <2>1 DEF Effect
  <2>3. a <= l.balance  BY <2>1 DEF Allowed
  <2>4. l.balance \in Nat /\ l.deposits \in Nat /\ a \in Nat  BY DEF Ledger
  <2>5. l.balance - a \in Nat /\ l.deposits + a \in Nat  BY <2>3, <2>4
  <2> QED BY <2>1, <2>2, <2>5 DEF Ledger
<1>6. CASE ix \notin {CreateToken, RequestAirdrop}
  <2>1. ix.kind # "deposit" => Effect(l, ix).deposits = l.deposits
    BY <1>3, <1>4, <1>5, <1>6
  <2> QED BY <1>3, <1>4, <1>5, <1>6, <2>1 DEF Ledger
<1> QED BY <1>1, <1>2, <1>6

\* The same of a whole transaction.
LEMMA LandedOnLedger ==
  ASSUME NEW l \in Ledger, NEW seq \in Txs, CanLand(l, seq)
  PROVE  /\ Landed(l, seq) \in Ledger
         /\ l.token => Landed(l, seq).token
         /\ Landed(l, seq).token => l.token \/ Has(seq, "createToken")
         /\ Landed(l, seq).deposits = l.deposits + Units(seq)
<1>1. CASE seq = <<CreateToken, RequestAirdrop>>
  <2>1. /\ Len(seq) = 2 /\ DOMAIN seq = 1..2 /\ seq[1] = CreateToken /\ seq[2] = RequestAirdrop
    BY <1>1
  <2>2. CreateToken.kind = "createToken" /\ RequestAirdrop.kind = "airdrop"
    BY DEF CreateToken, RequestAirdrop
  <2>3. Units(seq) = 0 /\ Has(seq, "createToken")
    BY <2>1, <2>2 DEF Units, Has
  <2> DEFINE m == Effect(l, CreateToken)
  <2>4. Allowed(l, CreateToken) /\ Allowed(m, RequestAirdrop) /\ Landed(l, seq) = Effect(m, RequestAirdrop)
    BY <2>1 DEF CanLand, Landed
  <2>5. m \in Ledger /\ m.token /\ m.deposits = l.deposits
    BY <2>2, <2>4, EffectOnLedger DEF Ledger
  <2> HIDE DEF m
  <2>6. Effect(m, RequestAirdrop) \in Ledger /\ Effect(m, RequestAirdrop).token
          /\ Effect(m, RequestAirdrop).deposits = l.deposits
    BY <2>2, <2>4, <2>5, EffectOnLedger DEF Ledger
  <2> QED BY <2>3, <2>4, <2>6 DEF Ledger
<1>2. CASE seq # <<CreateToken, RequestAirdrop>>
  <2>1. PICK ix \in {RequestAirdrop} \cup {CreateUser(n) : n \in Numbers}
                       \cup {SetDelegate(k) : k \in Delegates}
                       \cup {DepositCollateral(a) : a \in 0..(U64 - 1)} : seq = <<ix>>
    BY <1>2 DEF Txs, AirdropTxs, DepositTxs, OtherTxs
  <2>2. Len(seq) = 1 /\ DOMAIN seq = 1..1 /\ seq[1] = ix
    BY <2>1
  <2>3. Allowed(l, ix) /\ Landed(l, seq) = Effect(l, ix)
    BY <2>2 DEF CanLand, Landed
  <2>4. ix # CreateToken
    BY DEF CreateToken, RequestAirdrop, CreateUser, SetDelegate, DepositCollateral
  <2>5. Units(seq) = IF ix.kind = "deposit" THEN ix.arg ELSE 0
    BY <2>2 DEF Units, Has
  <2>6. /\ Effect(l, ix) \in Ledger
        /\ Effect(l, ix).token <=> l.token
        /\ Effect(l, ix).deposits = l.deposits + (IF ix.kind = "deposit" THEN ix.arg ELSE 0)
    BY <2>3, <2>4, EffectOnLedger
  <2> QED BY <2>3, <2>5, <2>6 DEF Ledger
<1> QED BY <1>1, <1>2

LEMMA TxKinds ==
  ASSUME NEW seq \in Txs
  PROVE  /\ Has(seq, "airdrop") => seq \in AirdropTxs
         /\ Has(seq, "createToken") <=> seq = <<CreateToken, RequestAirdrop>>
         /\ seq = <<CreateToken, RequestAirdrop>> => seq[1] = CreateToken
BY DEF Txs, AirdropTxs, DepositTxs, OtherTxs, Has, CreateToken, RequestAirdrop, CreateUser,
       SetDelegate, DepositCollateral

LEMMA UnitsAreNat == ASSUME NEW seq \in Txs  PROVE Units(seq) \in Nat
<1>1. CASE seq \in DepositTxs
  <2>1. PICK a \in 0..(U64 - 1) : seq = <<DepositCollateral(a)>>
    BY <1>1 DEF DepositTxs
  <2>2. seq[1].arg = a  BY <2>1 DEF DepositCollateral
  <2> QED BY <2>2 DEF Units
<1>2. CASE seq \notin DepositTxs
  <2>1. ~Has(seq, "deposit")
    BY <1>2 DEF Txs, AirdropTxs, OtherTxs, Has, CreateToken, RequestAirdrop, CreateUser,
                SetDelegate
  <2> QED BY <2>1 DEF Units
<1> QED BY <1>1, <1>2

LEMMA FundInitInv == AccountsInit => FundInv
<1> SUFFICES ASSUME AccountsInit PROVE FundInv
  OBVIOUS
<1>1. ledger \in Ledger /\ ledger.deposits = 0
  BY FundingAssumption DEF AccountsInit, FundInit, Ledger
<1>2. misled = FALSE /\ next = "prompt" /\ ixs = << >> /\ inFlight = {} /\ lines = 0 /\ reported = 0
  BY DEF AccountsInit, FundInit
<1>3. misled \in BOOLEAN
  BY <1>2, Zenon
<1> QED BY <1>1, <1>2, <1>3, FundingAssumption DEF FundInv, AirdropFits, InHand

\* A command begins: an airdrop with nothing in hand, the others with a
\* transaction that is no airdrop.
LEMMA BeginKeeps ==
  ASSUME FundInv, NEW call \in {"token", "hash"}, NEW seq, NEW amount, NEW units,
         Begin(call, seq, amount, units),
         call = "token" => seq = << >>,
         call = "hash" => seq \in Txs /\ ~Has(seq, "airdrop")
  PROVE  FundInv'
<1>1. /\ next' = call /\ ixs' = seq /\ lines' = lines + 1 /\ lines < MaxLines /\ misled' = FALSE
      /\ UNCHANGED <<ledger, inFlight, reported>>
  BY DEF Begin
<1>2. misled' \in BOOLEAN
  BY <1>1, Zenon
<1>3. lines' \in 0..MaxLines /\ \A t \in inFlight : t.line \in 1..lines'
  BY <1>1, FundingAssumption DEF FundInv
<1>4. AirdropFits'
  BY <1>1 DEF AirdropFits, InHand
<1> QED BY <1>1, <1>2, <1>3, <1>4 DEF FundInv, InHand

LEMMA CommandsBegin ==
  ASSUME FundInv,
         \/ Airdrop \/ (\E n \in Numbers : NewAccount(n))
         \/ (\E k \in Delegates \ {NoKey} : Delegate(k)) \/ (\E x \in Amounts : Deposit(x))
  PROVE  FundInv'
<1>1. CASE Airdrop
  BY <1>1, BeginKeeps DEF Airdrop
<1>2. ASSUME NEW n \in Numbers, NewAccount(n)  PROVE FundInv'
  <2>1. <<CreateUser(n)>> \in Txs /\ ~Has(<<CreateUser(n)>>, "airdrop")
    BY DEF Txs, OtherTxs, Has, CreateUser
  <2> QED BY <1>2, <2>1, BeginKeeps DEF NewAccount
<1>3. ASSUME NEW k \in Delegates \ {NoKey}, Delegate(k)  PROVE FundInv'
  <2>1. <<SetDelegate(k)>> \in Txs /\ ~Has(<<SetDelegate(k)>>, "airdrop")
    BY DEF Txs, OtherTxs, Has, SetDelegate
  <2> QED BY <1>3, <2>1, BeginKeeps DEF Delegate
<1>4. ASSUME NEW x \in Amounts, Deposit(x)  PROVE FundInv'
  <2>1. Native(x) \in 0..(U64 - 1)
    BY NativeFits
  <2>2. <<DepositCollateral(Native(x))>> \in Txs /\ ~Has(<<DepositCollateral(Native(x))>>, "airdrop")
    BY <2>1 DEF Txs, DepositTxs, Has, DepositCollateral
  <2> QED BY <1>4, <2>2, BeginKeeps DEF Deposit
<1> QED BY <1>1, <1>2, <1>3, <1>4

LEMMA TokenKeeps ==
  ASSUME FundInv, TokenFound \/ TokenErr  PROVE  FundInv'
<1>1. /\ next = "token" /\ next' = "hash" /\ UNCHANGED <<ledger, inFlight, lines, reported>>
      /\ ixs' \in Txs
  BY DEF TokenFound, TokenErr, onChain, ofLine, Txs, AirdropTxs
<1>2. misled' \in BOOLEAN
  <2>1. ledger.token \in BOOLEAN
    BY DEF FundInv, Ledger
  <2> QED BY <2>1, Zenon DEF TokenFound, TokenErr, FundInv
<1>3. AirdropFits'
  <2>1. CASE TokenFound
    <3>1. ledger.token /\ ledger' = ledger /\ ixs' = <<RequestAirdrop>>
      BY <2>1 DEF TokenFound, onChain
    <3>2. ~Has(<<RequestAirdrop>>, "createToken")
      BY DEF Has, RequestAirdrop
    <3> QED BY <3>1, <3>2 DEF AirdropFits
  <2>2. CASE TokenErr
    <3>1. misled' = ledger.token /\ ledger' = ledger /\ ixs' = <<CreateToken, RequestAirdrop>>
      BY <2>2 DEF TokenErr, onChain
    <3>2. ixs'[1] = CreateToken
      BY <3>1
    <3> QED BY <3>1, <3>2, Zenon DEF AirdropFits
  <2> QED BY <2>1, <2>2
<1> QED BY <1>1, <1>2, <1>3 DEF FundInv, InHand

LEMMA HashKeeps ==
  ASSUME FundInv, FundHash \/ FundHashErr  PROVE  FundInv'
<1>1. /\ UNCHANGED <<ledger, inFlight, lines, reported, ixs, misled>>
      /\ next = "hash" /\ next' \in {"send", "panicked"}
  BY DEF FundHash, FundHashErr, onChain, ofLine
<1>2. AirdropFits'
  BY <1>1 DEF FundInv, AirdropFits, InHand
<1> QED BY <1>1, <1>2 DEF FundInv, InHand

LEMMA SendKeeps ==
  ASSUME FundInv, FundSend  PROVE  FundInv'
<1>1. /\ ixs \in Txs /\ CanLand(ledger, ixs) /\ ledger' = Landed(ledger, ixs) /\ next' = "prompt"
      /\ reported' = reported + Units(ixs) /\ UNCHANGED <<inFlight, lines, ixs, misled>>
  BY DEF FundSend, ofLine, FundInv, InHand
<1>2. Units(ixs) \in Nat
  BY <1>1, UnitsAreNat
<1>3. ledger' \in Ledger /\ ledger'.deposits = ledger.deposits + Units(ixs)
  BY <1>1, LandedOnLedger DEF FundInv
<1>4. reported' \in Nat /\ reported' <= ledger'.deposits
  BY <1>1, <1>2, <1>3 DEF FundInv, Ledger
<1> QED BY <1>1, <1>3, <1>4 DEF FundInv, AirdropFits, InHand

LEMMA SendErrKeeps ==
  ASSUME FundInv, FundSendErr  PROVE  FundInv'
<1>1. /\ next = "send" /\ next' \in {"prompt", "panicked"} /\ ixs \in Txs /\ MayLandLater
      /\ UNCHANGED <<ledger, lines, reported, ixs, misled>>
  BY DEF FundSendErr, ofLine, FundInv, InHand
<1>2. \A t \in inFlight' : t.line \in 1..lines /\ t.ixs \in Txs
  <2>1. \A t \in inFlight' : t \in inFlight \/ t = [line |-> lines, ixs |-> ixs]
    BY <1>1 DEF MayLandLater
  <2>2. lines \in 1..lines
    BY <1>1 DEF FundInv
  <2> QED BY <1>1, <2>1, <2>2 DEF FundInv
<1> QED BY <1>1, <1>2 DEF FundInv, AirdropFits, InHand

LEMMA RestartKeeps ==
  ASSUME FundInv, FundRestart  PROVE  FundInv'
<1>1. /\ next' = "prompt" /\ ixs' = << >> /\ misled' = FALSE
      /\ UNCHANGED <<ledger, inFlight, lines, reported>>
  BY DEF FundRestart, onChain
<1>2. misled' \in BOOLEAN
  BY <1>1, Zenon
<1> QED BY <1>1, <1>2 DEF FundInv, AirdropFits, InHand

\* A lost transaction may create the token account behind a command's back.
LEMMA ChainKeeps ==
  ASSUME FundInv, FundChain  PROVE  FundInv'
<1>1. ASSUME NEW t \in inFlight, FundLandLate(t)  PROVE FundInv'
  <2>1. /\ t.ixs \in Txs /\ CanLand(ledger, t.ixs) /\ ledger' = Landed(ledger, t.ixs)
        /\ inFlight' \subseteq inFlight /\ UNCHANGED <<next, lines, reported, ixs>>
    BY <1>1 DEF FundLandLate, ofLine, FundInv
  <2>2. misled' = (misled \/ (next \in {"hash", "send"} /\ Has(t.ixs, "createToken")))
    BY <1>1 DEF FundLandLate
  <2>3. misled' \in BOOLEAN
    BY <2>2, Zenon DEF FundInv
  <2>4. /\ ledger' \in Ledger
        /\ ledger.token => ledger'.token
        /\ ledger'.token => ledger.token \/ Has(t.ixs, "createToken")
        /\ ledger'.deposits = ledger.deposits + Units(t.ixs)
    BY <2>1, LandedOnLedger DEF FundInv
  <2>5. ledger'.deposits >= ledger.deposits
    BY <2>1, <2>4, UnitsAreNat DEF FundInv, Ledger
  <2>6. AirdropFits'
    BY <2>1, <2>2, <2>4 DEF FundInv, AirdropFits, InHand
  <2>7. reported' <= ledger'.deposits
    BY <2>1, <2>4, <2>5 DEF FundInv, Ledger
  <2> QED BY <2>1, <2>3, <2>4, <2>6, <2>7 DEF FundInv, InHand
<1>2. ASSUME NEW t \in inFlight, FundExpire(t)  PROVE FundInv'
  <2>1. inFlight' \subseteq inFlight /\ UNCHANGED <<ledger, next, lines, reported, ixs, misled>>
    BY <1>2 DEF FundExpire, ofLine
  <2> QED BY <2>1 DEF FundInv, AirdropFits, InHand
<1> QED BY <1>1, <1>2 DEF FundChain

\* FundInv is inductive.
LEMMA FundNextInv ==
  ASSUME FundInv, [AccountsNext]_accountsVars  PROVE  FundInv'
<1>1. CASE Command
  BY <1>1, CommandsBegin, TokenKeeps, HashKeeps, SendKeeps, SendErrKeeps DEF Command
<1>2. CASE UNCHANGED fundVars
  BY <1>2 DEF fundVars, FundInv, AirdropFits, InHand
<1> QED BY <1>1, <1>2, RestartKeeps, ChainKeeps DEF AccountsNext, AtPrompt, accountsVars

---------------------------------------------------------------------------
\* Type correctness of the commands that fund accounts; whatever is typed, a
\* deposit is a u64.
THEOREM FundTypeCorrect == AccountsSpec => []FundTypeOK
<1>1. AccountsInit => FundInv
  BY FundInitInv
<1>2. FundInv /\ [AccountsNext]_accountsVars => FundInv'
  BY FundNextInv
<1>3. FundInv => FundTypeOK
  <2> SUFFICES ASSUME FundInv PROVE FundTypeOK
    OBVIOUS
  <2>1. ASSUME NEW i \in DOMAIN ixs, ixs[i].kind = "deposit"
        PROVE  ixs[i].arg \in 0..(U64 - 1)
    <3>1. CASE ixs \in DepositTxs
      <4>1. PICK a \in 0..(U64 - 1) : ixs = <<DepositCollateral(a)>>
        BY <3>1 DEF DepositTxs
      <4>2. ixs[i].arg = a
        BY <4>1 DEF DepositCollateral
      <4> QED BY <4>2
    <3>2. CASE ixs \notin DepositTxs
      BY <2>1, <3>2
      DEF FundInv, Txs, AirdropTxs, OtherTxs, CreateToken, RequestAirdrop, CreateUser, SetDelegate
    <3> QED BY <3>1, <3>2
  <2>2. /\ ledger.token \in BOOLEAN /\ {ledger.balance, ledger.deposits} \subseteq Nat
        /\ ledger.users \subseteq Numbers /\ ledger.delegate \in Delegates
    BY DEF FundInv, Ledger
  <2> QED BY <2>1, <2>2 DEF FundInv, FundTypeOK
<1> QED BY <1>1, <1>2, <1>3, PTL DEF AccountsSpec

\* Every airdrop goes to an account that is there or that its transaction creates,
\* and asks for an existing one to be created only if the program was misled.
THEOREM AirdropsFit == AccountsSpec => []AirdropFits
<1>1. AccountsInit => FundInv
  BY FundInitInv
<1>2. FundInv /\ [AccountsNext]_accountsVars => FundInv'
  BY FundNextInv
<1>3. FundInv => AirdropFits
  BY DEF FundInv
<1> QED BY <1>1, <1>2, <1>3, PTL DEF AccountsSpec

---------------------------------------------------------------------------
(* Deposits *)

Busy == next \in {"token", "hash", "send"}

\* A deposit in hand is of the amount typed.
InHandAsTyped ==
  InHand /\ Has(ixs, "deposit") =>
    typed \in Amounts /\ ixs = <<DepositCollateral(Native(typed))>>

\* At most one transaction of a line can still land, or will be sent.
OneEach ==
  /\ \A t, u \in inFlight : t.line = u.line => t = u
  /\ Busy => \A t \in inFlight : t.line # lines

\* b[i] bounds the native units that the lines up to i can still deposit: no
\* line more than the next step of b, and all no more than was asked.
Covers(b) ==
  /\ b \in [0..lines -> Nat]
  /\ \A i, j \in 0..lines : i <= j => b[i] <= b[j]
  /\ \A t \in inFlight : Units(t.ixs) <= b[t.line] - b[t.line - 1]
  /\ InHand => Units(ixs) <= b[lines] - b[lines - 1]
  /\ ledger.deposits + b[lines] <= asked

DepositInv == asked \in Nat /\ InHandAsTyped /\ OneEach /\ \E b : Covers(b)

LEMMA UnitsOfDeposit ==
  ASSUME NEW a  PROVE  /\ Has(<<DepositCollateral(a)>>, "deposit")
                       /\ Units(<<DepositCollateral(a)>>) = a
BY DEF Has, Units, DepositCollateral

LEMMA NoUnits ==
  ASSUME NEW seq, ~Has(seq, "deposit")  PROVE Units(seq) = 0
BY DEF Units

LEMMA NoDeposits ==
  /\ ~Has(<<RequestAirdrop>>, "deposit") /\ ~Has(<<CreateToken, RequestAirdrop>>, "deposit")
  /\ ~Has(<< >>, "deposit")
  /\ \A n : ~Has(<<CreateUser(n)>>, "deposit")
  /\ \A k : ~Has(<<SetDelegate(k)>>, "deposit")
BY DEF Has, RequestAirdrop, CreateToken, CreateUser, SetDelegate

LEMMA DepositInit == AccountsInit => DepositInv
<1> SUFFICES ASSUME AccountsInit PROVE DepositInv
  OBVIOUS
<1>1. ledger.deposits = 0 /\ inFlight = {} /\ next = "prompt" /\ lines = 0 /\ asked = 0
  BY DEF AccountsInit, FundInit
<1>2. Covers([i \in 0..0 |-> 0])
  BY <1>1 DEF Covers, InHand
<1> QED BY <1>1, <1>2 DEF DepositInv, InHandAsTyped, OneEach, InHand

\* A line begins: it may deposit what it asks for.
LEMMA BeginCovers ==
  ASSUME FundInv, DepositInv, NEW call \in {"token", "hash"}, NEW seq, NEW amount,
         NEW units \in Nat, Begin(call, seq, amount, units),
         Units(seq) <= units,
         Has(seq, "deposit") => amount \in Amounts /\ seq = <<DepositCollateral(Native(amount))>>
  PROVE  DepositInv'
<1>1. /\ next' = call /\ ixs' = seq /\ typed' = amount /\ lines' = lines + 1
      /\ asked' = asked + units /\ ledger' = ledger /\ inFlight' = inFlight
  BY DEF Begin
<1>2. lines \in Nat /\ asked' \in Nat /\ InHandAsTyped'
  BY <1>1, FundingAssumption DEF FundInv, DepositInv, InHandAsTyped
<1>3. OneEach'
  BY <1>1, <1>2 DEF FundInv, DepositInv, OneEach
<1>4. PICK b : Covers(b)
  BY DEF DepositInv
<1>5. PICK c : c = [i \in 0..(lines + 1) |-> IF i = lines + 1 THEN b[lines] + units ELSE b[i]]
  OBVIOUS
<1>6. \A i \in 0..lines : b[i] \in Nat /\ b[i] <= b[lines]
  BY <1>2, <1>4 DEF Covers
<1>7. c \in [0..lines' -> Nat] /\ \A i \in 0..lines : c[i] = b[i]
  BY <1>1, <1>2, <1>6, <1>5
<1>8. c[lines + 1] = b[lines] + units
  BY <1>2, <1>5
<1>9. \A i, j \in 0..lines' : i <= j => c[i] <= c[j]
  <2> SUFFICES ASSUME NEW i \in 0..lines', NEW j \in 0..lines', i <= j  PROVE c[i] <= c[j]
    OBVIOUS
  <2>1. b[lines] \in Nat /\ b[lines] <= b[lines] + units
    BY <1>2, <1>6
  <2>2. CASE j \in 0..lines
    <3>1. i \in 0..lines
      BY <1>1, <1>2, <2>2
    <3> QED BY <1>4, <1>7, <2>2, <3>1 DEF Covers
  <2>3. CASE j = lines + 1 /\ i \in 0..lines
    BY <1>6, <1>7, <1>8, <2>1, <2>3
  <2>4. CASE j = lines + 1 /\ i = lines + 1
    BY <1>8, <2>1, <2>4
  <2> QED BY <1>1, <1>2, <2>2, <2>3, <2>4
<1>10. \A t \in inFlight' : Units(t.ixs) <= c[t.line] - c[t.line - 1]
  <2> SUFFICES ASSUME NEW t \in inFlight  PROVE Units(t.ixs) <= c[t.line] - c[t.line - 1]
    BY <1>1
  <2>1. t.line \in 0..lines /\ t.line - 1 \in 0..lines
    BY <1>2 DEF FundInv
  <2>2. c[t.line] = b[t.line] /\ c[t.line - 1] = b[t.line - 1]
    BY <1>7, <2>1
  <2> QED BY <1>4, <2>2 DEF Covers
<1>11. Units(ixs') <= c[lines'] - c[lines' - 1]
  <2>1. c[lines' - 1] = b[lines] /\ c[lines'] = b[lines] + units /\ b[lines] \in Nat
    BY <1>1, <1>2, <1>6, <1>7, <1>8
  <2>2. c[lines'] - c[lines' - 1] = units
    BY <2>1
  <2> QED BY <1>1, <2>2
<1>12. ledger'.deposits + c[lines'] <= asked'
  <2>1. ledger.deposits \in Nat /\ b[lines] \in Nat
    BY <1>2, <1>6 DEF FundInv, Ledger
  <2> QED BY <1>1, <1>4, <1>8, <2>1 DEF Covers, DepositInv
<1>13. Covers(c)'
  BY <1>7, <1>9, <1>10, <1>11, <1>12 DEF Covers
<1>14. (\E d : Covers(d))'
  BY <1>13
<1> QED BY <1>2, <1>3, <1>14 DEF DepositInv

LEMMA CommandsCover ==
  ASSUME FundInv, DepositInv,
         \/ Airdrop \/ (\E n \in Numbers : NewAccount(n))
         \/ (\E k \in Delegates \ {NoKey} : Delegate(k)) \/ (\E x \in Amounts : Deposit(x))
  PROVE  DepositInv'
<1>1. CASE Airdrop
  BY <1>1, NoDeposits, NoUnits, BeginCovers DEF Airdrop
<1>2. ASSUME NEW n \in Numbers, NewAccount(n)  PROVE DepositInv'
  BY <1>2, NoDeposits, NoUnits, BeginCovers DEF NewAccount
<1>3. ASSUME NEW k \in Delegates \ {NoKey}, Delegate(k)  PROVE DepositInv'
  BY <1>3, NoDeposits, NoUnits, BeginCovers DEF Delegate
<1>4. ASSUME NEW x \in Amounts, Deposit(x)  PROVE DepositInv'
  <2>1. Native(x) \in Nat
    BY NativeFits
  <2> QED BY <1>4, <2>1, UnitsOfDeposit, BeginCovers DEF Deposit
<1> QED BY <1>1, <1>2, <1>3, <1>4

\* A step that moves nothing on the chain, sends no more than what is in hand and
\* takes nothing in hand that deposits.
LEMMA SameCovers ==
  ASSUME FundInv, DepositInv, UNCHANGED <<ledger, lines, asked>>,
         \A t \in inFlight' : t \in inFlight \/ (InHand /\ t = [line |-> lines, ixs |-> ixs]),
         InHand' => (InHand /\ ixs' = ixs) \/ (lines > 0 /\ Units(ixs') = 0)
  PROVE  (\E b : Covers(b))'
<1>1. PICK b : Covers(b)
  BY DEF DepositInv
<1>2. lines \in Nat
  BY FundingAssumption DEF FundInv
<1>3. \A t \in inFlight' : Units(t.ixs) <= b[t.line] - b[t.line - 1]
  BY <1>1 DEF Covers
<1>4. InHand' => Units(ixs') <= b[lines] - b[lines - 1]
  <2>1. CASE lines > 0
    <3>1. lines \in 0..lines /\ lines - 1 \in 0..lines /\ lines - 1 <= lines
      BY <1>2, <2>1
    <3>2. b[lines] \in Nat /\ b[lines - 1] \in Nat /\ b[lines - 1] <= b[lines]
      BY <1>1, <3>1 DEF Covers
    <3> QED BY <1>1, <3>2 DEF Covers
  <2>2. CASE ~(lines > 0)
    BY <1>1, <2>2 DEF Covers
  <2> QED BY <2>1, <2>2
<1>5. Covers(b)'
  BY <1>1, <1>3, <1>4 DEF Covers
<1> QED BY <1>5

\* A bound that one line has used up.
LEMMA LineSpends ==
  ASSUME NEW n \in Nat, NEW b \in [0..n -> Nat], NEW line \in 1..n, NEW u \in Nat,
         \A i, j \in 0..n : i <= j => b[i] <= b[j],
         u <= b[line] - b[line - 1]
  PROVE  \E c \in [0..n -> Nat] :
           /\ \A i, j \in 0..n : i <= j => c[i] <= c[j]
           /\ c[n] = b[n] - u
           /\ \A i \in 1..n : i # line => c[i] - c[i - 1] = b[i] - b[i - 1]
<1> DEFINE c == [i \in 0..n |-> IF i >= line THEN b[i] - u ELSE b[i]]
<1>1. line \in 0..n /\ line - 1 \in 0..n /\ b[line] \in Nat /\ b[line - 1] \in Nat
  OBVIOUS
<1>2. \A i \in 0..n : b[i] \in Nat
  OBVIOUS
<1>3. \A i \in 0..n : i >= line => b[i] >= b[line] /\ b[i] - u >= b[line - 1]
  BY <1>1, <1>2
<1>4. \A i \in 0..n : i < line => b[i] <= b[line - 1]
  BY <1>1, <1>2
<1>5. \A i \in 0..n : c[i] = IF i >= line THEN b[i] - u ELSE b[i]
  OBVIOUS
<1>6. c \in [0..n -> Nat]
  <2>1. \A i \in 0..n : i >= line => b[i] - u \in Nat
    BY <1>1, <1>2, <1>3
  <2> QED BY <1>2, <2>1
<1> HIDE DEF c
<1>7. \A i, j \in 0..n : i <= j => c[i] <= c[j]
  <2> SUFFICES ASSUME NEW i \in 0..n, NEW j \in 0..n, i <= j  PROVE c[i] <= c[j]
    OBVIOUS
  <2>1. b[i] <= b[j] /\ b[i] \in Nat /\ b[j] \in Nat
    BY <1>2
  <2>2. CASE i >= line
    BY <1>5, <2>1, <2>2
  <2>3. CASE i < line /\ j >= line
    BY <1>1, <1>3, <1>4, <1>5, <2>1, <2>3
  <2>4. CASE j < line
    BY <1>5, <2>1, <2>4
  <2> QED BY <2>2, <2>3, <2>4
<1>8. c[n] = b[n] - u
  BY <1>5
<1>9. \A i \in 1..n : i # line => c[i] - c[i - 1] = b[i] - b[i - 1]
  <2> SUFFICES ASSUME NEW i \in 1..n, i # line  PROVE c[i] - c[i - 1] = b[i] - b[i - 1]
    OBVIOUS
  <2>1. i \in 0..n /\ i - 1 \in 0..n /\ b[i] \in Nat /\ b[i - 1] \in Nat
    BY <1>2
  <2>2. CASE i > line
    BY <1>5, <2>1, <2>2
  <2>3. CASE i < line
    BY <1>5, <2>1, <2>3
  <2> QED BY <2>2, <2>3
<1> QED BY <1>6, <1>7, <1>8, <1>9

\* A transaction of a line lands: no other of that line is left.
LEMMA LandingCovers ==
  ASSUME FundInv, DepositInv, UNCHANGED <<lines, asked>>, NEW line \in 1..lines, NEW u \in Nat,
         ledger'.deposits = ledger.deposits + u,
         \A b : Covers(b) => u <= b[line] - b[line - 1],
         \A t \in inFlight' : t \in inFlight /\ t.line # line,
         InHand' => InHand /\ ixs' = ixs /\ lines # line
  PROVE  (\E b : Covers(b))'
<1>1. PICK b : Covers(b)
  BY DEF DepositInv
<1>2. lines \in Nat
  BY FundingAssumption DEF FundInv
<1>3. PICK c \in [0..lines -> Nat] :
           /\ \A i, j \in 0..lines : i <= j => c[i] <= c[j]
           /\ c[lines] = b[lines] - u
           /\ \A i \in 1..lines : i # line => c[i] - c[i - 1] = b[i] - b[i - 1]
  BY <1>1, <1>2, LineSpends DEF Covers
<1>4. \A t \in inFlight' : Units(t.ixs) <= c[t.line] - c[t.line - 1]
  <2> SUFFICES ASSUME NEW t \in inFlight'  PROVE Units(t.ixs) <= c[t.line] - c[t.line - 1]
    OBVIOUS
  <2>1. t \in inFlight /\ t.line # line /\ t.line \in 1..lines
    BY DEF FundInv
  <2>2. c[t.line] - c[t.line - 1] = b[t.line] - b[t.line - 1]
    BY <1>3, <2>1
  <2>3. Units(t.ixs) <= b[t.line] - b[t.line - 1]
    BY <1>1, <2>1 DEF Covers
  <2> QED BY <2>2, <2>3
<1>5. InHand' => Units(ixs') <= c[lines] - c[lines - 1]
  <2> SUFFICES ASSUME InHand'  PROVE Units(ixs') <= c[lines] - c[lines - 1]
    OBVIOUS
  <2>1. InHand /\ ixs' = ixs /\ lines # line
    OBVIOUS
  <2>2. lines \in 1..lines
    BY <1>2, <2>1 DEF FundInv, InHand
  <2>3. c[lines] - c[lines - 1] = b[lines] - b[lines - 1]
    BY <1>3, <2>1, <2>2
  <2>4. Units(ixs) <= b[lines] - b[lines - 1]
    BY <1>1, <2>1 DEF Covers
  <2> QED BY <2>1, <2>3, <2>4
<1>6. ledger'.deposits + c[lines] <= asked
  <2>1. ledger.deposits \in Nat /\ lines \in 0..lines
    BY <1>2 DEF FundInv, Ledger
  <2>2. b[lines] \in Nat
    BY <1>1, <2>1 DEF Covers
  <2> QED BY <1>1, <1>3, <2>1, <2>2 DEF Covers, DepositInv
<1>7. Covers(c)'
  BY <1>3, <1>4, <1>5, <1>6 DEF Covers
<1> QED BY <1>7

LEMMA TokenCovers ==
  ASSUME FundInv, DepositInv, TokenFound \/ TokenErr  PROVE DepositInv'
<1>1. /\ next = "token" /\ next' = "hash" /\ UNCHANGED <<ledger, inFlight, typed, lines, asked>>
      /\ ~Has(ixs', "deposit")
  BY NoDeposits DEF TokenFound, TokenErr, onChain, ofLine
<1>2. lines > 0
  BY <1>1 DEF FundInv
<1>3. (\E b : Covers(b))'
  BY <1>1, <1>2, NoUnits, SameCovers
<1> QED BY <1>1, <1>3 DEF DepositInv, InHandAsTyped, OneEach, Busy

LEMMA HashCovers ==
  ASSUME FundInv, DepositInv, FundHash \/ FundHashErr  PROVE DepositInv'
<1>1. /\ next = "hash" /\ next' \in {"send", "panicked"}
      /\ UNCHANGED <<ledger, inFlight, ixs, typed, lines, asked>>
  BY DEF FundHash, FundHashErr, onChain, ofLine
<1>2. (\E b : Covers(b))'
  BY <1>1, SameCovers DEF InHand
<1> QED BY <1>1, <1>2 DEF DepositInv, InHandAsTyped, OneEach, InHand, Busy

LEMMA SendCovers ==
  ASSUME FundInv, DepositInv, FundSend  PROVE DepositInv'
<1>1. /\ next = "send" /\ next' = "prompt" /\ UNCHANGED <<inFlight, ixs, typed, lines, asked>>
      /\ ixs \in Txs /\ CanLand(ledger, ixs) /\ ledger' = Landed(ledger, ixs)
  BY DEF FundSend, ofLine, FundInv, InHand
<1>2. Units(ixs) \in Nat /\ ledger'.deposits = ledger.deposits + Units(ixs)
  BY <1>1, UnitsAreNat, LandedOnLedger DEF FundInv
<1>3. lines \in 1..lines
  BY <1>1 DEF FundInv
<1>4. \A t \in inFlight' : t \in inFlight /\ t.line # lines
  BY <1>1 DEF DepositInv, OneEach, Busy
<1>5. \A b : Covers(b) => Units(ixs) <= b[lines] - b[lines - 1]
  BY <1>1 DEF Covers, InHand
<1>6. (\E b : Covers(b))'
  <2>1. ~InHand'
    BY <1>1 DEF InHand
  <2> QED BY <1>1, <1>2, <1>3, <1>4, <1>5, <2>1, LandingCovers
<1> QED BY <1>1, <1>6 DEF DepositInv, InHandAsTyped, OneEach, InHand, Busy

LEMMA SendErrCovers ==
  ASSUME FundInv, DepositInv, FundSendErr  PROVE DepositInv'
<1>1. /\ next = "send" /\ next' \in {"prompt", "panicked"} /\ MayLandLater
      /\ UNCHANGED <<ledger, ixs, typed, lines, asked>>
  BY DEF FundSendErr, ofLine
<1>2. \A t \in inFlight' : t \in inFlight \/ t = [line |-> lines, ixs |-> ixs]
  BY <1>1 DEF MayLandLater
<1>3. (\E b : Covers(b))'
  BY <1>1, <1>2, SameCovers DEF InHand
<1>4. \A t, u \in inFlight' : t.line = u.line => t = u
  BY <1>1, <1>2 DEF DepositInv, OneEach, Busy
<1> QED BY <1>1, <1>3, <1>4 DEF DepositInv, InHandAsTyped, OneEach, InHand, Busy

LEMMA RestartCovers ==
  ASSUME FundInv, DepositInv, FundRestart  PROVE DepositInv'
<1>1. next' = "prompt" /\ UNCHANGED <<ledger, inFlight, lines, asked>>
  BY DEF FundRestart, onChain
<1>2. (\E b : Covers(b))'
  BY <1>1, SameCovers DEF InHand
<1> QED BY <1>1, <1>2 DEF DepositInv, InHandAsTyped, OneEach, InHand, Busy

LEMMA ChainCovers ==
  ASSUME FundInv, DepositInv, FundChain  PROVE DepositInv'
<1>1. ASSUME NEW t \in inFlight, FundLandLate(t)  PROVE DepositInv'
  <2>1. /\ t.ixs \in Txs /\ t.line \in 1..lines
        /\ CanLand(ledger, t.ixs) /\ ledger' = Landed(ledger, t.ixs)
        /\ inFlight' = inFlight \ {t} /\ UNCHANGED <<next, ixs, typed, lines, asked>>
    BY <1>1 DEF FundLandLate, ofLine, FundInv
  <2>2. Units(t.ixs) \in Nat /\ ledger'.deposits = ledger.deposits + Units(t.ixs)
    BY <2>1, UnitsAreNat, LandedOnLedger DEF FundInv
  <2>3. \A u \in inFlight' : u \in inFlight /\ u.line # t.line
    BY <2>1 DEF DepositInv, OneEach
  <2>4. \A b : Covers(b) => Units(t.ixs) <= b[t.line] - b[t.line - 1]
    BY DEF Covers
  <2>5. InHand' => InHand /\ ixs' = ixs /\ lines # t.line
    BY <2>1 DEF DepositInv, OneEach, InHand, Busy
  <2>6. (\E b : Covers(b))'
    BY <2>1, <2>2, <2>3, <2>4, <2>5, LandingCovers
  <2> QED BY <2>1, <2>6 DEF DepositInv, InHandAsTyped, OneEach, InHand, Busy
<1>2. ASSUME NEW t \in inFlight, FundExpire(t)  PROVE DepositInv'
  <2>1. inFlight' \subseteq inFlight /\ UNCHANGED <<ledger, next, ixs, typed, lines, asked>>
    BY <1>2 DEF FundExpire, ofLine
  <2>2. (\E b : Covers(b))'
    BY <2>1, SameCovers DEF InHand
  <2> QED BY <2>1, <2>2 DEF DepositInv, InHandAsTyped, OneEach, InHand, Busy
<1> QED BY <1>1, <1>2 DEF FundChain

LEMMA DepositNextInv ==
  ASSUME FundInv, DepositInv, [AccountsNext]_accountsVars  PROVE DepositInv'
<1>1. CASE Command
  BY <1>1, CommandsCover, TokenCovers, HashCovers, SendCovers, SendErrCovers DEF Command
<1>2. CASE UNCHANGED fundVars
  <2>1. (\E b : Covers(b))'
    BY <1>2, SameCovers DEF fundVars, InHand
  <2> QED BY <1>2, <2>1 DEF fundVars, DepositInv, InHandAsTyped, OneEach, InHand, Busy
<1> QED BY <1>1, <1>2, RestartCovers, ChainCovers DEF AccountsNext, AtPrompt, accountsVars

LEMMA DepositsAlways == AccountsSpec => [](FundInv /\ DepositInv)
<1>1. AccountsInit => FundInv /\ DepositInv
  BY FundInitInv, DepositInit
<1>2. (FundInv /\ DepositInv) /\ [AccountsNext]_accountsVars => (FundInv /\ DepositInv)'
  BY FundNextInv, DepositNextInv
<1> QED BY <1>1, <1>2, PTL DEF AccountsSpec

\* Whatever is lost, lands late or is cut off by a restart: all that was reported
\* as deposited is on the chain, and no line is deposited twice.
THEOREM DepositsAlwaysAsked == AccountsSpec => []DepositsAreAsked
<1>1. FundInv /\ DepositInv => DepositsAreAsked
  <2> SUFFICES ASSUME FundInv, DepositInv PROVE DepositsAreAsked
    OBVIOUS
  <2>1. PICK b : Covers(b)
    BY DEF DepositInv
  <2>2. lines \in 0..lines /\ ledger.deposits \in Nat
    BY FundingAssumption DEF FundInv, Ledger
  <2>3. b[lines] \in Nat
    BY <2>1, <2>2 DEF Covers
  <2>4. ledger.deposits <= asked
    BY <2>1, <2>2, <2>3 DEF Covers, DepositInv
  <2> QED BY <2>4 DEF FundInv, DepositsAreAsked
<1> QED BY <1>1, DepositsAlways, PTL

\* What is deposited is what was typed, to the unit, in spite of two roundings and
\* whatever the amount, as long as an f64 tells half units apart.
THEOREM DepositsAsTyped == AccountsSpec => []DepositIsTyped
<1>1. FundInv /\ DepositInv => DepositIsTyped
  <2> SUFFICES ASSUME DepositInv, InHand, Has(ixs, "deposit"), typed.d # 0, typed.n >= 0,
                      2 * typed.n * Scale < Pow2[Precision] * typed.d
               PROVE  IsAbout(typed, ixs[1].arg)
    BY DEF DepositIsTyped
  <2>1. typed \in Amounts /\ ixs = <<DepositCollateral(Native(typed))>>
    BY DEF DepositInv, InHandAsTyped
  <2>2. ixs[1].arg = Native(typed)
    BY <2>1 DEF DepositCollateral
  <2>3. typed.n \in Nat /\ typed.d \in Nat \ {0}
    BY <2>1, FundingAssumption
  <2> QED BY <2>2, <2>3, NativeIsAbout
<1> QED BY <1>1, DepositsAlways, PTL
=============================================================================
