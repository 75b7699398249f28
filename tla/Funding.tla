------------------------------ MODULE Funding ------------------------------
(***************************************************************************)
(* The commands that move money and accounts: airdrop, new, delegate and   *)
(* deposit (src/src/interactive_cli.rs, src/src/utils/accounts.rs).  Each  *)
(* builds one transaction out of one or two instructions, fetches a        *)
(* blockhash for it and sends it.  The chain runs all the instructions of  *)
(* a transaction or none; a transaction whose answer is lost may land at   *)
(* any later time, or never.                                               *)
(***************************************************************************)
EXTENDS UiAmount, Sequences

CONSTANTS
  Devnet,         \* the cluster is devnet
  Numbers,        \* the account numbers that are typed
  Delegates,      \* the keys that are typed, and NoKey
  NoKey,
  Amounts,        \* the amounts that are typed, see Typed
  AirdropAmount,  \* native units of one airdrop
  MaxLines        \* bound: commands that are typed

ASSUME FundingAssumption ==
  /\ Devnet \in BOOLEAN /\ NoKey \in Delegates /\ AirdropAmount \in Nat /\ MaxLines \in Nat
  /\ \A x \in Amounts : x.n \in Int /\ x.d \in Nat

VARIABLES
  ledger,     \* the chain: the quote token account, its balance, deposits, users, delegate
  inFlight,   \* the transactions whose answer was lost and that may still land
  next,       \* what the command in progress does next
  ixs,        \* FastTxnBuilder: the instructions of its transaction
  typed,      \* the amount of a deposit
  misled,     \* history: the node misinformed this command, or it was overtaken
  lines,      \* how many commands were typed
  asked,      \* history: native units typed for deposits
  reported    \* history: native units reported as deposited

fundVars == <<ledger, inFlight, next, ixs, typed, misled, lines, asked, reported>>
onChain == <<ledger, inFlight>>
ofLine == <<typed, lines, asked>>

NoAmount == Typed(0, 0)

CreateToken == [kind |-> "createToken", arg |-> 0]
RequestAirdrop == [kind |-> "airdrop", arg |-> AirdropAmount]
CreateUser(n) == [kind |-> "user", arg |-> n]
SetDelegate(k) == [kind |-> "delegate", arg |-> k]
DepositCollateral(a) == [kind |-> "deposit", arg |-> a]

Has(seq, kind) == \E i \in DOMAIN seq : seq[i].kind = kind

---------------------------------------------------------------------------
(* The chain *)

\* What an instruction needs, and what it does.
Allowed(l, ix) ==
  CASE ix.kind = "createToken" -> ~l.token
    [] ix.kind = "airdrop"     -> l.token
    [] ix.kind = "user"        -> ix.arg \notin l.users
    [] ix.kind = "delegate"    -> TRUE
    [] ix.kind = "deposit"     -> l.token /\ ix.arg <= l.balance

Effect(l, ix) ==
  CASE ix.kind = "createToken" -> [l EXCEPT !.token = TRUE]
    [] ix.kind = "airdrop"     -> [l EXCEPT !.balance = @ + ix.arg]
    [] ix.kind = "user"        -> [l EXCEPT !.users = @ \cup {ix.arg}]
    [] ix.kind = "delegate"    -> [l EXCEPT !.delegate = ix.arg]
    [] ix.kind = "deposit"     -> [l EXCEPT !.balance = @ - ix.arg, !.deposits = @ + ix.arg]

\* All the instructions, one after the other, or none.  No command has more than
\* two.
CanLand(l, seq) ==
  Allowed(l, seq[1]) /\ (Len(seq) = 2 => Allowed(Effect(l, seq[1]), seq[2]))
Landed(l, seq) ==
  IF Len(seq) = 2 THEN Effect(Effect(l, seq[1]), seq[2]) ELSE Effect(l, seq[1])

---------------------------------------------------------------------------
FundTypeOK ==
  /\ ledger.token \in BOOLEAN /\ {ledger.balance, ledger.deposits} \subseteq Nat
  /\ ledger.users \subseteq Numbers /\ ledger.delegate \in Delegates
  /\ \A t \in inFlight : t.line \in 1..lines
  /\ next \in {"prompt", "token", "hash", "send", "panicked"}
  /\ \A i \in DOMAIN ixs : ixs[i].kind = "deposit" => ixs[i].arg \in 0..(U64 - 1)
  /\ misled \in BOOLEAN /\ lines \in 0..MaxLines

FundInit ==
  /\ ledger \in [token : BOOLEAN, balance : {0}, deposits : {0}, users : {{}}, delegate : {NoKey}]
  /\ inFlight = {} /\ next = "prompt" /\ ixs = <<>> /\ typed = NoAmount
  /\ misled = FALSE /\ lines = 0 /\ asked = 0 /\ reported = 0

\* A command is typed whose first call is call, with these instructions so far.
Begin(call, seq, amount, units) ==
  /\ next = "prompt" /\ lines < MaxLines
  /\ next' = call /\ ixs' = seq /\ typed' = amount
  /\ lines' = lines + 1 /\ asked' = asked + units /\ misled' = FALSE
  /\ UNCHANGED <<ledger, inFlight, reported>>

Airdrop == Devnet /\ Begin("token", <<>>, NoAmount, 0)
NewAccount(n) == Begin("hash", <<CreateUser(n)>>, NoAmount, 0)
Delegate(k) == Begin("hash", <<SetDelegate(k)>>, NoAmount, 0)

\* Without a copy of the group the command only says so.
Deposit(x) == Begin("hash", <<DepositCollateral(Native(x))>>, x, Native(x))

\* get_token_account, in request_airdrop: the account is there.
TokenFound ==
  /\ next = "token" /\ ledger.token
  /\ next' = "hash" /\ ixs' = <<RequestAirdrop>>
  /\ UNCHANGED <<onChain, ofLine, misled, reported>>

\* Wrong on purpose: an error changes nothing.
TokenErrIgnored ==
  /\ next = "token"
  /\ next' = "hash" /\ ixs' = <<RequestAirdrop>>
  /\ misled' = ledger.token
  /\ UNCHANGED <<onChain, ofLine, reported>>

\* Every error is taken for an account that does not exist.
TokenErr ==
  /\ next = "token"
  /\ next' = "hash" /\ ixs' = <<CreateToken, RequestAirdrop>>
  /\ misled' = ledger.token
  /\ UNCHANGED <<onChain, ofLine, reported>>

FundHash ==
  /\ next = "hash" /\ next' = "send"
  /\ UNCHANGED <<onChain, ofLine, ixs, misled, reported>>

\* get_latest_blockhash().await.unwrap()
FundHashErr ==
  /\ next = "hash" /\ next' = "panicked"
  /\ UNCHANGED <<onChain, ofLine, ixs, misled, reported>>

Units(seq) == IF Has(seq, "deposit") THEN seq[1].arg ELSE 0

\* send_and_confirm_transaction_with_spinner returns a signature.
FundSend ==
  /\ next = "send" /\ CanLand(ledger, ixs)
  /\ ledger' = Landed(ledger, ixs) /\ reported' = reported + Units(ixs)
  /\ next' = "prompt"
  /\ UNCHANGED <<inFlight, ofLine, ixs, misled>>

MayLandLater == inFlight' \in {inFlight, inFlight \cup {[line |-> lines, ixs |-> ixs]}}

\* Wrong on purpose: it is sent once more, with a new blockhash.
FundSendErrRetries ==
  /\ next = "send" /\ MayLandLater
  /\ next' = "hash"
  /\ UNCHANGED <<ledger, ofLine, ixs, misled, reported>>

\* It returns an error, which is printed; create_cypher_user unwraps it.
FundSendErr ==
  /\ next = "send" /\ MayLandLater
  /\ next' = IF Has(ixs, "user") THEN "panicked" ELSE "prompt"
  /\ UNCHANGED <<ledger, ofLine, ixs, misled, reported>>

\* A lost transaction lands, if the chain still allows it, or expires.
FundLandLate(t) ==
  /\ t \in inFlight /\ inFlight' = inFlight \ {t}
  /\ CanLand(ledger, t.ixs) /\ ledger' = Landed(ledger, t.ixs)
  /\ misled' = (misled \/ (next \in {"hash", "send"} /\ Has(t.ixs, "createToken")))
  /\ UNCHANGED <<next, ofLine, ixs, reported>>

FundExpire(t) ==
  /\ t \in inFlight /\ inFlight' = inFlight \ {t}
  /\ UNCHANGED <<ledger, next, ofLine, ixs, misled, reported>>

\* The program is started again.
FundRestart ==
  /\ next' = "prompt" /\ ixs' = <<>> /\ typed' = NoAmount /\ misled' = FALSE
  /\ UNCHANGED <<onChain, lines, asked, reported>>

Command ==
  \/ Airdrop \/ (\E n \in Numbers : NewAccount(n))
  \/ (\E k \in Delegates \ {NoKey} : Delegate(k)) \/ (\E x \in Amounts : Deposit(x))
  \/ TokenFound \/ TokenErr \/ FundHash \/ FundHashErr \/ FundSend \/ FundSendErr

FundChain == \E t \in inFlight : FundLandLate(t) \/ FundExpire(t)

---------------------------------------------------------------------------
InHand == next \in {"hash", "send"}

\* An airdrop goes to an account that exists or that its transaction creates
\* first, and creates one that exists, for which the chain would refuse it, only
\* if the node misinformed the program or a lost transaction overtook it.
AirdropFits ==
  InHand /\ Has(ixs, "airdrop") =>
    /\ ledger.token \/ ixs[1] = CreateToken
    /\ ledger.token /\ Has(ixs, "createToken") => misled

\* What is deposited is what was typed, cut to native units and then up to one
\* unit, in spite of two roundings, and never more than what was typed in whole
\* units; as long as an f64 tells half units apart.
DepositIsTyped ==
  InHand /\ Has(ixs, "deposit") /\ typed.d # 0 /\ typed.n >= 0
      /\ 2 * typed.n * Scale < Pow2[Precision] * typed.d =>
    IsAbout(typed, ixs[1].arg)

\* Whatever is lost, lands late or is cut off by a restart: all that was reported
\* as deposited is on the chain, and no line is deposited twice.
DepositsAreAsked == reported <= ledger.deposits /\ ledger.deposits <= asked
=============================================================================
