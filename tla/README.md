# CoralOS-Agentic in TLA+

This directory models the market of agents in the repository, from the containers
its agents run in to the money they settle: the Solana escrow programs, the
policy signer that holds the buyer's key, buyer, sellers and verifier, the
client through which CoralOS's mentions reach them, the messages they exchange
and what the feed folds of these, the rules by which they quote, award, pay and
verify, the x402 payments for resources over HTTP, the ledger of rounds, the
odds that are sold and graded, and the launchers. Every definition is
translated from the code; `PROJECT.json` maps each to the lines it stands for,
lists the runs, and names for every property a mutant of the code that it
refutes.

## 1. Inventory

| Component | State it keeps | Operations | Talks to |
| --- | --- | --- | --- |
| Escrow program, SOL (`programs/escrow`) | one Escrow account per (buyer, reference), its lamports | initialize, release, refund | Solana runtime |
| Escrow program, SPL | one EscrowSpl account and one token vault per (buyer, reference) | initialize_spl, release_spl, refund_spl | token program |
| Arbiter program (`programs/arbiter`) | the configured arbiter; one vault PDA per reference | init_config, open, arbitrate_release, arbitrate_refund and their SPL twins | escrow program, by CPI |
| Policy signer (`examples/patchbond/src/signer-server.ts`) | `orders`, `depositedSol`, in memory | POST /deposit, /release, /refund | escrow program, by transactions |
| PatchBond escrow client (`patchbond-core/src/escrow.ts`) | none | build, send and confirm the transactions; look up an escrow | Solana RPC |
| Buyer agent | round, bids, terms, `spentSol`, in memory | one loop per round | CoralOS, signer |
| Seller agent | `quoted`, `awarded`, in memory | answers WANT, AWARD, PAYMENT_PROOF | CoralOS, Solana RPC, harness |
| Verifier agent | none | answers VERIFY | CoralOS, test runner |
| CoralOS client (`agent-runtime/src/coral`) | `pendingMentions`, read in a batch and not yet handed out; `lastThreadId` | connect, wait for a mention, for one in a thread, for an agent; `runLoop`; open and close a thread; shut down | CoralOS server |
| Market protocol (`market/protocol.ts`) | none | format and parse the messages | the agents, the feed |
| Pricing, award, spend policy, verify gate, patch scoring | none | `decideBid`, `pickWinner`, `rankBids`, `enforce`, `decideVerifyEscalation` | the agents; the feed's statistics |
| Payment runtime (x402) | none | challenge, sign, settle directly or by a facilitator, fetch and pay | HTTP, Solana RPC |
| Solana signing (`agent-runtime/src/solana`) | none | build, cap, sign and submit a transfer; verify a payment | Solana RPC |
| Feed (`examples/txodds/feed`) | none beyond the folders | fold a transcript, persist, replay | CoralOS state, run ledger |
| Run ledger (`agent-runtime/src/ledger`) | run folders on disk | write, list, reputation, clearing prices | feed, proxy |
| Grading | grades in the run folders | read the scores, grade, write back | TxLINE, run ledger |
| Research watcher | snapshot of the odds, a bounded event queue | detect, enqueue, hand out | proxy's board, buyer's WANT feed |
| TxLINE reads (`service.ts`, its standalone and proxy copies) | none | choose a market, name its favourite | TxLINE |
| TxODDS proxy | `openX402Challenges`, `apiToken`, `boardCache`, in memory | the paid endpoint, the board, the button that starts a round, forwarding | x402, TxLINE, feed, CoralOS |
| Launchers (`coral/round.ts`, `scripts/txodds*.js`, PatchBond's start) | the services a script started | clean up, create a session, start and stop services, retry | Docker, CoralOS, ports |
| Harness runtime | a child process | run a job under a timeout and an output cap | Codex, Claude, service |
| Web UIs, demos, agent tools | none | presentation, straight-line calls | everything |

What is hard here:

- **Steps around an `await`.** The signer checks before it sends a transaction
  and records after it is confirmed. Other requests run in between.
- **Failure with an unknown outcome.** `sendAndConfirmTransaction` throws the
  same way whether the transaction failed, executed, or is on its way.
- **State in memory only.** The signer's and the agents' maps die with them,
  the money on the chain does not.
- **Late messages.** Every wait of the buyer has a limit, and what comes after
  it is read by some later wait. Deliveries carry a round but no reference. The
  feed folds all of them, in thread order, and a restarted buyer counts its
  rounds from one again.
- **Coalesced answers.** CoralOS answers a wait with one mention or several, and
  several waits of an agent stand side by side.
- **A cache over a source with gaps.** TxLINE fails, flickers and moves on under
  a scan; calls of the proxy overlap, and a watcher compares what it is shown.
- **Check, then act, on the machine.** Launchers list containers and remove
  them, look at a port and spawn, while CoralOS and other scripts do the same.
- **Roundings and defaults.** Scores, prices and lamports are rounded, missing
  statistics are replaced by defaults, and a decision rests on the result.
- **Strangers on the chain.** Anybody may send lamports or tokens to any
  address and create token accounts, before, during and after an order.
- **Pay first, receive later.** Over x402 the client signs and the merchant
  submits. Between the signature and the resource lie two nodes, a connection,
  a bounded table of challenges and perhaps a facilitator.
- **Two writers of one folder.** The feed and the proxy both read a round's
  `run.json`, and each writes the whole of it back, in processes of their own.
- **Rent.** Accounts cost a deposit that must come back, and the runtime
  refuses to leave an account nonempty below the rent-exempt minimum.

What makes each part correct: the escrow pays its one seller exactly or returns
everything after the deadline, and never locks up; the arbiter alone ends an
arbitrated order; the signer keeps its cap and never loses sight of an order;
the buyer releases only for work that passed, announces only what happened,
keeps its session cap and settles what it funded; a seller works only on funded
orders; an x402 merchant delivers for real payments and a client pays for what it
gets; a round's folder ends up holding the whole round and its grade. A mention
is handed out once, in order, and lost for known reasons only; the rounds the
feed shows are what the agents said, now and in replay; an award goes to no
worse bid, a quote is one the buyer's policy lets it pay, and the verifier is
spared on an earned record only; a payment settles the one challenge it was
signed for; a board outlives TxLINE's gaps, the watcher's queue loses to newer
events only, and the side a read names is the side it is graded by; a launch
leaves whole rounds and no earlier ones.

## 2. Modules

| Module | Models | Uses |
| --- | --- | --- |
| `Settlement` | the abstract contract of an order: funded, then paid or, from the deadline on, returned | |
| `Escrow` | the SOL instructions over the lamports of all accounts | refines `Settlement` |
| `EscrowProofs` | theorems about `Escrow` | TLAPS |
| `EscrowSpl` | the SPL instructions over token accounts | refines `Settlement` |
| `EscrowSplProofs` | theorems about `EscrowSpl` | TLAPS |
| `Arbiter` | the arbiter's SOL instructions | instance of `Escrow` |
| `ArbiterProofs` | theorems about `Arbiter` | TLAPS |
| `Signer` | the policy signer | instance of `Escrow` |
| `SignerProofs` | theorems about `Signer` | TLAPS |
| `Market` | buyer, sellers, verifier | instance of `Signer` |
| `MarketProofs` | theorems about `Market` | TLAPS |
| `X402` | a client, a merchant and the chain between them | |
| `X402Proofs` | theorems about `X402` | TLAPS |
| `Ledger` | the run folders under the feed's polls and the proxy's grading passes | |
| `Mentions` | the CoralOS client under waits, coalesced answers, breaks and the end of its process | |
| `Wire` | the messages of the market as tokens: formatting and parsing | |
| `Fold` | the conversation of buyer, sellers and verifier, what the feed folds of it, its records and their replay | extends `Wire` |
| `Rules` | quotes, awards, patch scores, spend policy, verify gate | extends `Fold` |
| `Transfers` | transfers, their verification, challenges and payloads as data | extends `Rules` |
| `FeedProofs` | theorems about `Fold`, `Rules`, `Transfers` and `Ledger`: the feed, what is made of it, and what it writes | TLAPS |
| `Odds` | markets, favourites, moves of odds, the services' dispatch, the grade | |
| `Watch` | proxy's board, watcher's queue and the reads made of them | extends `Odds` |
| `Sessions` | launches, their cleanups, and the services of the scripts | |
| `Filters` | the code's `filter`, for `Mentions`, `Odds`, `Watch` and `Wire` | |
| `AgentProofs` | theorems about `Sessions` and `Mentions`, the two sides of CoralOS, and about `Watch` | TLAPS |
| `MC...` | constants for TLC | one of the above; `MCFold` extends `Transfers` |

**Escrow.** An account's address is the pair of its seeds, `<<buyer, reference>>`.
One action is one confirmed transaction; a transaction that fails changes
nothing and is no step. `lamports` covers wallets and escrow addresses alike, so
that gifts to an address not yet opened are visible. The runtime's rule that an
account ends a transaction empty or rent exempt is `RentExempt`. Transaction fees are left out, and
sellers are wallets, not program accounts.

**EscrowSpl.** An ATA is `<<owner, mint>>`. A transfer, the closing of the vault
and the closing of the account are one action, because they are one
transaction. Lamports are left out here; `Escrow` has them.

**Arbiter.** Vaults are wallets of the inner `Escrow` that no party can sign
for. `open` and `arbitrate_refund` move lamports before or after the call of the
escrow program, so `Escrow`'s operators take the balances they apply to. The
parties may call the escrow program directly (`Directly`, `OnTheirOwn`).

**Signer.** A request is `Deposit`/`Release`/`Refund` (all that runs before the
`await`), `Land` (the cluster executes the transaction), `Confirm` (the handler
resumes). `Fail` and `LoseConfirmation` are the two meanings of the one
exception the handler sees; `Restart` clears the maps and leaves the
transactions on their way as `orphans`. One clock serves the signer and the cluster.

**Market.** `pc` is where the buyer's loop stands; every `waitFor` with its
three outcomes (the message, another message, the limit) is an action of its
own. An agent's mentions are a queue. Agents of CoralOS that wait for one peer
(the bids) read the same queue here. The verifier, the harness and the scores
of the award are choices. A failed call of the buyer is `SignerFails` or
`RoundError`: the one `catch` of the loop.

**X402.** One purchase is a `fetch` record that walks through `fetchWithX402`,
one payment a `handler` that walks through `handleEdgeX402`, `settleX402` and
`submitSignedTransaction`; a step ends where the code awaits. A challenge is its
reference, since all else in it is the same for every request; `born` orders
the references as the Map of open challenges does. A transaction executes,
executes with an error, or is dropped, at any time after it was sent; waiting
for its confirmation may time out first. `settler` says whether a facilitator
is configured. A payment that has left the client may reach the merchant at
any later time (`Accept`, `UnknownReference`), also when the client has given
up on the connection. What is outside the code and goes wrong (a connection, a node, TxLINE, the facilitator, a restart) is noted in
`trouble`. The client pays with a transaction it built itself, so that a payment
of another amount or to another address is left out.

**Ledger.** What a round's fold says depends on how many of its messages were
seen, and in `Ledger` that number stands for it. A poll of the feed is
`Ask`/`Answer` (the `await` of Coral's state), then the loop of `persistRounds`
round by round: `ReadOutcome`, `WriteRecord` (run.json), `WriteTranscript`,
until `ServeLive` or `FailToMerge`. A grading pass is `ListCandidates`, then
per round `FetchScores` (the `await` of TxLINE), `ReadBack`, `WriteGrade`,
`WriteBackTranscript`. The synchronous steps of one process are not interleaved
with each other (`FeedIsFree`, `ProxyIsFree`), those of the two processes are.
Other facet files are never read back and are left out. Writing a file is one
step; when the process stops instead of taking it, the file may be left empty
(`Torn`). `FeedProofs` is about `Ledger` and `Fold` together, so the names of
`Ledger` differ from those of `Fold` (`LedgerInit`, `Folders`, `RunJsons`). A reader that meets a file in the very moment between truncation and
contents is left out: it fails once and changes nothing.

**Mentions.** A message is its place in `sent`, a record of sender, thread and
whether it has a text. `inbox` is what CoralOS holds, an `answer` what it took
from it for a wait and the agent has not read: `Deliver` takes any nonempty
prefix of what the wait is about, so that every way to coalesce is covered.
`call` is what each strand of the agent's code does, the main one and one per
peer (the buyer waits for all bidders at once). `responder` chooses between
`runLoop` and a program of its own that calls the client in any order. `Break`
is a call that throws: what its answer had taken is lost. `Only` is the filter of
`parseMentions`, and what CoralOS leaves of its list; it is in `Filters`, a
recursive function, since `SelectSeq` is closed to the provers. `exiting` walks from
`Connect` (or `FailToConnect`, which ends the process) through the shutdown
handler, which runs beside the strands. The `JSON` of an answer is abstracted to
`HasText`.

**Wire, Fold.** A message is a verb and a sequence of tokens; free text (the
note of a bid) is a sequence of tokens that its author chooses, and a parser
takes the first it finds. `said` is CoralOS's transcript thread by thread. What
the agents may say when is taken from their loops (`Want` ... `Refund`, each
one message, procurement its three), for both rails; a seller and the verifier may be late, a buyer is at
one round of its present life, and `Restart` opens a new thread and counts from one.
`FoldRounds` is `foldRounds.ts` case by case, as a recursive function over the
collected messages (`TakeText` is the body of its loop). A text also carries the thread
it was posted in and the fields its author meant: the properties and the guards
of the agents read those, the fold only what it parses. `Fold`'s poll folds at every message; that polls overlap and may be
late is `Ledger`'s subject. `Records`, `Reputation`, `Score` and
`ClearingRounds` are what the ledger makes of the rounds.

**Rules, Transfers.** Pure code as operators, with the code's own defaults for
what is missing (a feed that is down, a variable that is not set). They are
checked over sets of inputs from the configuration, and, where they read the
history of the market (`TrustIsEarned`), in every state of the conversation.
Math.round is `RoundDiv`; prices are multiples of 200 so that 97 % of a median
is whole. The award by score rounds once per bid, so a better patch may lose by less than
a rounding (`IsUndominated`). In `Transfers` a price is a number of parts of a lamport. A transaction is the sequence of its
instructions; what it moves is what `Gain` reads off the chain's metadata.

**Odds, Watch.** A market is a kind, outcomes and prices, of which some may be
`NA`. Each program's way to the favourite is an operator of its own, since each
has its own copy of that code. A call of the proxy walks through `Ask`,
`Activate`, `List`, `Scan` per fixture in any order, `Finish`; every request may
fail instead (`Unavailable`, `Skip`, `MisActivate`). `Poll` is the watcher
reading an answer, `Pop` the buyer's `/next`. `followed` follows one event,
whichever, through the queue.

**Sessions.** A launch is a record that walks through its cleanup, image by
image (`ListImage`, then `RemoveImage`, or `SkipImage` when Docker fails), to
`Create`. CoralOS creates the containers of a session later, one by one
(`Spawned`). A script walks through its ports: `Probe`, `SpawnService`, and
`Listen` at any later time. `excused` and `bereft` note what a launch or script
met that it cannot see: containers still to be created, Docker's failures,
another launch, the end of another script.

History variables (marked so) are read by properties, and in `Signer` `asked`
also keeps clients from naming a reference twice, which the buyer never does.

An operator named `Mut...` is not part of the model. It is a plausible mistake
in the definition next to it, and `PROJECT.json` pairs it with the property
that notices.

## 3. Runs

| Run | Shows | Bounds |
| --- | --- | --- |
| `escrow` | solvency, conservation, no lock-up, fixed terms, refinement of `Settlement` | two wallets (buyer and seller may coincide), one reference used again and again, amounts 0, 1, 4 around a rent of 3 and a minimum of 2, gifts of 1 and 2, deadlines at, before and after the clock (0..2) |
| `escrow_spl` | funded vaults that end empty, settleable when exact, refinement | two wallets, two mints, one of them new to the seller, one reference |
| `arbiter` | only the arbiter settles, always can, in full; vaults keep what is theirs | two parties, either of which may be the arbiter, one vault for successive orders |
| `signer` | the cap with and without overlap, what strands an order | two requests in flight, three references (symmetric), cap filled by one deposit, amounts -1, 2, 3, a lost confirmation at any point, one restart |
| `market` | work is funded, announcements are true, the session cap holds, confirmed orders are settled (liveness) | one seller, two rounds and references, prices 1 and 2, a session cap of 3, clock 0..2, the cluster one tick behind, failures and restarts on |
| `market_rivals` | the buyer pays only for good work | two sellers (symmetric), two rounds, no failures |
| `ledger` | grades are lost to races and crashes only; folders catch up; rounds are graded in the end (liveness) | one round of two messages, two polls that overlap, one grading pass, one stop of either process |
| `x402` | delivery and reported settlements are paid for, nobody pays for nothing, challenges are given up in order | three purchases (symmetric) and references (symmetric), room for two open challenges, either settler, one restart |
| `mentions` | mentions are handed out once and in order, lost for the stated reasons only, reach `runLoop`'s handler (liveness); threads are closed | two peers, three messages in a thread, in none, and without a text; one opened thread; one broken call |
| `feed` | the fold shows what was said, replay is the same, legs are told apart, nothing shown is taken back, trust is earned; quotes, awards and payments are sound | two sellers (symmetric), two rounds of up to fifteen messages and one, two lives of the buyer, both rails, a note that looks like fields; three prices, two budgets, scores and claims at the borders of the roundings (0, 39, 40, 50; 0, 49, 50, 100), ten parts of a lamport |
| `watch` | a board outlives outages, the queue keeps the newest, moves are forward in time, all reads agree with each other and with the grade | two overlapping calls (symmetric), two fixtures with two offers each (full, moved, unpriced, with another market in front), a queue of two, kept for two ticks; six results |
| `sessions` | rounds are whole, earlier ones stopped, services served | one user, one ordinary and one agentic script with two attempts, one port, three sessions |

Why these bounds are enough for the cases that matter: one reference suffices
to reuse an address; two wallets include the case of a buyer that is its own
seller; two handlers are what it takes to interleave; two rounds are what it
takes for a late message to meet a new round, and two sellers for it to be late
past the bids of that round; two polls and one pass are what it takes for a
record to be overwritten by its own kind and by the other; three purchases and
room for two challenges are what it takes to evict one; three messages are what
it takes for one to stand before, in and behind a batch; fifteen messages hold a
round with two bids, a procurement, a verdict, a settlement, and what is left of
an earlier life, and the one of the second round is the WANT that moves the buyer on; two scans
are what it takes to finish in the wrong order; three sessions are a round, the
one that replaces it and one launched meanwhile. `Ledger` checks one
round: polls and passes treat rounds one after the other and each has a folder
of its own, so a second round adds only that a torn record ends the loop for the
rounds behind it, which the properties count as torn for all. The ports of a
script are treated one after another, so one port shows what two scripts can do
to each other at it; `AgentProofs` has any number of both. Deadlock checking
is off where clocks, rounds, messages and references are bounded and the model
stops when they are used up; `Ledger` and `Watch` go on forever and are checked
for deadlock.

## 4. Fairness

`Market`, `Ledger` and `Mentions` have liveness. `Market` assumes weak fairness of `BuyerStep` (the loop is
an endless `while`, each of its waits has a limit and its sleeps end), of `Land`
(the cluster executes a valid transaction sent to it) and of `Tick`. Nothing is
assumed of the sellers, the verifier or failed calls. `Fund` is bounded so that
the deadline of a deposit lies within the model's clock: an order whose deadline
the clock cannot reach would be stuck by the bound and not by the code.

`ConfirmedOrdersAreSettled` holds up to `trouble`: once a call of the round
threw, the loop's `catch` drops the round and nothing takes it up again.

`Ledger` assumes that browsers poll and the proxy grades at intervals (weak
fairness of `Ask` and `ListCandidates`), that code between two awaits goes on,
that the match ends, and strong fairness of the two answers: Coral does not fail
every request and TxLINE does not fail every request about the same round. The
scores of each round have a fairness condition of their own, since a pass that
fails for one goes on to the next. Both liveness properties end in "unless a record is torn",
because nothing in the code repairs a torn record.

`Mentions` assumes weak fairness of `Step` (the agent's own code goes on:
`runLoop` is an endless `while`, handlers return or throw, the shutdown handler
finishes once begun) and strong fairness of the answers to its main strand:
CoralOS does not let every wait time out with a message in its hands. Breaks,
time limits and the signal to end have no fairness, and
`MentionsReachTheHandler` names the ones that may come in between.

`X402` has safety properties only: a merchant, a node or a connection may leave
a client waiting and the code sets no limit of its own.

## 5. Proofs

`EscrowProofs` proves, for all wallets, references, amounts, deadlines and
rents, from the assumptions of `Escrow` (wallets are not pairs of a wallet and a
reference; rents and initial balances are naturals with
`0 < MinBalance <= Rent`; amounts and gifts are naturals; wallets and references
are finitely many, and all lamports together fit a u64):

- `TypeCorrect`: `Spec => []TypeOK`
- `SolvencyHolds`: `Spec => []Solvency`
- `NothingIsMadeOrLost`: `Spec => []Conservation`
- `NothingIsLocked`: `Spec => []NeverLocked`
- `TermsStayFixed`: `Spec => TermsAreFixed`
- `AddressesKeepTheirLamports`: `Spec => DrainedOnlyWhenClosed`
- `Refinement`: `Spec => KeepsPromise`, that is, the program implements `Settlement`

Solvency alone is not inductive: a release must leave the *other* escrows alone,
which needs that an account sits at the key of its own buyer and reference. The
inductive invariant is `IInv == TypeOK /\ KeyedByItsBuyer /\ Solvency`. Lemmas
on the balance operators (`Move`, `Deposited`, `Closed`, `Released`) carry the
arithmetic; each action then preserves each conjunct in a step of its own. The
refinement maps an escrow to its deal and a wallet's balance to its purse; a
gift is `Elsewhere`, the clock is `TimePasses`, and every instruction is the
step of the same name.

`Conservation` is about a fold over all balances. Its lemmas (`TotalOut`: any
element can be taken out of a total first; `TotalSame`, `TotalBelow`,
`TotalAtMost`) are inductions over a finite set, and the library states
induction with an operator as a parameter, which the provers cannot instantiate.
`LeastSubset` takes its place: among the subsets that break a claim one has no
smaller one that does, and for that one the claim follows. Every instruction is
then one or two moves, and a move leaves the total alone (`MoveKeepsTotal`).
`NeverLocked` needs that total too: a transfer fails where the receiver's
balance would leave a u64, and it cannot, since two balances are never more than
all of them (`PairWithinTotal`). It needs `Rents`, that no account is between
zero and the minimum, which every instruction checks for every account. The
property names the conditions under which an instruction succeeds, `Releasable`
and `Refundable`, which are the guards of `Release` and `Refund`; it does not
use ENABLED, which the provers do not reason about.

`X402Proofs` proves, for any number of purchases, references, open challenges
and restarts, from `X402Assumption` (finitely many references, room for at
least one challenge, `None` is no reference):

- `DeliveryIsPaidFor`: `Spec => []DeliveredOnlyForPayment`
- `ReportedSettlementsAreReal`: `Spec => []SettlementsAreReal`
- `NobodyPaysForNothing`: `Spec => []UnservedOnlyByTrouble`
- `TypeCorrect`: `Spec => []TypeOK`, in which the Map of open challenges never
  outgrows `MaxOpen`: a challenge is added to a full Map only after the oldest
  has been taken out (`OldestIsThere`, `SubsetsAreSmaller`)

The first three are not inductive alone. What a client ends with depends on the answer it was
given, the answer on how far its handler was, and that on the transaction. The
invariant `IInv` says so stage by stage: `HandlerInv` what a handler's stage
tells about the transaction, `FetchInv` what an answer tells about it, and
`Ownership` that a reference belongs to one purchase, so that what one client
does never changes what is known of another's payment. One lemma per action
preserves the four conjuncts.

`EscrowSplProofs` proves, for all wallets, mints, amounts and deadlines, from
`SplAssumption` (wallets are not keys; amounts, gifts and initial balances are
naturals; no account is mistaken for its absence):

- `TypeCorrect`: `Spec => []TypeOK`
- `DepositsAreThere`: `Spec => []VaultsAreFunded`
- `ExactEscrowsSettle`: `Spec => []SettleableWhenExact`
- `NothingIsLeftBehind`: `Spec => VaultsAreEmptiedInFull`
- `Refinement`: `Spec => KeepsPromise`

The inductive invariant is `IInv == TypeOK /\ VaultsAreFunded /\ KeyedByItsBuyer`: `release_spl`
closes a vault, and only because the vault of every *other* escrow is another
account, the one its key and its mint name, does that leave them funded. Every
action of `Next` is first shown to be one of four kinds of step, `Opens`,
`Settles`, `Trades` (accounts outside any escrow) or a tick, which say what
happens to the token accounts; the invariant and both theorems about steps are
then proved for those four.

`ArbiterProofs` proves, for any parties, orders and vaults, from
`VaultAssumption` (no party signs for a vault, a vault belongs to one reference),
`ArbiterAssumption` and, for the escrow program it calls, `EscrowAssumption`:

- `TypeCorrect`: `Spec => []TypeOK`
- `OrdersStayInReach`: `Spec => []ArbiterCanSettle`
- `NobodyElseSettles`: `Spec => OnlyTheArbiterSettles`
- `NothingIsSkimmed`: `Spec => OrdersAreSettledInFull`

Here the type invariant is inductive and enough, because it says who can sign: a direct
call of the escrow program is signed by a party, and the escrow of an order is
at an address seeded by its vault, which is no party. The lemma `Step` says
once, for every action, that it either leaves an order as it is and takes
nothing from its vault, or is signed by the arbiter and pays the seller or gives
all. For `OrdersStayInReach` the module instantiates `EscrowProofs` and cites its
lemmas: the assumptions hold of the instance (`ProgAssumed`), a step of a party
is a step of the escrow program, a step of the arbiter program opens or closes
one of its escrows, and so the program's invariant, total and rents
(`EscrowInv`) are kept by all of them.

`SignerProofs` proves, for any finite set of handlers and any references, from
`SignerAssumption` (the buyer is a wallet, the cap is a natural) and
`ChainAssumption` (the assumptions of the escrow program):

- `NothingElseStrands`: `Spec => []StrandedOnlyByLoss`
- `CapOvershootIsBounded`: `Spec => []OvershootIsBounded`

That a funded escrow is recorded or about to be (`Reachable`) is not inductive:
a release that confirms takes the order of its reference out of the map. It
must be known that the escrow is settled by then (`SettledIsSettled`), that no
deposit for that reference is under way beside it (`DepositsAreAlone`), so that
none can fund it again, and that a deposit
nobody waits for any more is already counted as lost (`OrphansAreLost`).

How far the signer's count can go depends on what its handlers still wait for.
`CInv` adds that up: `Coming` is what the deposits in flight will add to the
count when they are confirmed, `Spent` what those of them that have landed cost.
The count and what is coming stay within a cap for every handler, because a
handler that passes the check before the `await` is idle and leaves its own cap
unused (`RoomForOne`); with one deposit at a time nothing else is coming, so
they stay within one cap. The count and what is spent are at most what was
funded, and exactly that while nothing is lost. Each action changes at most one
handler, so each sum by one term (`OneChanges`); the sums are the totals of
`EscrowProofs`, cited through an instance of it.

`AgentProofs` proves of `Sessions`, for any list of ports and any number of
scripts, launchers, sessions and attempts, from `SessionsAssumption`:

- `NoServiceIsLost`: `Spec => []ServicesAreServed`
- `RoundsStayWhole`: `Spec => []RoundsAreWhole`
- `EarlierRoundsAreStopped`: `Spec => []OldRoundsAreStopped`

For the services the invariant `IInv` adds `PassedAreServed`: a script that is
still going through its ports has the ones behind it served. For the rounds
`RInv` adds what a cleanup has achieved when it is half way through the images
(`CleanupsAreGood`: none of the earlier containers of the images behind it is
left, and its listing names all that is left of the image it is at) and what
every state between launches has (`LastIsWhole`).

and of `Mentions`, for any set of scenarios, any number of peers, threads, opened
threads and breaks, from `MentionsAssumption` (no peer is called `"main"`, and
the marker for "no thread" is no data):

- `MentionsKeepTheirOrder`: `ClientSpec => []HandedOnceInOrder`
- `NoMentionIsLost`: `ClientSpec => []LostForAReason`
- `ThreadsDoNotLeak`: `ClientSpec => []ThreadsAreClosed`

A mention passes through three hands: `inbox`, an `answer`, `pendingMentions`.
The invariant `ClientInv` says that each has been taken by one kind of wait
(`TakenOnce`); that each of the three is ascending, and nothing is pending while
an answer is on its way (`QueuesAscend`), which is why putting the rest of an
answer behind `pendingMentions` keeps the order; that what is in the hands
nearer to CoralOS comes later (`InboxIsLater`, `HandedBefore`), for waits of the
main strand among each other and for waits for one peer, but not between the
two; and what the strands can be at (`StrandsCall`): without it the answer to
`create_thread` could be read as mentions. `LostForAReason` is then inductive as
it stands, `ThreadsAreClosed` by `LastIsKnown`. What `Only` computes is an
induction on the length of its argument (`FilterLemma`: it filters, and keeps
what ascends ascending), done as an argument about the least length that fails
(`LeastNumber`), since the library's induction theorems take an operator.

and of `Watch`, for any list of fixtures, any odds and moves of them, any number
of overlapping calls, any times and bounds, from `WatchAssumption` (a board is
kept for longer than it is fresh, the bounds are not zero, every fixture has
odds, and `AreOdds`: a price is an integer or none, outcomes have names, and the
prices of a market that has some are not all zero) and `ResultsAssumption` (the
winner of a result is who its events say has won, `EndedWith`):

- `NewestEventsAreKept`: `WatchSpec => []QueueKeepsNewest`
- `OutagesStayHidden`: `WatchSpec => BoardSurvivesOutages`
- `MovesGoForward`: `WatchSpec => MovesAreBacked`
- `ReadsNameTheFavourite`: `WatchSpec => []ReadsAgree`

`WatchInv` has one part for each. `EventIsFollowed` is `QueueKeepsNewest` itself;
that it survives a poll is `KeptEvents`, about the place of an event in what
`MAX_QUEUE` leaves of the queue and the events behind it. `CacheIsGood` says that
the board in the cache is no older than the last scan that found one, which is
why an outage is answered with it. For the moves, `BoardsAreHonest` says that
every board in the cache, in an answer or in a scan, and what the watcher
remembers, are of offers TxLINE has made, one for each fixture; and
`NothingGoesBack` that, until two calls have overlapped, the cache, the answer
that is on its way and the scan that goes on are no older than what the watcher
saw last. A move is then to an offer that is not older, and to another one, as no
offer has moved from itself (`NoMoveFromItself`, for which the prices the watcher
compares must be numbers: `PctsAreNumbers`).

`ReadsAgree` is mostly about pure functions, for any odds and any list of score
events. Where the 1X2 market is full, every program chooses it (`FullMarket`)
and its numbers keep their places (`OnlyEverything`), so the place of the highest
number, of the highest price and of the highest positive price are the same
(`FullFavourite`). `GradesAreRight` compares the grade's search for the latest
period and the last event with what `EndedWith` says of them, of which there is
but one (`LastIsOne`). `OddsAreSound` follows a fixture's id through each
program's dispatch. That a read off the board is of odds TxLINE has had needs
`BoardsAreHonest` again.

`MarketProofs` proves, for any number of sellers, rounds, references and prices,
from `MarketAssumption` (the buyer's request slot, the two wallets and the
seller's are among those named; prices, caps, rent and initial balances are
naturals; the markers for "none" are no data):

- `CapIsKept`: `Spec => []SessionCapHolds`
- `NothingIsMisreported`: `Spec => []AnnouncementsAreTrue`
- `OnlyGoodWorkIsPaid`: `Spec => []PaidOnlyForGoodWork`
- `WorkStaysFunded`: `Spec => []WorkIsFunded`, types included

The invariant has three parts. `IInv` ties the buyer's place in its loop to the
signer's request (`Requests`), its spending to what was funded (`Accounts`), and
says that a reference is funded once, however many orphaned transactions are
about (`FundedOnce`), so that a settled order is never opened again and what the
buyer announces stays true. `Work` says what makes a PASS mean something: an
order is one seller's (`Owned`), no message and no order is of a round to come
(`RoundsPass`), of the orders of a round only the one whose terms the buyer took
has a deposit (`OneDepositARound`), so what is delivered for this round is
delivered under its reference and nobody delivers under it again (`Deliveries`),
and a release is earned even when nobody waits for it any more
(`ReleasesAreEarned`). `Plain` is the types of what the argument has no use for.
The buyer's steps that only move it along its loop share a lemma (`MovesLemma`),
as do the sellers' that only drop or begin an order (`ServesLemma`).

`FeedProofs` proves, for any sets of sellers, rounds and notes, any number of
starts of the buyer and of messages, any prices, budgets, scores and claims, and
any wallets, tokens, amounts and references, from `FoldAssumption` (rounds are
positive, a note is a sequence of tokens, rails are known ones, `None` is no data), `RulesAssumption`
(prices and budgets are positive, scores and claims within 0..100) and
`TransfersAssumption` (amounts are positive parts of a unit):

- `FoldStaysSound`: `Spec => []FoldInv`
- `FeedShowsWhatIsSaid`: `Spec => []FoldIsRight`
- `FeedTellsLegsApart`: `Spec => []LegsAreToldApart`
- `ReplayShowsWhatWasShown`: `Spec => []ReplayIsLive`
- `HistoryGrows`: `Spec => HistoryOnlyGrows`
- `TrustIsOnTheRecord`: `Spec => []TrustIsEarned`
- `AwardsStaySound`: `Spec => []AwardsAreSound`
- `PaymentsStayBound`: `Spec => []PaymentsAreBound`

`FoldIsRight` is not inductive: it says what is shown and not why the agents
could not have said anything else. `FoldInv` says that threads are sequences of
texts the agents may post, those of lives to come empty; that the talk of each
thread about each round is `Sound`; and that what is shown is the fold of it
all. `Sound` has what the agents' loops guarantee between them: messages are
`Orderly` (the terms of a payment come once and before its proof, the proof
before the confirmation), and a delivery, a verdict, a purchase upstream and the
end come after what they are about. Each thing that can be said
preserves it (`WantSays` to `RefundSays`), as does a restart. The rest follows
from it without another step of the specification, along these lemmas:

- On the wire (`FieldIsReadBack`, `TextsAreUnderstood`): a parser finds the field
  its author meant, because every field stands before the free text and each key
  once. So a fold of tokens is a fold of what was meant.
- Rounds apart (`RoundsAreFoldedApart`, `SameRoundsSameFold`): a round is folded from
  the texts about it in their order, whatever stands between. That is what makes
  the replay right too: the folders hold, round by round, the same texts.
- One round (`TakeLemma`, then one lemma per field of a round): after each
  message the award and the verdict are the last of their kind, a
  seller's bid its first, the payment the first terms, the status what was said
  last, and a leg has the proof and the receipt of its own payment.
- Threads together (`OrderlyConcat`): a payment's reference names its thread, so
  the talk of several lives is still orderly.

For the history, `RoundKeeps` says what of a round survives another message, and
what is counted of a seller's record is a set of rounds, which grows. Scores
compare quotients (`Quotient`), rounded ones monotonically (`RoundDivGrows`). Of
finitely many bids one is not beaten, as value and price order them
(`AwardLemma`). A payment is bound since its transaction's last instruction
carries the reference (`SignedLemma`) and what a wallet gains by it is its amount
(`GainLemma`).

What a recursive definition computes for every input needs an induction over
data, which the library states with an operator as a parameter. As with `Only`
in `AgentProofs`, the argument by the least length that fails takes its place.

and of `Ledger`, for any number of rounds, polls and passes, from
`LedgerAssumption`:

- `GradesAreOnlyLostToRaces`: `LedgerSpec => GradesAreOnlyRacedAway`

A poll writes over a record what it has read of it before. The invariant
`WritersCarryGrades` says that a poll about to write over a grade has read that
grade or is in `raced`; it holds because a poll reads and writes without an
`await` in between (`OnePollWrites`), for rounds it has folded
(`PollsAreSound`), and a pass grades only what it could read (`PassesAreSound`).

Only model-checked: liveness under fairness, which the proof system does not
reach. Every invariant and every action property of the runs is a theorem.

## 6. Seen while modelling

Where the code does something else than its own text says, or than one would
expect. The properties are stated so that they hold in spite of these, and their
comments name the exceptions.

The escrow and its signer:

- `README.md:160` says the signer keeps a cap. It compares with the amount
  deposited before the `await` (`signer-server.ts:74`) and adds after it
  (`:83`): two overlapping deposits exceed it. `OvershootIsBounded` says by how
  much at most, and that deposits served one at a time do not.
- `README.md:160` says the signer refuses reused references, but release and
  refund delete the order (`signer-server.ts:94` and `:101`) that the deposit
  handler looks for (`:80`), so it does so only until the order is settled.
- `README.md:52` says no-shows are refunded. When the seller's confirmation is
  missing, the buyer ends the round (`buyer-agent/src/index.ts:239`) and never
  refunds the escrow it funded; `ConfirmedOrdersAreSettled` starts at the
  confirmation.
- `programs/escrow/src/lib.rs:183` says the whole token balance returns. The
  recorded amount is transferred (`:213`), so a vault with a further token in it
  can be neither refunded nor released; hence "when exact" in
  `SettleableWhenExact`.

The market:

- A seller's settled count looks for transactions of kind `release`
  (`ledger/reputation.ts:43`), which the feed never writes (`persist.ts:50`). A
  score is therefore at most 40, and at the same price a newcomer's neutral 50
  (`award.ts:14`) beats any record.
- `valueScore` is rounded before it is compared: differences of reputation below
  three points do not count.
- The award of a service other than a patch does not filter bids over the budget.
- The verify gate may skip the verifier; the round is then not settled as
  verified.
- `policy.ts` says in its header that it is for x402; the buyer uses it for
  every rail. A WANT that the feed of events proposes may be for a service
  outside the default allowlist.

The feed and the ledger:

- After the buyer restarts, a late seller's terms in the old thread can make a
  round fall back from paid to awarded, and rounds of two lives with one number
  are folded into one, so that a seller may be credited or blamed for another's.
- A DELIVERED after REFUNDED makes the round delivered again
  (`foldRounds.ts:226`).
- The terms of an order on the escrow rail are folded as a leg, and the seller's
  own purchase then as the round's payment (`foldRounds.ts:155`, against the
  comment at `:147`).
- `feed/src/server.ts:80` says "never break the live feed". A `run.json` left
  empty by a stop (`store.ts:66`) makes every later request fail (`server.ts:84`).
- `agent-runtime/src/ledger/store.ts:17` says a folder "always reflects the
  furthest state it reached". Of two overlapping polls the one answered later
  may write the older fold, until the next poll.

Payments:

- `x402-server.ts:8` says `settleX402` "always re-verifies"; with a facilitator
  it does not (`:148`), which is why `DeliveredOnlyForPayment` is about the
  merchant that settles for itself.
- The proxy sets the header that says settled before it reads the edge
  (`proxy.ts:251`), and `fetchWithX402` does not look at the status, so the
  error body of a failed read counts as the resource bought (`procure.ts:80`).
- `signer.ts:145` rounds to the nearest lamport, the verification compares the
  price as it is: a price with a small part of a lamport is paid and refused.

TxLINE:

- Prices that are not available are dropped before the largest is looked up by
  its place: when one precedes the leader, the label is another outcome's, and a
  move is found where there is none. `ReadsAgree` is about markets with a price
  for each outcome.
- A fixture whose 1X2 market comes and goes is compared with its other market;
  one skipped in a scan is announced as new again; a slow drift never is a move.
- Overlapping scans may put an older board back into the cache, and readers that
  keep it fresh keep the watcher from anything newer than theirs.
- What activation returns is kept before it is looked at (`proxy.ts:115`): a bad
  token stays until the proxy is restarted.

Launchers:

- `round.ts` does not list the verifier's image, so a PatchBond verifier in its
  container survives a TxODDS launch; executable verifiers are stopped by none.
- Containers CoralOS has yet to create are missed by `docker ps`.
- When the images cannot be built the script ends and its services run on; a
  service reused by a script ends with the script that started it.

## 7. Not modelled

- The arbiter's SPL instructions: they repeat the SOL ones over the token
  accounts of `EscrowSpl`.
- The waits of the buyer's loop on the x402 and solana-pay rails. What is said
  on them is `Fold`, what is paid `Transfers` and `X402`.
- The harness runtime: one child process, a timeout and an output cap, without
  state beyond the call. Its result is a choice in `Market`.
- The rail router and the adapters of other payment rails, the remote signer and
  the agent tools: dispatch over calls that are modelled, or wrappers of
  services outside the repository.
- PatchBond's artifacts and platform server, the web interfaces: I/O and
  presentation without protocol state.
- Demos and end-to-end scripts: straight-line callers of the above.
- The text of a language model's read, logging, hashing, the HTTP and JSON
  layers, Docker and CoralOS beyond how the code uses them.
