----------------------------- MODULE Transfers -----------------------------
(* A payment by transfer, from the price to the proof: how the buyer turns an *)
(* amount into a transaction, how a merchant's x402 challenge binds it, and   *)
(* what the seller or the merchant makes of it once it is on the chain. An    *)
(* amount may be finer than the units the chain counts in.                    *)
EXTENDS Rules

CONSTANTS
  PartsPerUnit,     \* an amount is a number of such parts of a lamport (or of
                    \* a token's smallest unit)
  Payers, Payees, Mints,
  Amounts, References  \* bounds: of the challenges

ASSUME TransfersAssumption == PartsPerUnit \in Nat \ {0} /\ Amounts \subseteq Nat \ {0} /\ None \notin References

-----------------------------------------------------------------------------
(* Building and signing. *)

CheckAmount(amount, maxAmount) == amount > 0 /\ (maxAmount = None \/ amount <= maxAmount)

MutRoundsDown(amount) == amount \div PartsPerUnit

(* Math.round(amount * LAMPORTS_PER_SOL), or by the decimals of the mint. *)
BaseUnits(amount) == RoundDiv(amount, PartsPerUnit)

TransferInstruction(from, to, amount, opts) ==
  [program |-> IF opts.mint = None THEN "system" ELSE "token", from |-> from, to |-> to, mint |-> opts.mint,
   units |-> BaseUnits(amount), keys |-> IF opts.reference = None THEN <<>> ELSE <<opts.reference>>]

(* The memo first; before a transfer of tokens the recipient's account is     *)
(* created unless it is there; the transfer comes last.                       *)
BuildTransferInstructions(from, to, amount, opts) ==
  LET memo    == IF opts.memo = None THEN <<>> ELSE <<[program |-> "memo"]>>
      account == IF opts.mint = None THEN <<>> ELSE <<[program |-> "account", of |-> to, mint |-> opts.mint]>>
  IN memo \o account \o <<TransferInstruction(from, to, amount, opts)>>

(* The one transaction, or none where it throws: then nothing is signed. *)
BuildTransferTransaction(from, to, amount, opts) ==
  IF CheckAmount(amount, opts.maxAmount)
  THEN {[feePayer |-> from, instructions |-> BuildTransferInstructions(from, to, amount, opts)]}
  ELSE {}

SignTransferTransaction(signer, to, amount, opts) ==
  {Put(tx, "signer", signer) : tx \in BuildTransferTransaction(signer, to, amount, opts)}

-----------------------------------------------------------------------------
(* Verifying. *)

Fee == 1

(* What a wallet gains by an executed transaction, in SOL or in a token. *)
Gain(tx, wallet, mint) ==
  LET paid == Last(tx.instructions)
      signed(yes, n) == IF yes THEN n ELSE 0
  IN signed(paid.mint = mint /\ paid.to = wallet, paid.units) - signed(paid.mint = mint /\ paid.from = wallet, paid.units)
       - signed(mint = None /\ tx.feePayer = wallet, Fee)

(* validateTransfer (@solana/pay): the last instruction is a transfer of the  *)
(* kind asked for and names the reference and nothing else, and the balance   *)
(* of the recipient has grown by the amount at least.                         *)
ValidateTransfer(tx, opts) ==
  LET last == Last(tx.instructions) IN
  /\ last.program = (IF opts.mint = None THEN "system" ELSE "token")
  /\ last.keys = <<opts.reference>>
  /\ Gain(tx, opts.recipient, opts.mint) * PartsPerUnit >= opts.amount

VerifyPayment(txs, opts) == \E tx \in txs : ValidateTransfer(tx, opts)

-----------------------------------------------------------------------------
(* x402. *)

X402Challenge(order, reference, mint) ==
  [amount |-> order.amount, payTo |-> order.seller, resource |-> "resource", reference |-> reference, mint |-> mint]

(* What a payment has to prove to the one who asked for it. *)
Expected(accept) ==
  [recipient |-> accept.payTo, amount |-> accept.amount, reference |-> accept.reference, mint |-> accept.mint]

BuildPaymentPayload(accept, signer) ==
  LET opts == [mint |-> accept.mint, reference |-> accept.reference, memo |-> accept.resource, maxAmount |-> None]
  IN [scheme |-> "exact", reference |-> accept.reference,
      transaction |-> SignTransferTransaction(signer, accept.payTo, accept.amount, opts)]

(* It is a payload, and complete. *)
DecodePayload(header) ==
  {"scheme", "reference", "transaction"} \subseteq DOMAIN header /\ header.scheme = "exact" /\ header.transaction # {}

IsFor(header, expected) == DecodePayload(header) /\ header.reference = expected.reference

(* settleX402, by the merchant itself and with nothing failing on the chain. *)
SettleX402(header, expected) == IsFor(header, expected) /\ VerifyPayment(header.transaction, Expected(expected))

(* The client does not take the merchant's word. *)
Accepts(header, accept) == VerifyPayment(header.transaction, Expected(accept))

-----------------------------------------------------------------------------
(* Properties. *)

Challenges ==
  {X402Challenge([amount |-> amount, seller |-> payee], reference, mint) :
     amount \in Amounts, payee \in Payees, reference \in References, mint \in Mints \cup {None}}

(* Whole units, or so close to the next that the transfer moves those. *)
IsCovered(amount) == amount % PartsPerUnit = 0 \/ 2 * (amount % PartsPerUnit) >= PartsPerUnit

Settled(payer, c, d) ==
  LET header    == BuildPaymentPayload(c, payer)
      relabeled == [header EXCEPT !.reference = d.reference]
  IN /\ SettleX402(header, c) <=> payer # c.payTo /\ IsCovered(c.amount)
     /\ SettleX402(header, c) <=> Accepts(header, c)
     /\ d.reference # c.reference => ~SettleX402(header, d) /\ ~SettleX402(relabeled, d)
     /\ SettleX402(header, d) /\ d.payTo = c.payTo => d.mint = c.mint /\ d.amount < c.amount + PartsPerUnit

AllSettled == \A payer \in Payers, c, d \in Challenges : Settled(payer, c, d)

(* A payment settles the very challenge it was signed for, in SOL or tokens,  *)
(* if it goes to another wallet and its amount is not rounded down to lamports *)
(* (signer.ts:145 rounds to the nearest, verifyPayment compares the amount as *)
(* it is, so that a price with a small part of a lamport is paid and then     *)
(* refused); it settles no other challenge, even if its payload is given the  *)
(* other's reference; and merchant and client judge it alike.                 *)
PaymentsAreBound == shown # <<>> => AllSettled
=============================================================================
