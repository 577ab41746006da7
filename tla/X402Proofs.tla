------------------------------ MODULE X402Proofs ------------------------------
(***************************************************************************)
(* Theorems about X402, for any number of purchases, references and open   *)
(* challenges: a merchant that settles for itself delivers for payments on *)
(* the chain only, a client reports real settlements only, and nobody pays *)
(* for nothing unless something outside the code went wrong.               *)
(***************************************************************************)
EXTENDS X402, FiniteSetTheorems, WellFoundedInduction, TLAPS

\* The types the first proofs need; the Map of open challenges comes last.
Types == /\ settler \in {"merchant", "facilitator"}
         /\ born \in [Refs -> Nat]
         /\ fetch \in [Fetches -> FetchStates]
         /\ handler \in [Refs -> HandlerStages]
         /\ tx \in [Refs -> TxStages]

\* A reference belongs to one purchase.
Holds(f) == fetch[f].ref # None
Ownership ==
    /\ \A f \in Fetches : At(f, "idle") \/ At(f, "asking") => ~Holds(f)
    /\ \A f \in Fetches : At(f, "challenged") \/ At(f, "paying") \/ At(f, "answered") => Holds(f)
    /\ \A f \in Fetches : Holds(f) => born[fetch[f].ref] > 0
    /\ \A f, g \in Fetches : Holds(f) /\ fetch[f].ref = fetch[g].ref => f = g

\* How far a handler is tells what is known of the transaction.
Paid(r) == tx[r] = "landed" \/ r \in trouble
HandlerInv ==
    \A r \in Refs :
        /\ born[r] = 0 => tx[r] = "unsigned"
        /\ tx[r] = "unsigned" => handler[r] = "none"
        /\ handler[r] = "none" => tx[r] \in {"unsigned", "signed"}
        /\ handler[r] = "submitting" => tx[r] = "signed"
        /\ handler[r] = "verifying" => tx[r] \in {"landed", "failed"}
        /\ handler[r] = "reading" => Paid(r)
        /\ handler[r] = "reading" /\ settler = "merchant" => tx[r] = "landed"

\* The money of r stays with its client.
Unspent(r) == \/ handler[r] = "over" /\ tx[r] \in {"signed", "failed"}
              \/ r \in trouble

FetchInv ==
    \A f \in Fetches :
        LET r == fetch[f].ref IN
        /\ At(f, "challenged") => tx[r] = "unsigned"
        /\ At(f, "answered") => IF fetch[f].header = "settled" THEN Paid(r) ELSE Unspent(r)
        /\ At(f, "answered") /\ fetch[f].header = "settled" /\ fetch[f].body # "resource"
               => r \in trouble
        /\ At(f, "done") /\ ~Holds(f) => fetch[f].header = "none"
        /\ At(f, "done") /\ Holds(f) =>
               IF fetch[f].header = "settled"
                 THEN tx[r] = "landed" /\ (fetch[f].body # "resource" => r \in trouble)
                 ELSE tx[r] = "unsigned" \/ Unspent(r)

IInv == Types /\ Ownership /\ HandlerInv /\ FetchInv

\* The sets the types are made of are expanded everywhere.
USE DEF FetchStates, FetchStages, HandlerStages, TxStages

-----------------------------------------------------------------------------
(* Only the client's own steps, a challenge and an answer change fetch, and *)
(* an answer changes no reference.                                         *)

LEMMA AskStep ==
    ASSUME IInv, NEW f \in Fetches, Ask(f)
    PROVE  IInv'
<1>1. Types'
  BY DEF IInv, Ask, At, FetchTo, Types
<1>2. Ownership'
  BY DEF IInv, Ask, At, FetchTo, Types, Ownership, Holds
<1>3. HandlerInv'
  BY DEF IInv, Ask, At, FetchTo, Types, HandlerInv, Paid, Ownership, Holds,
     FetchInv
<1>4. FetchInv'
  BY DEF IInv, Ask, At, FetchTo, Types, HandlerInv, FetchInv, Paid, Unspent,
     Holds, Ownership
<1>5. QED
  BY <1>1, <1>2, <1>3, <1>4 DEF IInv

LEMMA SignStep ==
    ASSUME IInv, NEW f \in Fetches, Sign(f)
    PROVE  IInv'
<1>1. Types'
  BY DEF IInv, Sign, At, FetchTo, TxTo, Types
<1>2. Ownership'
  BY X402Assumption DEF IInv, Sign, At, FetchTo, TxTo, Types, Ownership, Holds
<1>3. HandlerInv'
  BY X402Assumption DEF IInv, Sign, At, FetchTo, TxTo, Types, HandlerInv, Paid,
     Ownership, Holds, FetchInv
<1>4. FetchInv'
  BY X402Assumption DEF IInv, Sign, At, FetchTo, TxTo, Types, HandlerInv,
     FetchInv, Paid, Unspent, Holds, Ownership
<1>5. QED
  BY <1>1, <1>2, <1>3, <1>4 DEF IInv

LEMMA DisconnectStep ==
    ASSUME IInv, NEW f \in Fetches, Disconnect(f)
    PROVE  IInv'
<1>1. Types'
  BY DEF IInv, Disconnect, At, Throws, Types
<1>2. Ownership'
  BY DEF IInv, Disconnect, At, Throws, Types, Ownership, Holds
<1>3. HandlerInv'
  BY X402Assumption DEF IInv, Disconnect, At, Throws, Types, HandlerInv, Paid,
     Ownership, Holds, FetchInv
<1>4. FetchInv'
  BY X402Assumption DEF IInv, Disconnect, At, Throws, Types, HandlerInv,
     FetchInv, Paid, Unspent, Holds, Ownership
<1>5. QED
  BY <1>1, <1>2, <1>3, <1>4 DEF IInv

LEMMA RefuseStep ==
    ASSUME IInv, NEW f \in Fetches, Refuse(f)
    PROVE  IInv'
<1>1. Types'
  BY DEF IInv, Refuse, At, Throws, Types
<1>2. Ownership'
  BY DEF IInv, Refuse, At, Throws, Types, Ownership, Holds
<1>3. HandlerInv'
  BY DEF IInv, Refuse, At, Throws, Types, HandlerInv, Paid, Ownership, Holds,
     FetchInv
<1>4. FetchInv'
  BY DEF IInv, Refuse, At, Throws, Types, HandlerInv, FetchInv, Paid, Unspent,
     Holds, Ownership
<1>5. QED
  BY <1>1, <1>2, <1>3, <1>4 DEF IInv

LEMMA ReadAnswerStep ==
    ASSUME IInv, NEW f \in Fetches, ReadAnswer(f)
    PROVE  IInv'
<1>1. Types'
  BY DEF IInv, ReadAnswer, At, FetchTo, Throws, Trusts, Verified, Types
<1>2. Ownership'
  BY DEF IInv, ReadAnswer, At, FetchTo, Throws, Trusts, Verified, Types,
     Ownership, Holds
<1>3. HandlerInv'
  BY DEF IInv, ReadAnswer, At, FetchTo, Throws, Trusts, Verified, Types,
     HandlerInv, Paid, Ownership, Holds, FetchInv
<1>4. FetchInv'
  BY DEF IInv, ReadAnswer, At, FetchTo, Throws, Trusts, Verified, Types,
     HandlerInv, FetchInv, Paid, Unspent, Holds, Ownership
<1>5. QED
  BY <1>1, <1>2, <1>3, <1>4 DEF IInv

LEMMA FailToVerifyStep ==
    ASSUME IInv, NEW f \in Fetches, FailToVerify(f)
    PROVE  IInv'
<1>1. Types'
  BY DEF IInv, FailToVerify, At, Throws, Types
<1>2. Ownership'
  BY DEF IInv, FailToVerify, At, Throws, Types, Ownership, Holds
<1>3. HandlerInv'
  BY DEF IInv, FailToVerify, At, Throws, Types, HandlerInv, Paid, Ownership,
     Holds, FetchInv
<1>4. FetchInv'
  BY DEF IInv, FailToVerify, At, Throws, Types, HandlerInv, FetchInv, Paid,
     Unspent, Holds, Ownership
<1>5. QED
  BY <1>1, <1>2, <1>3, <1>4 DEF IInv

LEMMA ChallengeStep ==
    ASSUME IInv, NEW f \in Fetches, NEW r \in Refs, Challenge(f, r)
    PROVE  IInv'
<1>0. Cardinality({q \in Refs : born[q] > 0}) \in Nat
  BY X402Assumption, FS_Subset, FS_CardinalityType
<1>1. Types'
  BY <1>0 DEF IInv, Challenge, At, Types
<1>2. Ownership'
  <2>1. born'[r] > 0 /\ \A q \in Refs \ {r} : born'[q] = born[q]
    BY <1>0 DEF IInv, Types, Challenge
  <2>2. \A g \in Fetches : Holds(g) => fetch[g].ref \in Refs /\ fetch[g].ref # r
    BY DEF IInv, Types, Ownership, Holds, Challenge
  <2>3. \A g \in Fetches : fetch'[g] = IF g = f THEN [at |-> "challenged", ref |-> r,
                                                    header |-> "none", body |-> "none"]
                                            ELSE fetch[g]
    BY DEF IInv, Types, Challenge
  <2>4. QED
    BY <2>1, <2>2, <2>3, X402Assumption DEF IInv, Ownership, Holds, At
<1>3. HandlerInv'
  BY X402Assumption DEF IInv, Challenge, At, Types, HandlerInv, Paid, Ownership,
     Holds, FetchInv
<1>4. FetchInv'
  BY X402Assumption DEF IInv, Challenge, At, Types, HandlerInv, FetchInv, Paid,
     Unspent, Holds, Ownership
<1>5. QED
  BY <1>1, <1>2, <1>3, <1>4 DEF IInv

LEMMA AcceptStep ==
    ASSUME IInv, NEW r \in Refs, Accept(r)
    PROVE  IInv'
<1>1. Types'
  BY DEF IInv, Accept, HandlerTo, Types
<1>2. Ownership'
  BY DEF IInv, Accept, HandlerTo, Types, Ownership, Holds, At
<1>3. HandlerInv'
  BY DEF IInv, Accept, HandlerTo, Types, HandlerInv, Paid
<1>4. FetchInv'
  BY X402Assumption DEF IInv, Accept, HandlerTo, Types, HandlerInv, FetchInv,
     Paid, Unspent, Holds, At, Ownership
<1>5. QED
  BY <1>1, <1>2, <1>3, <1>4 DEF IInv

LEMMA UnknownReferenceStep ==
    ASSUME IInv, NEW r \in Refs, UnknownReference(r)
    PROVE  IInv'
<1>1. Types'
  BY DEF IInv, UnknownReference, HandlerTo, Reply, At, Types
<1>2. Ownership'
  BY DEF IInv, UnknownReference, HandlerTo, Reply, At, Types, Ownership, Holds
<1>3. HandlerInv'
  BY DEF IInv, UnknownReference, HandlerTo, Reply, At, Types, HandlerInv, Paid
<1>4. FetchInv'
  BY X402Assumption DEF IInv, UnknownReference, HandlerTo, Reply, At, Types,
     HandlerInv, FetchInv, Paid, Unspent, Holds, Ownership
<1>5. QED
  BY <1>1, <1>2, <1>3, <1>4 DEF IInv

LEMMA SubmitStep ==
    ASSUME IInv, NEW r \in Refs, Submit(r)
    PROVE  IInv'
<1>1. Types'
  BY DEF IInv, Submit, HandlerTo, TxTo, Types
<1>2. Ownership'
  BY DEF IInv, Submit, HandlerTo, TxTo, Types, Ownership, Holds, At
<1>3. HandlerInv'
  BY DEF IInv, Submit, HandlerTo, TxTo, Types, HandlerInv, Paid
<1>4. FetchInv'
  BY X402Assumption DEF IInv, Submit, HandlerTo, TxTo, Types, HandlerInv,
     FetchInv, Paid, Unspent, Holds, At, Ownership
<1>5. QED
  BY <1>1, <1>2, <1>3, <1>4 DEF IInv

LEMMA SubmitThrowsStep ==
    ASSUME IInv, NEW r \in Refs, SubmitThrows(r)
    PROVE  IInv'
<1>1. Types'
  BY DEF IInv, SubmitThrows, HandlerTo, Reply, At, TxTo, Types
<1>2. Ownership'
  BY DEF IInv, SubmitThrows, HandlerTo, Reply, At, TxTo, Types, Ownership, Holds
<1>3. HandlerInv'
  BY DEF IInv, SubmitThrows, HandlerTo, Reply, At, TxTo, Types, HandlerInv, Paid
<1>4. FetchInv'
  BY X402Assumption DEF IInv, SubmitThrows, HandlerTo, Reply, At, TxTo, Types,
     HandlerInv, FetchInv, Paid, Unspent, Holds, Ownership
<1>5. QED
  BY <1>1, <1>2, <1>3, <1>4 DEF IInv

LEMMA ConfirmStep ==
    ASSUME IInv, NEW r \in Refs, Confirm(r)
    PROVE  IInv'
<1>1. Types'
  BY DEF IInv, Confirm, HandlerTo, Confirmed, Types
<1>2. Ownership'
  BY DEF IInv, Confirm, HandlerTo, Confirmed, Types, Ownership, Holds, At
<1>3. HandlerInv'
  BY DEF IInv, Confirm, HandlerTo, Confirmed, Types, HandlerInv, Paid
<1>4. FetchInv'
  BY X402Assumption DEF IInv, Confirm, HandlerTo, Confirmed, Types, HandlerInv,
     FetchInv, Paid, Unspent, Holds, At, Ownership
<1>5. QED
  BY <1>1, <1>2, <1>3, <1>4 DEF IInv

LEMMA ConfirmThrowsStep ==
    ASSUME IInv, NEW r \in Refs, ConfirmThrows(r)
    PROVE  IInv'
<1>1. Types'
  BY DEF IInv, ConfirmThrows, HandlerTo, Reply, At, Types
<1>2. Ownership'
  BY DEF IInv, ConfirmThrows, HandlerTo, Reply, At, Types, Ownership, Holds
<1>3. HandlerInv'
  BY DEF IInv, ConfirmThrows, HandlerTo, Reply, At, Types, HandlerInv, Paid
<1>4. FetchInv'
  BY X402Assumption DEF IInv, ConfirmThrows, HandlerTo, Reply, At, Types,
     HandlerInv, FetchInv, Paid, Unspent, Holds, Ownership
<1>5. QED
  BY <1>1, <1>2, <1>3, <1>4 DEF IInv

LEMMA VerifyStep ==
    ASSUME IInv, NEW r \in Refs, Verify(r)
    PROVE  IInv'
<1>1. Types'
  BY DEF IInv, Verify, HandlerTo, Settled, Verified, Types
<1>2. Ownership'
  BY DEF IInv, Verify, HandlerTo, Settled, Verified, Types, Ownership, Holds, At
<1>3. HandlerInv'
  BY DEF IInv, Verify, HandlerTo, Settled, Verified, Types, HandlerInv, Paid
<1>4. FetchInv'
  BY X402Assumption DEF IInv, Verify, HandlerTo, Settled, Verified, Types,
     HandlerInv, FetchInv, Paid, Unspent, Holds, At, Ownership
<1>5. QED
  BY <1>1, <1>2, <1>3, <1>4 DEF IInv

LEMMA NotPaidStep ==
    ASSUME IInv, NEW r \in Refs, NotPaid(r)
    PROVE  IInv'
<1>1. Types'
  BY DEF IInv, NotPaid, HandlerTo, Reply, At, Settled, Verified, Types
<1>2. Ownership'
  BY DEF IInv, NotPaid, HandlerTo, Reply, At, Settled, Verified, Types,
     Ownership, Holds
<1>3. HandlerInv'
  BY DEF IInv, NotPaid, HandlerTo, Reply, At, Settled, Verified, Types,
     HandlerInv, Paid
<1>4. FetchInv'
  BY X402Assumption DEF IInv, NotPaid, HandlerTo, Reply, At, Settled, Verified,
     Types, HandlerInv, FetchInv, Paid, Unspent, Holds, Ownership
<1>5. QED
  BY <1>1, <1>2, <1>3, <1>4 DEF IInv

LEMMA VerifyFailsStep ==
    ASSUME IInv, NEW r \in Refs, VerifyFails(r)
    PROVE  IInv'
<1>1. Types'
  BY DEF IInv, VerifyFails, HandlerTo, Reply, At, Types
<1>2. Ownership'
  BY DEF IInv, VerifyFails, HandlerTo, Reply, At, Types, Ownership, Holds
<1>3. HandlerInv'
  BY DEF IInv, VerifyFails, HandlerTo, Reply, At, Types, HandlerInv, Paid
<1>4. FetchInv'
  BY X402Assumption DEF IInv, VerifyFails, HandlerTo, Reply, At, Types,
     HandlerInv, FetchInv, Paid, Unspent, Holds, Ownership
<1>5. QED
  BY <1>1, <1>2, <1>3, <1>4 DEF IInv

LEMMA FacilitatorSettlesStep ==
    ASSUME IInv, NEW r \in Refs, FacilitatorSettles(r)
    PROVE  IInv'
<1>1. Types'
  BY DEF IInv, FacilitatorSettles, HandlerTo, TxTo, Types
<1>2. Ownership'
  BY DEF IInv, FacilitatorSettles, HandlerTo, TxTo, Types, Ownership, Holds, At
<1>3. HandlerInv'
  BY DEF IInv, FacilitatorSettles, HandlerTo, TxTo, Types, HandlerInv, Paid
<1>4. FetchInv'
  BY X402Assumption DEF IInv, FacilitatorSettles, HandlerTo, TxTo, Types,
     HandlerInv, FetchInv, Paid, Unspent, Holds, At, Ownership
<1>5. QED
  BY <1>1, <1>2, <1>3, <1>4 DEF IInv

LEMMA FacilitatorFailsStep ==
    ASSUME IInv, NEW r \in Refs, FacilitatorFails(r)
    PROVE  IInv'
<1>1. Types'
  BY DEF IInv, FacilitatorFails, HandlerTo, Reply, At, TxTo, Types
<1>2. Ownership'
  BY DEF IInv, FacilitatorFails, HandlerTo, Reply, At, TxTo, Types, Ownership,
     Holds
<1>3. HandlerInv'
  BY DEF IInv, FacilitatorFails, HandlerTo, Reply, At, TxTo, Types, HandlerInv,
     Paid
<1>4. FetchInv'
  BY X402Assumption DEF IInv, FacilitatorFails, HandlerTo, Reply, At, TxTo,
     Types, HandlerInv, FetchInv, Paid, Unspent, Holds, Ownership
<1>5. QED
  BY <1>1, <1>2, <1>3, <1>4 DEF IInv

LEMMA DeliverStep ==
    ASSUME IInv, NEW r \in Refs, Deliver(r)
    PROVE  IInv'
<1>1. Types'
  BY DEF IInv, Deliver, HandlerTo, Reply, At, Types
<1>2. Ownership'
  BY DEF IInv, Deliver, HandlerTo, Reply, At, Types, Ownership, Holds
<1>3. HandlerInv'
  BY DEF IInv, Deliver, HandlerTo, Reply, At, Types, HandlerInv, Paid
<1>4. FetchInv'
  BY X402Assumption DEF IInv, Deliver, HandlerTo, Reply, At, Types, HandlerInv,
     FetchInv, Paid, Unspent, Holds, Ownership
<1>5. QED
  BY <1>1, <1>2, <1>3, <1>4 DEF IInv

LEMMA ReadFailsStep ==
    ASSUME IInv, NEW r \in Refs, ReadFails(r)
    PROVE  IInv'
<1>1. Types'
  BY DEF IInv, ReadFails, HandlerTo, Reply, At, Types
<1>2. Ownership'
  BY DEF IInv, ReadFails, HandlerTo, Reply, At, Types, Ownership, Holds
<1>3. HandlerInv'
  BY DEF IInv, ReadFails, HandlerTo, Reply, At, Types, HandlerInv, Paid
<1>4. FetchInv'
  BY X402Assumption DEF IInv, ReadFails, HandlerTo, Reply, At, Types,
     HandlerInv, FetchInv, Paid, Unspent, Holds, Ownership
<1>5. QED
  BY <1>1, <1>2, <1>3, <1>4 DEF IInv

LEMMA LandStep ==
    ASSUME IInv, NEW r \in Refs, Land(r)
    PROVE  IInv'
<1>1. Types'
  BY DEF IInv, Land, TxTo, Types
<1>2. Ownership'
  BY DEF IInv, Land, TxTo, Types, Ownership, Holds, At
<1>3. HandlerInv'
  BY DEF IInv, Land, TxTo, Types, HandlerInv, Paid
<1>4. FetchInv'
  BY X402Assumption DEF IInv, Land, TxTo, Types, HandlerInv, FetchInv, Paid,
     Unspent, Holds, At, Ownership
<1>5. QED
  BY <1>1, <1>2, <1>3, <1>4 DEF IInv

LEMMA RestartStep ==
    ASSUME IInv, Restart
    PROVE  IInv'
<1>1. Types'
  BY DEF IInv, Restart, Types
<1>2. Ownership'
  BY DEF IInv, Restart, Types, Ownership, Holds, At
<1>3. HandlerInv'
  BY DEF IInv, Restart, Types, HandlerInv, Paid
<1>4. FetchInv'
  BY X402Assumption DEF IInv, Restart, Types, HandlerInv, FetchInv, Paid,
     Unspent, Holds, At, Ownership
<1>5. QED
  BY <1>1, <1>2, <1>3, <1>4 DEF IInv

-----------------------------------------------------------------------------
LEMMA InitIInv == Init => IInv
BY X402Assumption DEF Init, IInv, Types, Ownership, Holds, At,
   HandlerInv, Paid, FetchInv, Unspent

\* One case per action: the lemmas above.
LEMMA StepIInv == IInv /\ [Next]_vars => IInv'
<1> SUFFICES ASSUME IInv, [Next]_vars PROVE IInv'
  OBVIOUS
<1>1. CASE UNCHANGED vars
  BY <1>1 DEF vars, IInv, Types, Ownership, Holds, At, HandlerInv, Paid,
     FetchInv, Unspent
<1>2. ASSUME NEW f \in Fetches, Client(f) PROVE IInv'
  BY <1>2, AskStep, SignStep, DisconnectStep, RefuseStep, ReadAnswerStep,
     FailToVerifyStep DEF Client
<1>3. ASSUME NEW f \in Fetches, NEW r \in Refs, Challenge(f, r) PROVE IInv'
  BY <1>3, ChallengeStep
<1>4. ASSUME NEW r \in Refs, Handle(r) PROVE IInv'
  BY <1>4, AcceptStep, UnknownReferenceStep, SubmitStep, SubmitThrowsStep,
     ConfirmStep,
     ConfirmThrowsStep, VerifyStep, NotPaidStep, VerifyFailsStep, FacilitatorSettlesStep,
     FacilitatorFailsStep, DeliverStep, ReadFailsStep DEF Handle
<1>5. ASSUME NEW r \in Refs, Land(r) PROVE IInv'
  BY <1>5, LandStep
<1>6. CASE Restart
  BY <1>6, RestartStep
<1>7. QED
  BY <1>1, <1>2, <1>3, <1>4, <1>5, <1>6 DEF Next

\* Types, ownership of references and what handlers and fetches know of the
\* chain hold in every state.
THEOREM Invariance == Spec => []IInv
BY InitIInv, StepIInv, PTL DEF Spec

\* x402-server.ts:91: a settlement is never trusted on submission alone.
THEOREM DeliveryIsPaidFor == Spec => []DeliveredOnlyForPayment
<1>1. IInv => DeliveredOnlyForPayment
  BY DEF IInv, HandlerInv, DeliveredOnlyForPayment
<1>2. QED
  BY <1>1, Invariance, PTL

\* x402-client.ts:117: a merchant claiming success in a header is not enough.
THEOREM ReportedSettlementsAreReal == Spec => []SettlementsAreReal
<1>1. IInv => SettlementsAreReal
  <2> SUFFICES ASSUME IInv, NEW f \in Fetches, At(f, "done"), fetch[f].header = "settled"
               PROVE  tx[fetch[f].ref] = "landed"
    BY DEF SettlementsAreReal
  <2>1. QED
    BY DEF IInv, FetchInv, Ownership, Holds, At
<1>2. QED
  BY <1>1, Invariance, PTL

\* Nobody pays for nothing by the code's own doing: neither by an evicted
\* challenge, nor by a failed transaction, nor by the order of the steps.
THEOREM NobodyPaysForNothing == Spec => []UnservedOnlyByTrouble
<1>1. IInv => UnservedOnlyByTrouble
  <2> SUFFICES ASSUME IInv, NEW f \in Fetches, At(f, "done"), fetch[f].ref # None,
                      tx[fetch[f].ref] = "landed", fetch[f].body # "resource"
               PROVE  fetch[f].ref \in trouble
    BY DEF UnservedOnlyByTrouble
  <2>1. QED
    BY DEF IInv, FetchInv, Unspent, Holds, At
<1>2. QED
  BY <1>1, Invariance, PTL

-----------------------------------------------------------------------------
(* The Map of open challenges keeps its size.                              *)

\* Among finitely many challenges, one is the oldest.
LEMMA OldestIsThere ==
    ASSUME born \in [Refs -> Nat], NEW rs, rs \subseteq Refs, rs # {}
    PROVE  Oldest(rs) \in rs
<1> DEFINE ages == {born[r] : r \in rs}
<1>1. ages \subseteq Nat /\ ages # {}
  OBVIOUS
<1>2. PICK x \in ages : \A y \in ages : <<y, x>> \notin OpToRel(<, Nat)
  <2> HIDE DEF ages
  <2>1. QED
    BY <1>1, WFMin, NatLessThanWellFounded
<1>3. ASSUME NEW y \in ages PROVE x =< y
  <2>1. SUFFICES ASSUME y < x PROVE FALSE
    BY <1>1
  <2>2. <<y, x>> \in Nat \X Nat /\ <<y, x>>[1] < <<y, x>>[2]
    BY <1>1, <2>1
  <2>3. <<y, x>> \in OpToRel(<, Nat)
    BY <2>2, Zenon DEF OpToRel
  <2>4. QED
    BY <1>2, <2>3
<1>4. \E r \in rs : \A q \in rs : born[r] =< born[q]
  BY <1>3
<1>5. QED
  BY <1>4 DEF Oldest

Table == /\ open \subseteq {r \in Refs : born[r] > 0}
         /\ Cardinality(open) =< MaxOpen
         /\ restarts \in 0 .. MaxRestarts
         /\ trouble \subseteq Refs

LEMMA SubsetsAreSmaller ==
    ASSUME Table, NEW rs, rs \subseteq open
    PROVE  Cardinality(rs) =< MaxOpen
<1>1. IsFiniteSet(open)
  BY X402Assumption, FS_Subset DEF Table
<1>2. Cardinality(rs) =< Cardinality(open) /\ Cardinality(rs) \in Nat /\ Cardinality(open) \in Nat
  BY <1>1, FS_Subset, FS_CardinalityType
<1>3. QED
  BY <1>2, X402Assumption DEF Table

\* A new challenge takes the place of the oldest when the Map is full.
LEMMA ChallengeKeepsTable ==
    ASSUME Types, Table, NEW f \in Fetches, NEW r \in Refs, Challenge(f, r)
    PROVE  Table'
<1>1. IsFiniteSet(open) /\ Cardinality(open) \in Nat
  BY X402Assumption, FS_Subset, FS_CardinalityType DEF Table
<1>2. WithRoom(open) \subseteq open /\ Cardinality(WithRoom(open)) =< MaxOpen - 1
  <2>1. CASE Cardinality(open) >= MaxOpen
    <3>1. Oldest(open) \in open
      <4>1. open # {}
        BY <1>1, <2>1, FS_EmptySet, X402Assumption
      <4>2. QED
        BY <4>1, OldestIsThere DEF Types, Table
    <3>2. Cardinality(open \ {Oldest(open)}) = Cardinality(open) - 1
      BY <1>1, <3>1, FS_RemoveElement
    <3>3. QED
      BY <1>1, <2>1, <3>2, X402Assumption DEF WithRoom, Table
  <2>2. CASE ~(Cardinality(open) >= MaxOpen)
    BY <1>1, <2>2, X402Assumption DEF WithRoom
  <2>3. QED
    BY <2>1, <2>2
<1>3. IsFiniteSet(WithRoom(open)) /\ Cardinality(WithRoom(open)) \in Nat
  BY <1>1, <1>2, FS_Subset, FS_CardinalityType
<1>4. Cardinality(WithRoom(open) \cup {r}) =< MaxOpen
  <2>1. \/ Cardinality(WithRoom(open) \cup {r}) = Cardinality(WithRoom(open))
        \/ Cardinality(WithRoom(open) \cup {r}) = Cardinality(WithRoom(open)) + 1
    BY <1>3, FS_AddElement, Zenon
  <2>2. QED
    BY <1>2, <1>3, <2>1, X402Assumption
<1>5. \A q \in Refs : born[q] > 0 => born'[q] > 0
  BY DEF Challenge, Types
<1>6. born'[r] > 0
  <2>1. IsFiniteSet({q \in Refs : born[q] > 0})
    BY X402Assumption, FS_Subset
  <2>2. QED
    BY <2>1, FS_CardinalityType DEF Challenge, Types
<1>7. open' = WithRoom(open) \cup {r} /\ restarts' = restarts /\ trouble' = trouble
  BY DEF Challenge
<1>8. QED
  BY <1>2, <1>4, <1>5, <1>6, <1>7 DEF Table

\* No other step adds a challenge, and trouble is noted of references only.
LEMMA OthersKeepTable ==
    ASSUME IInv, Table,
           \/ UNCHANGED vars
           \/ \E f \in Fetches : Client(f)
           \/ \E r \in Refs : Handle(r) \/ Land(r)
           \/ Restart
    PROVE  Table'
<1>1. CASE UNCHANGED vars
  BY <1>1 DEF vars, Table
<1>2. ASSUME NEW f \in Fetches, Client(f) PROVE Table'
  <2>1. born' = born /\ open' = open /\ restarts' = restarts
    BY <1>2 DEF Client, Ask, Sign, Disconnect, Refuse, ReadAnswer, FailToVerify
  <2>2. trouble' \subseteq trouble \cup {fetch[f].ref}
    BY <1>2 DEF Client, Ask, Sign, Disconnect, Refuse, ReadAnswer, FailToVerify
  <2>3. trouble' # trouble => fetch[f].ref \in Refs
    BY <1>2 DEF Client, Ask, Sign, Disconnect, Refuse, ReadAnswer, FailToVerify,
       IInv, Types, Ownership, Holds, At
  <2>4. QED
    BY <2>1, <2>2, <2>3 DEF Table
<1>3. ASSUME NEW r \in Refs, Handle(r) PROVE Table'
  <2>1. born' = born /\ restarts' = restarts /\ trouble' \subseteq trouble \cup {r}
    BY <1>3 DEF Handle, Accept, UnknownReference, Submit, SubmitThrows, Confirm, ConfirmThrows,
       Verify, NotPaid, VerifyFails, FacilitatorSettles, FacilitatorFails, Deliver, ReadFails
  <2>2. open' \subseteq open
    BY <1>3 DEF Handle, Accept, UnknownReference, Submit, SubmitThrows, Confirm, ConfirmThrows,
       Verify, NotPaid, VerifyFails, FacilitatorSettles, FacilitatorFails, Deliver, ReadFails
  <2>3. Cardinality(open') =< MaxOpen
    BY <2>2, SubsetsAreSmaller
  <2>4. QED
    BY <2>1, <2>2, <2>3 DEF Table
<1>4. ASSUME NEW r \in Refs, Land(r) PROVE Table'
  BY <1>4 DEF Land, Table
<1>5. CASE Restart
  <2>1. Cardinality(open') =< MaxOpen
    BY <1>5, SubsetsAreSmaller DEF Restart
  <2>2. QED
    BY <1>5, <2>1, X402Assumption DEF Restart, Table
<1>6. QED
  BY <1>1, <1>2, <1>3, <1>4, <1>5

\* proxy.ts:262: the Map of open challenges never outgrows its limit and holds
\* minted references only, and everything else keeps its type.
THEOREM TypeCorrect == Spec => []TypeOK
<1>1. Init => Table
  BY X402Assumption, FS_EmptySet DEF Init, Table
<1>2. IInv /\ Table /\ [Next]_vars => Table'
  BY ChallengeKeepsTable, OthersKeepTable DEF Next, IInv
<1>3. IInv /\ Table => TypeOK
  BY DEF IInv, Types, Table, TypeOK
<1>4. QED
  BY <1>1, <1>2, <1>3, Invariance, PTL DEF Spec
=============================================================================
