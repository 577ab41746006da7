--------------------------------- MODULE X402 ---------------------------------
(***************************************************************************)
(* Paying for a resource over x402: fetchWithX402 on the client's side     *)
(* (payment-runtime/src/rails/x402-client.ts), the proxy's /api/edge-x402  *)
(* and settleX402 on the merchant's, and the cluster between them.         *)
(*                                                                         *)
(* A challenge is its reference: price, recipient and resource are the     *)
(* same for all.  The Map of open challenges keeps its insertion order,    *)
(* which is the order in which references are minted (born).  The client   *)
(* signs the transfer and the merchant, or its facilitator, submits it.    *)
(* Handlers of different requests interleave at every await.               *)
(***************************************************************************)
EXTENDS Integers, FiniteSets

CONSTANTS
    Fetches,      \* calls of fetchWithX402, one purchase each
    Refs,         \* what generateReference may return
    MaxOpen,      \* MAX_OPEN_X402_CHALLENGES
    MaxRestarts,  \* bound: how often the merchant restarts
    None          \* no reference

ASSUME X402Assumption ==
    /\ IsFiniteSet(Refs)
    /\ MaxOpen \in Nat \ {0}
    /\ MaxRestarts \in Nat
    /\ None \notin Refs

VARIABLES
    settler,      \* who settles: the facilitator if X402_FACILITATOR_URL is set
    born,         \* reference -> when it was minted, 0 if it was not
    open,         \* openX402Challenges
    fetch,        \* fetch -> how far the client is
    handler,      \* reference -> how far the handler of its payment is
    tx,           \* reference -> the client's transaction
    restarts,
    \* History, read by the properties only.
    trouble       \* references something outside the code went wrong with

vars == <<settler, born, open, fetch, handler, tx, restarts, trouble>>

\* `ref` is the reference of the challenge the client holds; `header` is
\* X-PAYMENT-RESPONSE and `body` what came with it.
FetchStages == {"idle", "asking", "challenged", "paying", "answered", "done"}
FetchStates == [at : FetchStages, ref : Refs \cup {None},
                header : {"none", "settled"}, body : {"none", "error", "resource"}]
HandlerStages == {"none", "submitting", "confirming", "verifying", "reading", "over"}
TxStages == {"unsigned", "signed", "sent", "landed", "failed", "expired"}

TypeOK == /\ settler \in {"merchant", "facilitator"}
          /\ born \in [Refs -> Nat]
          /\ open \subseteq {r \in Refs : born[r] > 0}
          /\ Cardinality(open) =< MaxOpen
          /\ fetch \in [Fetches -> FetchStates]
          /\ handler \in [Refs -> HandlerStages]
          /\ tx \in [Refs -> TxStages]
          /\ restarts \in 0 .. MaxRestarts
          /\ trouble \subseteq Refs

Init == /\ settler \in {"merchant", "facilitator"}
        /\ born = [r \in Refs |-> 0]
        /\ open = {}
        /\ fetch = [f \in Fetches |->
                       [at |-> "idle", ref |-> None, header |-> "none", body |-> "none"]]
        /\ handler = [r \in Refs |-> "none"]
        /\ tx = [r \in Refs |-> "unsigned"]
        /\ restarts = 0
        /\ trouble = {}

-----------------------------------------------------------------------------
(* The chain.                                                              *)

\* verifyPayment: a transfer of the price with this reference, executed
\* without an error.
Verified(r) == tx[r] = "landed"

TxTo(r, stage) == tx' = [tx EXCEPT ![r] = stage]

\* The cluster executes a transaction, which may fail, or drops it.
Land(r) == /\ tx[r] = "sent"
           /\ \E stage \in {"landed", "failed", "expired"} : TxTo(r, stage)
           /\ UNCHANGED <<settler, born, open, fetch, handler, restarts, trouble>>

-----------------------------------------------------------------------------
(* The client: fetchWithX402.                                              *)

At(f, stage) == fetch[f].at = stage
FetchTo(f, stage) == fetch' = [fetch EXCEPT ![f].at = stage]

\* fetchWithX402 throws, whatever the merchant answered.
Throws(f) ==
    fetch' = [fetch EXCEPT ![f] = [at |-> "done", ref |-> fetch[f].ref,
                                   header |-> "none", body |-> "none"]]

Ask(f) == /\ At(f, "idle")
          /\ FetchTo(f, "asking")
          /\ UNCHANGED <<settler, born, open, handler, tx, restarts, trouble>>

\* Within the allowance, the transfer is signed and the request sent again.
Sign(f) ==
    /\ At(f, "challenged")
    /\ FetchTo(f, "paying")
    /\ TxTo(fetch[f].ref, "signed")
    /\ UNCHANGED <<settler, born, open, handler, restarts, trouble>>

\* The connection breaks before there is an answer.
Disconnect(f) ==
    /\ \/ At(f, "asking") /\ UNCHANGED trouble
       \/ At(f, "paying") /\ trouble' = trouble \cup {fetch[f].ref}
    /\ Throws(f)
    /\ UNCHANGED <<settler, born, open, handler, tx, restarts>>

\* The allowance forbids it, or the wallet does not sign.
Refuse(f) ==
    /\ At(f, "challenged")
    /\ Throws(f)
    /\ UNCHANGED <<settler, born, open, handler, tx, restarts, trouble>>

MutTrustsHeader(r) == TRUE

\* A header that says the payment was settled is not enough.
Trusts(r) == Verified(r)

ReadAnswer(f) ==
    /\ At(f, "answered")
    /\ IF fetch[f].header = "settled" /\ Trusts(fetch[f].ref)
         THEN FetchTo(f, "done")
         ELSE Throws(f)
    /\ UNCHANGED <<settler, born, open, handler, tx, restarts, trouble>>

\* verifyPayment answers false to any error of the RPC node.
FailToVerify(f) ==
    /\ At(f, "answered")
    /\ fetch[f].header = "settled"
    /\ Throws(f)
    /\ trouble' = trouble \cup {fetch[f].ref}
    /\ UNCHANGED <<settler, born, open, handler, tx, restarts>>

-----------------------------------------------------------------------------
(* The merchant: handleEdgeX402.                                           *)

HandlerTo(r, stage) == handler' = [handler EXCEPT ![r] = stage]

\* The answer to the payment of r, if somebody still waits for it.
Reply(r, header, body) ==
    fetch' = [f \in Fetches |->
                 IF At(f, "paying") /\ fetch[f].ref = r
                   THEN [at |-> "answered", ref |-> r, header |-> header, body |-> body]
                   ELSE fetch[f]]

Oldest(rs) == CHOOSE r \in rs : \A q \in rs : born[r] =< born[q]

\* Room for one more challenge, at the expense of the oldest.
WithRoom(rs) == IF Cardinality(rs) >= MaxOpen THEN rs \ {Oldest(rs)} ELSE rs

\* A request without payment gets a challenge with a fresh reference.
Challenge(f, r) ==
    /\ At(f, "asking")
    /\ born[r] = 0
    /\ born' = [born EXCEPT ![r] = Cardinality({q \in Refs : born[q] > 0}) + 1]
    /\ open' = WithRoom(open) \cup {r}
    /\ fetch' = [fetch EXCEPT ![f] = [at |-> "challenged", ref |-> r,
                                      header |-> "none", body |-> "none"]]
    /\ UNCHANGED <<settler, handler, tx, restarts, trouble>>

\* The payment arrives, at any time after it was sent, and is accepted while
\* its challenge is open.
Accept(r) ==
    /\ tx[r] = "signed" /\ handler[r] = "none"
    /\ r \in open
    /\ HandlerTo(r, "submitting")
    /\ UNCHANGED <<settler, born, open, fetch, tx, restarts, trouble>>

UnknownReference(r) ==
    /\ tx[r] = "signed" /\ handler[r] = "none"
    /\ r \notin open
    /\ HandlerTo(r, "over")
    /\ Reply(r, "none", "error")
    /\ UNCHANGED <<settler, born, open, tx, restarts, trouble>>

\* submitSignedTransaction: send ...
Submit(r) ==
    /\ handler[r] = "submitting" /\ settler = "merchant"
    /\ HandlerTo(r, "confirming")
    /\ TxTo(r, "sent")
    /\ UNCHANGED <<settler, born, open, fetch, restarts, trouble>>

\* ... which throws when the node refuses the transaction, or when its answer
\* is lost although it has forwarded it ...
SubmitThrows(r) ==
    /\ handler[r] = "submitting" /\ settler = "merchant"
    /\ HandlerTo(r, "over")
    /\ Reply(r, "none", "error")
    /\ \/ UNCHANGED <<tx, trouble>>
       \/ TxTo(r, "sent") /\ trouble' = trouble \cup {r}
    /\ UNCHANGED <<settler, born, open, restarts>>

MutNoConfirmation(r) == tx[r] # "unsigned"

\* ... and wait: a transaction that executed with an error is confirmed, too.
Confirmed(r) == tx[r] \in {"landed", "failed"}

Confirm(r) ==
    /\ handler[r] = "confirming"
    /\ Confirmed(r)
    /\ HandlerTo(r, "verifying")
    /\ UNCHANGED <<settler, born, open, fetch, tx, restarts, trouble>>

\* Confirmation times out, whatever becomes of the transaction.
ConfirmThrows(r) ==
    /\ handler[r] = "confirming"
    /\ HandlerTo(r, "over")
    /\ Reply(r, "none", "error")
    /\ trouble' = trouble \cup {r}
    /\ UNCHANGED <<settler, born, open, tx, restarts>>

MutTrustsSubmission(r) == TRUE

\* The settlement is never trusted on submission success alone.
Settled(r) == Verified(r)

\* The challenge is closed, and the answer says settled whatever follows.
Verify(r) ==
    /\ handler[r] = "verifying"
    /\ Settled(r)
    /\ HandlerTo(r, "reading")
    /\ open' = open \ {r}
    /\ UNCHANGED <<settler, born, fetch, tx, restarts, trouble>>

NotPaid(r) ==
    /\ handler[r] = "verifying"
    /\ ~Settled(r)
    /\ HandlerTo(r, "over")
    /\ Reply(r, "none", "error")
    /\ UNCHANGED <<settler, born, open, tx, restarts, trouble>>

VerifyFails(r) ==
    /\ handler[r] = "verifying"
    /\ HandlerTo(r, "over")
    /\ Reply(r, "none", "error")
    /\ trouble' = trouble \cup {r}
    /\ UNCHANGED <<settler, born, open, tx, restarts>>

\* settleViaFacilitator: the facilitator's word is taken for it.  It may give
\* it before the transaction has executed.
FacilitatorSettles(r) ==
    /\ handler[r] = "submitting" /\ settler = "facilitator"
    /\ HandlerTo(r, "reading")
    /\ open' = open \ {r}
    /\ \/ TxTo(r, "landed") /\ UNCHANGED trouble
       \/ TxTo(r, "sent") /\ trouble' = trouble \cup {r}
    /\ UNCHANGED <<settler, born, fetch, restarts>>

FacilitatorFails(r) ==
    /\ handler[r] = "submitting" /\ settler = "facilitator"
    /\ HandlerTo(r, "over")
    /\ Reply(r, "none", "error")
    /\ \/ UNCHANGED <<tx, trouble>>
       \/ TxTo(r, "sent") /\ trouble' = trouble \cup {r}
    /\ UNCHANGED <<settler, born, open, restarts>>

Deliver(r) ==
    /\ handler[r] = "reading"
    /\ HandlerTo(r, "over")
    /\ Reply(r, "settled", "resource")
    /\ UNCHANGED <<settler, born, open, tx, restarts, trouble>>

\* readEdge throws: the body is an error, the header still says settled.
ReadFails(r) ==
    /\ handler[r] = "reading"
    /\ HandlerTo(r, "over")
    /\ Reply(r, "settled", "error")
    /\ trouble' = trouble \cup {r}
    /\ UNCHANGED <<settler, born, open, tx, restarts>>

\* Challenges are held in memory only.  What was being submitted may have
\* been sent.
Restart ==
    /\ restarts < MaxRestarts
    /\ restarts' = restarts + 1
    /\ open' = {}
    /\ LET cut == {r \in Refs : handler[r] \notin {"none", "over"}} IN
       /\ handler' = [r \in Refs |-> IF r \in cut THEN "over" ELSE handler[r]]
       /\ trouble' = trouble \cup cut
    /\ \E sent \in SUBSET {r \in Refs : handler[r] = "submitting"} :
          tx' = [r \in Refs |-> IF r \in sent THEN "sent" ELSE tx[r]]
    /\ UNCHANGED <<settler, born, fetch>>

-----------------------------------------------------------------------------
Client(f) == Ask(f) \/ Sign(f) \/ Disconnect(f) \/ Refuse(f) \/ ReadAnswer(f) \/ FailToVerify(f)

Handle(r) == \/ Accept(r) \/ UnknownReference(r)
             \/ Submit(r) \/ SubmitThrows(r) \/ Confirm(r) \/ ConfirmThrows(r)
             \/ Verify(r) \/ NotPaid(r) \/ VerifyFails(r)
             \/ FacilitatorSettles(r) \/ FacilitatorFails(r)
             \/ Deliver(r) \/ ReadFails(r)

Next == \/ \E f \in Fetches : Client(f)
        \/ \E f \in Fetches, r \in Refs : Challenge(f, r)
        \/ \E r \in Refs : Handle(r) \/ Land(r)
        \/ Restart

Spec == Init /\ [][Next]_vars

-----------------------------------------------------------------------------
(* Properties *)

\* A merchant that settles for itself reads and delivers for payments only
\* that are on the chain, whatever the node or the client said.
DeliveredOnlyForPayment ==
    settler = "merchant" => \A r \in Refs : handler[r] = "reading" => tx[r] = "landed"

\* A fetch reports a settlement only when its own payment is on the chain,
\* also when a facilitator told the merchant so too early.
SettlementsAreReal ==
    \A f \in Fetches : At(f, "done") /\ fetch[f].header = "settled" => tx[fetch[f].ref] = "landed"

\* A client that paid and has nothing to show for it was struck by something
\* outside the code: a lost connection, an error of a node or of TxLINE, a
\* facilitator that spoke too early, a restart.  An evicted challenge and a
\* transaction that failed cost nothing, and a transaction confirmed in time is
\* never taken for one that did not pay.
UnservedOnlyByTrouble ==
    \A f \in Fetches :
        /\ At(f, "done") /\ fetch[f].ref # None
        /\ tx[fetch[f].ref] = "landed" /\ fetch[f].body # "resource"
        => fetch[f].ref \in trouble

=============================================================================
