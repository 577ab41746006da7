-------------------------------- MODULE Wire --------------------------------
(* The market's messages on the wire. A message is sent as a verb and         *)
(* key=value tokens; at its end may come free text (a note, a reason, a       *)
(* payload), which is what another agent makes it and may hold such tokens    *)
(* too. A parser takes the first value it finds for a key.                    *)
EXTENDS Naturals, SequencesExt, Filters

(* The keys each kind of message is formatted with, in this order, and which  *)
(* of them its parser insists on.                                             *)
Layout(verb) ==
  CASE verb = "WANT"              -> <<"round", "service", "arg", "budget">>
    [] verb = "BID"               -> <<"round", "price", "by">>
    [] verb = "AWARD"             -> <<"round", "to">>
    [] verb = "PAYMENT_REQUIRED"  -> <<"round", "rail", "amount", "currency", "reference", "seller", "url", "deadline">>
    [] verb = "PAYMENT_PROOF"     -> <<"round", "rail", "reference", "proof", "buyer", "sig">>
    [] verb = "PAYMENT_CONFIRMED" -> <<"round", "rail", "reference", "paid", "amount", "currency", "sig">>
    [] verb \in {"SETTLED", "REFUNDED"} -> <<"round", "rail", "reference", "amount", "currency", "sig">>
    [] verb = "VERIFY"            -> <<"round", "sha", "service", "arg">>
    [] verb = "VERIFIED"          -> <<"round", "verdict", "by", "sha">>
    [] verb = "DELIVERED"         -> <<"round">>
    [] OTHER                      -> <<>>

Required(verb) ==
  CASE verb = "PAYMENT_REQUIRED"  -> {"round", "rail", "amount", "currency", "reference"}
    [] verb = "PAYMENT_PROOF"     -> {"round", "rail", "reference", "proof"}
    [] verb = "PAYMENT_CONFIRMED" -> {"round", "rail", "reference", "paid"}
    [] verb \in {"SETTLED", "REFUNDED"} -> {"round", "rail", "reference"}
    [] verb = "VERIFIED"          -> {"round", "verdict", "by"}
    [] OTHER                      -> ToSet(Layout(verb))

Keyed(keys, fields) == Only(keys, DOMAIN fields)

Tokens(keys, fields) == [i \in DOMAIN Keyed(keys, fields) |->
                           [key |-> Keyed(keys, fields)[i], val |-> fields[Keyed(keys, fields)[i]]]]

(* format...: the fields that are there, then the free text. *)
Format(m) == [verb |-> m.verb, tokens |-> Tokens(Layout(m.verb), m.fields) \o m.free]

(* Where a key stands. *)
Tagged(tokens, key) == {i \in DOMAIN tokens : tokens[i].key = key}

Found(text, key) == Tagged(text.tokens, key) # {}

FirstValue(text, key) == text.tokens[Min(Tagged(text.tokens, key))].val

(* A value that is not among the known ones of its key does not count as one. *)
Known == [rail     |-> {"solana-pay", "escrow", "x402", "pay-sh", "spl-usdc", "allowance", "embedded-wallet", "payout"},
          currency |-> {"SOL", "USDC", "PYUSD", "USDG"}, paid |-> BOOLEAN, verdict |-> {"pass", "fail"}]

Acceptable(key, val) == key \in DOMAIN Known => val \in Known[key]

KeysRead(text) == {k \in ToSet(Layout(text.verb)) : Found(text, k) /\ Acceptable(k, FirstValue(text, k))}

(* parse...: what could be read, null unless everything required is there. *)
Parsed(text) == [k \in KeysRead(text) |-> FirstValue(text, k)]

Parses(verb, read) == Layout(verb) # <<>> /\ Required(verb) \subseteq DOMAIN read

MutLastRound(text) == text.tokens[Max(Tagged(text.tokens, "round"))].val

(* messageRound: the tag by which a message of any kind belongs to a round. *)
HasRound(text)     == Found(text, "round")
MessageRound(text) == FirstValue(text, "round")
=============================================================================
