----------------------------- MODULE MCMentions -----------------------------
(* Two peers mention an agent three times: with and without a text, in its     *)
(* thread and outside of any.                                                  *)
EXTENDS Mentions

CONSTANTS p1, p2, t1

MC_Say(p, t)  == [sender |-> p, thread |-> t, text |-> TRUE]
MC_Blank(p)   == [sender |-> p, thread |-> t1, text |-> FALSE]

MC_Scenarios ==
  { <<MC_Say(p1, t1), MC_Say(p1, Nothing), MC_Say(p2, t1)>>,
    <<MC_Blank(p1), MC_Say(p2, t1), MC_Say(p2, Nothing)>> }
=============================================================================
