----------------------------- MODULE ReplyContract -----------------------------
(***************************************************************************)
(* What a prompt's two ends promise each other, whatever happens between   *)
(* them: the caller sees the host's items in order, is told "done" only of *)
(* a complete reply it has seen whole, and hears of an error only if the   *)
(* host reported one.  A caller may always give up.                        *)
(***************************************************************************)
EXTENDS Sequences, Naturals

CONSTANT Items   \* what a reply is made of, as its caller can see it

VARIABLES
  produced,   \* the items the host put into the reply so far
  verdict,    \* "open", "complete" or "failed"
  shown,      \* the items the caller has seen
  told        \* what the caller was told: "nothing", "done", "error", "gaveUp"

contractVars == <<produced, verdict, shown, told>>

ContractInit ==
  /\ produced = <<>>
  /\ verdict = "open"
  /\ shown = <<>>
  /\ told = "nothing"

Produce ==
  /\ verdict = "open"
  /\ \E i \in Items : produced' = Append(produced, i)
  /\ UNCHANGED <<verdict, shown, told>>

Conclude ==
  /\ verdict = "open"
  /\ verdict' \in {"complete", "failed"}
  /\ UNCHANGED <<produced, shown, told>>

Show ==
  /\ told = "nothing"
  /\ Len(shown) < Len(produced)
  /\ shown' = Append(shown, produced[Len(shown) + 1])
  /\ UNCHANGED <<produced, verdict, told>>

TellDone ==
  /\ told = "nothing"
  /\ verdict = "complete"
  /\ shown = produced
  /\ told' = "done"
  /\ UNCHANGED <<produced, verdict, shown>>

TellError ==
  /\ told = "nothing"
  /\ verdict = "failed"
  /\ told' = "error"
  /\ UNCHANGED <<produced, verdict, shown>>

GiveUp ==
  /\ told = "nothing"
  /\ told' = "gaveUp"
  /\ UNCHANGED <<produced, verdict, shown>>

ContractNext == Produce \/ Conclude \/ Show \/ TellDone \/ TellError \/ GiveUp

ContractSpec == ContractInit /\ [][ContractNext]_contractVars
=============================================================================
