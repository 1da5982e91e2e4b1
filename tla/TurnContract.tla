----------------------------- MODULE TurnContract -----------------------------
(***************************************************************************)
(* What a turn promises, without threads, checks or services: the client   *)
(* is told text that only grows, the turn comes to an end once, and the    *)
(* ledger (long-term memory) takes over a turn once at most, when its text *)
(* is final and as the client was told it.  Only a client that leaves      *)
(* while the ledger is taking its turn over does not know whether it did,  *)
(* and the entry may come when the turn is over.                           *)
(***************************************************************************)
EXTENDS Naturals, Sequences

CONSTANTS
  Turns,    \* the turns of a session
  Pieces    \* pieces of text

VARIABLES
  phase,    \* phase[t]: "open", then "final" (no more text), then "ended", or
            \* "left" (over for the client, the ledger may still take it over)
  told,     \* told[t]: the text the client has
  ledger    \* <<turn, text>> taken over, oldest first

vars == <<phase, told, ledger>>

Init ==
  /\ phase = [t \in Turns |-> "open"]
  /\ told = [t \in Turns |-> << >>]
  /\ ledger = << >>

Grows(old, new) == Len(old) <= Len(new) /\ SubSeq(new, 1, Len(old)) = old

\* The client is told more; it may be the last it is told.
Say(t) ==
  /\ phase[t] = "open"
  /\ told'[t] \in Seq(Pieces)
  /\ told' = [told EXCEPT ![t] = told'[t]]
  /\ Grows(told[t], told'[t])
  /\ phase' \in {[phase EXCEPT ![t] = p] : p \in {"open", "final", "ended"}}
  /\ UNCHANGED ledger

\* The text turns out to be complete.
Settle(t) ==
  /\ phase[t] = "open"
  /\ phase' = [phase EXCEPT ![t] = "final"]
  /\ UNCHANGED <<told, ledger>>

\* The client leaves while the ledger is asked to take the turn over.
Leave(t) ==
  /\ phase[t] = "final"
  /\ phase' = [phase EXCEPT ![t] = "left"]
  /\ UNCHANGED <<told, ledger>>

\* The ledger takes the turn over.
Keep(t) ==
  /\ phase[t] \in {"final", "left"}
  /\ phase' = [phase EXCEPT ![t] = "ended"]
  /\ ledger' = Append(ledger, <<t, told[t]>>)
  /\ UNCHANGED told

\* The turn ends without being taken over, for whatever reason.
End(t) ==
  /\ phase[t] \in {"open", "final"}
  /\ phase' = [phase EXCEPT ![t] = "ended"]
  /\ UNCHANGED <<told, ledger>>

\* The ledger did not take over the turn of a client that left.
Drop(t) ==
  /\ phase[t] = "left"
  /\ phase' = [phase EXCEPT ![t] = "ended"]
  /\ UNCHANGED <<told, ledger>>

Next == \E t \in Turns : Say(t) \/ Settle(t) \/ Leave(t) \/ Keep(t) \/ End(t) \/ Drop(t)

Spec == Init /\ [][Next]_vars

FairSpec == Spec /\ \A t \in Turns : WF_vars(End(t))
=============================================================================
