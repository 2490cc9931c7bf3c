---------------------------- MODULE BusFeedClaims ----------------------------
(***************************************************************************)
(* What a document of the repository says about the bus inputs and the     *)
(* code does not do: the claim, checked against the behaviour of module    *)
(* BusFeed, ends in a counterexample, which README.md tells as a scenario. *)
(***************************************************************************)
EXTENDS BusFeed

\* Nothing is under way for the input and its last write did not fail.
AtRest(i) ==
  phase = "running" /\ inflight[i] = <<>> /\ ~delivery[i].failing

-----------------------------------------------------------------------------
(***************************************************************************)
(* docs/bus-inputs.md:30: the value of a source "is written right after    *)
(* setup, on every state change that changes the value sent": once the     *)
(* handler has seen the present state and all writes are done, the unit    *)
(* holds its value.                                                        *)
(* The handler compares with the last value that was written, not with the *)
(* one in flight: a change back to the former value is not sent.           *)
(***************************************************************************)
HandledChangeReachesUnit ==
  \A i \in Inputs :
    AtRest(i) /\ reading[i] # "unread" /\ Usable(source[i])
      => unit[i] = source[i]
=============================================================================
