------------------------------ MODULE SendPromise ------------------------------
(***************************************************************************)
(* What a report that is "never replayed" promises: it is claimed at most  *)
(* once, it goes out only after that, and at most once.                    *)
(***************************************************************************)
VARIABLES message,   \* "open", "claimed" or "out"
          arrived    \* whether the owner has it

Init == message = "open" /\ arrived = FALSE

Claim == message = "open" /\ message' = "claimed" /\ UNCHANGED arrived

GoOut == message = "claimed" /\ message' = "out" /\ arrived' \in BOOLEAN

Next == Claim \/ GoOut

Spec == Init /\ [][Next]_<<message, arrived>>
=============================================================================
