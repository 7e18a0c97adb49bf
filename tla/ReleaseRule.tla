---------------------------- MODULE ReleaseRule -----------------------------
(***************************************************************************)
(* What the Stop gate promises, with the mechanism left out.               *)
(*                                                                         *)
(* The contract holds a set of items; some of them are owed, that is, the  *)
(* agent still has to answer them; and the agent is aligned or not with    *)
(* the contract's latest version.  An agent that asks to stop is told to   *)
(* go on unless, at the moment it asked, there was a contract, nothing was *)
(* owed and it was aligned.                                                *)
(*                                                                         *)
(* The promise to the human is in what a step may do to `owed`: moving the *)
(* yardstick of an item makes it owed, whatever was laid for it before,    *)
(* and un-aligns the agent in the same step; one step of the agent answers *)
(* one item at most, and never takes an item out of the contract.          *)
(***************************************************************************)
CONSTANTS Item, Session

VARIABLES held, owed, aligned, verdict

ruleVars == <<held, owed, aligned, verdict>>

Init ==
    /\ held \in SUBSET Item
    /\ owed \in SUBSET held
    /\ aligned \in BOOLEAN
    /\ verdict = [s \in Session |-> "none"]

\* Items are laid, or their yardstick is moved.
Demand(S) ==
    /\ S # {}
    /\ held' = held \cup S
    /\ owed' = owed \cup S
    /\ aligned' = FALSE
    /\ UNCHANGED verdict

\* The human takes an item out of the contract.
Withdraw(i) ==
    /\ i \in held
    /\ held' = held \ {i}
    /\ owed' = owed \ {i}
    /\ aligned' = FALSE
    /\ UNCHANGED verdict

\* The human deletes the whole goal.
Abandon ==
    /\ held' = {}
    /\ owed' = {}
    /\ UNCHANGED <<aligned, verdict>>

\* The agent answers an item, or takes an answer back.
Answer(i) ==
    /\ i \in owed
    /\ owed' = owed \ {i}
    /\ UNCHANGED <<held, aligned, verdict>>

Retract(i) ==
    /\ i \in held
    /\ owed' = owed \cup {i}
    /\ UNCHANGED <<held, aligned, verdict>>

\* The agent has read the latest version.
Align ==
    /\ aligned' = TRUE
    /\ UNCHANGED <<held, owed, verdict>>

\* The agent asks to stop, and later gets its answer (or nobody answers).
Consult(s) ==
    /\ verdict[s] = "none"
    /\ verdict' = [verdict EXCEPT ![s] =
                     IF held # {} /\ owed = {} /\ aligned THEN "release" ELSE "block"]
    /\ UNCHANGED <<held, owed, aligned>>

Conclude(S) ==
    /\ verdict' = [s \in Session |-> IF s \in S THEN "none" ELSE verdict[s]]
    /\ UNCHANGED <<held, owed, aligned>>

Next ==
    \/ \E S \in SUBSET Item : Demand(S)
    \/ \E i \in Item : Withdraw(i) \/ Answer(i) \/ Retract(i)
    \/ Align \/ Abandon
    \/ \E s \in Session : Consult(s)
    \/ \E S \in SUBSET Session : Conclude(S)

Spec == Init /\ [][Next]_ruleVars
=============================================================================
