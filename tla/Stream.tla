------------------------------- MODULE Stream -------------------------------
(***************************************************************************)
(* What a viewer of a terminal session is promised: one contiguous run of  *)
(* the session's output, from a place that is recent enough and safe to    *)
(* start at, to the last byte printed while the viewer was counted in; and *)
(* not to be counted out, nor its stream ended, before that, unless it     *)
(* left, fell too far behind, or the session is over.                      *)
(* PtySession implements it.                                               *)
(*                                                                         *)
(* Output is counted, not stored: byte n is the n-th the session printed.  *)
(***************************************************************************)
EXTENDS Naturals, Sequences

CONSTANTS
    Viewer,
    Recent,     \* how much of the output is kept for a viewer to come
    Length,     \* bound on what the session prints
    Lag         \* how far behind a viewer may fall

VARIABLES
    newline,    \* the bytes that are newlines
    printed,    \* bytes printed so far
    over,       \* the session has been closed
    watching,   \* the viewers counted in
    start,      \* the first byte of each viewer's run, 0 before it has one
    promised,   \* the last byte each viewer is to see
    seen,       \* what each has been sent
    excused,    \* viewers that left, or whose typing the session refused
    ended       \* viewers whose stream has ended

streamVars == <<newline, printed, over, watching, start, promised, seen, excused, ended>>

\* Of the bytes from `oldest` to n, a run may start at the oldest if nothing came
\* before it, else after the first newline, or at the oldest if there is none.
SafeStart(oldest, n, from) ==
    LET breaks == newline \cap (oldest .. n)
    IN  \/ from = oldest /\ (oldest = 1 \/ breaks = {})
        \/ oldest > 1 /\ (from - 1) \in breaks /\ (\A b \in breaks : from - 1 <= b)

LastSeen(v) == start[v] + Len(seen[v]) - 1

Init ==
    /\ newline \in SUBSET (1 .. Length) /\ printed = 0 /\ over = FALSE
    /\ watching = {} /\ excused = {} /\ ended = {}
    /\ start = [v \in Viewer |-> 0]
    /\ promised = [v \in Viewer |-> 0]
    /\ seen = [v \in Viewer |-> <<>>]

Emit(n, kept) ==
    /\ kept \subseteq watching
    /\ \A v \in watching \ kept : printed + n - LastSeen(v) > Lag
    /\ printed' = printed + n
    /\ watching' = kept
    /\ promised' = [v \in Viewer |-> IF v \in kept THEN printed + n ELSE promised[v]]
    /\ UNCHANGED <<newline, over, start, seen, excused, ended>>

Join(v) ==
    /\ start[v] = 0
    /\ \E oldest \in 1 .. printed + 1, from \in 1 .. printed + 1 :
         /\ oldest = 1 \/ printed - oldest + 1 = Recent
         /\ SafeStart(oldest, printed, from)
         /\ start' = [start EXCEPT ![v] = from]
    /\ promised' = [promised EXCEPT ![v] = printed]
    /\ watching' = watching \cup {v}
    /\ UNCHANGED <<newline, printed, over, seen, excused, ended>>

Show(v, n) ==
    /\ start[v] > 0 /\ v \notin ended
    /\ LastSeen(v) + n <= promised[v]
    /\ seen' = [seen EXCEPT ![v] = @ \o [k \in 1 .. n |-> LastSeen(v) + k]]
    /\ UNCHANGED <<newline, printed, over, watching, start, promised, excused, ended>>

Leave(v) ==
    /\ excused' = excused \cup {v}
    /\ watching' \in {watching, watching \ {v}}
    /\ UNCHANGED <<newline, printed, over, start, promised, seen, ended>>

Close ==
    /\ ~over /\ over' = TRUE
    /\ watching' = {}
    /\ UNCHANGED <<newline, printed, start, promised, seen, excused, ended>>

End(v) ==
    /\ \/ v \in excused
       \/ v \notin watching /\ start[v] > 0 /\ LastSeen(v) = promised[v]
    /\ ended' = ended \cup {v}
    /\ UNCHANGED <<newline, printed, over, watching, start, promised, seen, excused>>

Next ==
    \/ \E n \in 1 .. Recent, kept \in SUBSET Viewer : Emit(n, kept)
    \/ \E v \in Viewer : Join(v) \/ Leave(v) \/ End(v)
    \/ \E v \in Viewer, n \in 0 .. printed : Show(v, n)
    \/ Close

Spec == Init /\ [][Next]_streamVars
=============================================================================
