-------------------------- MODULE PtySessionProofs --------------------------
(***************************************************************************)
(* Proofs about PtySession, for any number of viewers and kill requests    *)
(* and any sizes of the ring, the backlogs and the reads: the session      *)
(* implements Stream, and no writer sleeps over what it owes.              *)
(***************************************************************************)
EXTENDS PtySession, FiniteSetTheorems, TLAPS

-----------------------------------------------------------------------------
(* The inductive invariant *)

Waiting  == {"away", "found"}                   \* not attached yet
Leaving  == {"unlist", "shut", "join", "gone"}  \* the input loop is over

BacklogType == [chunks : Seq(Chunk), bytes : Int, closed : BOOLEAN]

Types ==
    /\ newline \in SUBSET (1 .. MaxBytes) /\ held \in BOOLEAN /\ registered \in BOOLEAN
    /\ finisher \in [Finisher -> {"idle", "unregister", "close", "done"}]
    /\ read \in 0 .. MaxBytes /\ oldest \in Nat
    /\ listeners \in SUBSET Viewer
    /\ backlog \in [Viewer -> BacklogType]
    /\ serving \in [Viewer -> {"away", "found", "ack", "input"} \cup Leaving]
    /\ writer \in [Viewer -> {"none", "send", "take", "wait", "shut", "done"}]
    /\ hand \in [Viewer -> Chunk] /\ run \in [Viewer -> Chunk]
    /\ got \in [Viewer -> Seq(Nat)]
    /\ away \in [Viewer -> {"here", "left", "refused"}] /\ down \in [Viewer -> BOOLEAN]

\* The ring is full or has lost nothing; one thread at most closes the session.
SessionOK ==
    /\ oldest \in 1 .. read + 1 /\ read + 1 - oldest <= RingBytes
    /\ oldest = 1 \/ read + 1 - oldest = RingBytes
    /\ \A f, g \in Finisher : finisher[f] = "close" =>
         ~registered /\ (finisher[g] = "close" => f = g)

\* The chunks cs are the bytes from a to b, in order.
Spans(cs, a, b) ==
    /\ a <= b + 1
    /\ \A k \in 1 .. Len(cs) : a <= cs[k].from /\ cs[k].from <= cs[k].to /\ cs[k].to <= b
    /\ \A j, k \in 1 .. Len(cs) : j < k => cs[j].to < cs[k].from
    /\ \A k \in 1 .. Len(cs) : k > 1 => cs[k].from = cs[k - 1].to + 1
    /\ cs = <<>> => a = b + 1
    /\ cs # <<>> => cs[1].from = a /\ cs[Len(cs)].to = b

Due(v)    == run[v].from + Len(got[v])          \* the byte the viewer is to see next
Queued(v) == run[v].to + 1 - backlog[v].bytes   \* the first byte its backlog holds

Fresh(v) ==
    /\ writer[v] = "none" /\ backlog[v] = NewBacklog
    /\ hand[v] = NoChunk /\ run[v] = NoChunk /\ got[v] = <<>>
    /\ v \notin listeners /\ ~down[v]

\* What the writer has in hand ends where the backlog begins, and the backlog ends
\* where the viewer is counted out.
Seamless(v) ==
    /\ run[v].from >= 1 /\ run[v].from <= run[v].to + 1 /\ run[v].to <= read
    /\ Spans(backlog[v].chunks, Queued(v), run[v].to)
    /\ backlog[v].bytes <= Cap
    /\ Due(v) <= Queued(v)
    /\ writer[v] \in {"none", "send"} =>
         hand[v].from = Due(v) /\ Due(v) <= hand[v].to + 1 /\ Queued(v) = hand[v].to + 1
    /\ writer[v] \in {"take", "wait"} => Queued(v) = Due(v)

Served(v) == away[v] # "here" \/ (backlog[v].closed /\ Due(v) = run[v].to + 1)

Attached(v) ==
    /\ Seamless(v)
    /\ v \in listeners => serving[v] \notin {"shut", "join", "gone"}
    /\ v \in listeners /\ ~backlog[v].closed => run[v].to = read
    /\ serving[v] = "ack" => writer[v] = "none"
    /\ writer[v] \in {"shut", "done"} \/ down[v] => Served(v)
    /\ serving[v] \in Leaving => backlog[v].closed /\ (away[v] # "here" \/ down[v])

ViewerOK(v) == IF serving[v] \in Waiting THEN Fresh(v) ELSE Attached(v)

Safe == Types /\ SessionOK /\ \A v \in Viewer : ViewerOK(v)

-----------------------------------------------------------------------------
(* Sets and sequences *)

\* A set of naturals has a least one: the least of the intervals it ends, by
\* inclusion.
LEMMA LeastOf ==
  ASSUME NEW S1, S1 \subseteq Nat, S1 # {}
  PROVE  Min(S1) \in S1 /\ \A n \in S1 : Min(S1) <= n
<1> DEFINE T == {1 .. n : n \in S1}
<1>1. T \subseteq FiniteSubsetsOf(Nat) /\ T # {}
  <2>1. ASSUME NEW n \in S1 PROVE 1 .. n \in FiniteSubsetsOf(Nat)
    <3>1. IsFiniteSet(1 .. n)
      BY FS_Interval
    <3>2. 1 .. n \in SUBSET Nat
      OBVIOUS
    <3> QED
      BY <3>1, <3>2 DEF FiniteSubsetsOf
  <2> QED
    BY <2>1
<1>2. IsWellFoundedOn(StrictSubsetOrdering(Nat), FiniteSubsetsOf(Nat))
  BY FS_StrictSubsetOrderingWellFounded
<1>3. \E X \in T : \A Y \in T : ~ (<<Y, X>> \in StrictSubsetOrdering(Nat))
  <2> HIDE DEF T
  <2> QED
    BY <1>1, <1>2, WFMin
<1>4. PICK least \in S1 : \A n \in S1 : ~ (<<1 .. n, 1 .. least>> \in StrictSubsetOrdering(Nat))
  BY <1>3
<1>5. ASSUME NEW n \in S1 PROVE least <= n
  <2>1. SUFFICES ASSUME ~(least <= n) PROVE FALSE
    OBVIOUS
  <2>2. 1 .. n \subseteq 1 .. least /\ least \in 1 .. least /\ least \notin 1 .. n
    BY <2>1
  <2>3. 1 .. n \in SUBSET Nat /\ 1 .. least \in SUBSET Nat
    OBVIOUS
  <2>4. 1 .. n # 1 .. least
    BY <2>2
  <2> QED
    BY <1>4, <2>2, <2>3, <2>4 DEF StrictSubsetOrdering
<1> QED
  BY <1>5 DEF Min

LEMMA Concats ==
  ASSUME NEW s \in Seq(Nat), NEW t \in Seq(Nat)
  PROVE  s \o t \in Seq(Nat) /\ Len(s \o t) = Len(s) + Len(t)
OBVIOUS

LEMMA Sizes ==
  /\ RingBytes \in Nat /\ RingBytes >= 1 /\ Cap \in Nat /\ MaxBytes \in Nat
  /\ MaxRead \in Nat /\ MaxRead <= RingBytes
BY PtyAssumption

\* Closing a backlog leaves what it holds.
LEMMA ClosedType ==
  ASSUME NEW b \in BacklogType
  PROVE  /\ [b EXCEPT !.closed = TRUE] \in BacklogType
         /\ [b EXCEPT !.closed = TRUE].chunks = b.chunks
         /\ [b EXCEPT !.closed = TRUE].bytes = b.bytes
         /\ [b EXCEPT !.closed = TRUE].closed
BY DEF BacklogType

LEMMA SpansNothing == \A b \in Int : Spans(<<>>, b + 1, b)
BY DEF Spans

LEMMA SpansAppend ==
  ASSUME NEW cs \in Seq(Chunk), NEW a \in Int, NEW b \in Nat, NEW n \in Nat \ {0},
         Spans(cs, a, b)
  PROVE  /\ Append(cs, [from |-> b + 1, to |-> b + n]) \in Seq(Chunk)
         /\ Spans(Append(cs, [from |-> b + 1, to |-> b + n]), a, b + n)
<1> DEFINE c  == [from |-> b + 1, to |-> b + n]
           ds == Append(cs, c)
<1>1. c \in Chunk /\ c.from = b + 1 /\ c.to = b + n
  BY DEF Chunk
<1>2. ds \in Seq(Chunk) /\ Len(ds) = Len(cs) + 1 /\ ds # <<>>
  BY <1>1
<1>3. ds[Len(cs) + 1] = c /\ \A k \in 1 .. Len(cs) : ds[k] = cs[k] /\ cs[k] \in Chunk
  BY <1>1
<1>4. cs # <<>> => Len(cs) >= 1
  OBVIOUS
<1>5. ds[1].from = a
  BY <1>1, <1>3, <1>4 DEF Spans
<1>6. \A k \in 1 .. Len(ds) : k > 1 => ds[k].from = ds[k - 1].to + 1
  <2> SUFFICES ASSUME NEW k \in 1 .. Len(ds), k > 1 PROVE ds[k].from = ds[k - 1].to + 1
    OBVIOUS
  <2>1. CASE k \in 1 .. Len(cs)
    BY <1>3, <2>1 DEF Spans
  <2>2. CASE k = Len(cs) + 1
    BY <1>1, <1>3, <1>4, <2>2 DEF Spans
  <2> QED
    BY <1>2, <2>1, <2>2
<1>7. \A j, k \in 1 .. Len(ds) : j < k => ds[j].to < ds[k].from
  <2> SUFFICES ASSUME NEW j \in 1 .. Len(ds), NEW k \in 1 .. Len(ds), j < k
               PROVE  ds[j].to < ds[k].from
    OBVIOUS
  <2> HIDE DEF ds
  <2>0. j \in 1 .. Len(cs)
    BY <1>2
  <2>1. ds[j] = cs[j] /\ cs[j].to <= b /\ cs[j].to \in Nat
    BY <1>3, <2>0 DEF Spans, Chunk
  <2>2. CASE k \in 1 .. Len(cs)
    BY <1>3, <2>0, <2>1, <2>2 DEF Spans
  <2>3. CASE k = Len(cs) + 1
    BY <1>1, <1>3, <2>1, <2>3
  <2> QED
    BY <1>2, <2>2, <2>3
<1>8. \A k \in 1 .. Len(ds) : a <= ds[k].from /\ ds[k].from <= ds[k].to /\ ds[k].to <= b + n
  <2> SUFFICES ASSUME NEW k \in 1 .. Len(ds)
               PROVE  a <= ds[k].from /\ ds[k].from <= ds[k].to /\ ds[k].to <= b + n
    OBVIOUS
  <2>1. CASE k \in 1 .. Len(cs)
    <3>1. ds[k] = cs[k] /\ a <= cs[k].from /\ cs[k].from <= cs[k].to /\ cs[k].to <= b
      BY <1>3, <2>1 DEF Spans
    <3>2. cs[k].to \in Nat
      BY <1>3, <2>1 DEF Chunk
    <3> QED
      BY <3>1, <3>2
  <2>2. CASE k = Len(cs) + 1
    BY <1>1, <1>3, <2>2 DEF Spans
  <2> QED
    BY <1>2, <2>1, <2>2
<1> HIDE DEF ds
<1>9. ds[Len(ds)].to = b + n
  BY <1>1, <1>2, <1>3
<1>10. a <= b + n + 1
  BY DEF Spans
<1> QED
  BY <1>2, <1>5, <1>6, <1>7, <1>8, <1>9, <1>10 DEF Spans, ds

LEMMA SpansTail ==
  ASSUME NEW cs \in Seq(Chunk), cs # <<>>, NEW a \in Int, NEW b \in Nat, Spans(cs, a, b)
  PROVE  /\ Head(cs) \in Chunk /\ Head(cs).from = a /\ a <= Head(cs).to
         /\ Tail(cs) \in Seq(Chunk)
         /\ Spans(Tail(cs), Head(cs).to + 1, b)
<1>1. Len(cs) \in Nat /\ Len(cs) >= 1 /\ \A k \in 1 .. Len(cs) : cs[k] \in Chunk
  OBVIOUS
<1>2. Head(cs) = cs[1] /\ Tail(cs) \in Seq(Chunk) /\ Len(Tail(cs)) = Len(cs) - 1
      /\ \A k \in 1 .. Len(Tail(cs)) : Tail(cs)[k] = cs[k + 1]
  OBVIOUS
<1>3. cs[1].from = a /\ a <= cs[1].to /\ cs[1].to <= b
  BY <1>1 DEF Spans
<1>4. \A k \in 1 .. Len(Tail(cs)) : /\ cs[1].to + 1 <= Tail(cs)[k].from
                                    /\ Tail(cs)[k].from <= Tail(cs)[k].to
                                    /\ Tail(cs)[k].to <= b
  BY <1>1, <1>2 DEF Spans, Chunk
<1>5. \A j, k \in 1 .. Len(Tail(cs)) : j < k => Tail(cs)[j].to < Tail(cs)[k].from
  BY <1>1, <1>2 DEF Spans
<1>6. \A k \in 1 .. Len(Tail(cs)) : k > 1 => Tail(cs)[k].from = Tail(cs)[k - 1].to + 1
  <2> SUFFICES ASSUME NEW k \in 1 .. Len(Tail(cs)), k > 1
               PROVE  Tail(cs)[k].from = Tail(cs)[k - 1].to + 1
    OBVIOUS
  <2>1. Tail(cs)[k] = cs[k + 1] /\ Tail(cs)[k - 1] = cs[k] /\ k + 1 \in 1 .. Len(cs)
    BY <1>1, <1>2
  <2>2. cs[k + 1].from = cs[(k + 1) - 1].to + 1
    BY <2>1 DEF Spans
  <2> QED
    BY <2>1, <2>2
<1>7. Tail(cs) = <<>> => cs[1].to = b
  <2>0. SUFFICES ASSUME Tail(cs) = <<>> PROVE cs[1].to = b
    OBVIOUS
  <2>1. Len(<<>>) = 0
    OBVIOUS
  <2>2. Len(cs) - 1 = 0
    BY <1>2, <2>0, <2>1, Zenon
  <2>3. Len(cs) = 1
    BY <1>1, <2>2
  <2> QED
    BY <2>3 DEF Spans
<1>8. Tail(cs) # <<>> => Tail(cs)[1].from = cs[1].to + 1
                         /\ Tail(cs)[Len(Tail(cs))].to = b
  <2> SUFFICES ASSUME Tail(cs) # <<>>
               PROVE  Tail(cs)[1].from = cs[1].to + 1 /\ Tail(cs)[Len(Tail(cs))].to = b
    OBVIOUS
  <2>1. Len(Tail(cs)) >= 1
    BY <1>2
  <2>2. Tail(cs)[1] = cs[2] /\ Tail(cs)[Len(Tail(cs))] = cs[Len(cs)] /\ 2 \in 1 .. Len(cs)
    BY <1>1, <1>2, <2>1
  <2>3. cs[2].from = cs[2 - 1].to + 1
    BY <2>2 DEF Spans
  <2> QED
    BY <1>1, <2>2, <2>3 DEF Spans
<1>9. cs[1] \in Chunk /\ cs[1].to \in Nat
  BY <1>1 DEF Chunk
<1>10. cs[1].to + 1 <= b + 1
  BY <1>3, <1>9
<1>11. Spans(Tail(cs), cs[1].to + 1, b)
  BY <1>4, <1>5, <1>6, <1>7, <1>8, <1>10, Zenon DEF Spans
<1> QED
  BY <1>2, <1>3, <1>9, <1>11, Zenon

-----------------------------------------------------------------------------
(* The invariant holds at the start, and the properties follow from it *)

LEMMA NewBacklogType ==
  /\ NewBacklog \in BacklogType
  /\ NewBacklog.chunks = <<>> /\ NewBacklog.bytes = 0 /\ NewBacklog.closed = FALSE
  /\ NoChunk \in Chunk /\ NoChunk.from = 1 /\ NoChunk.to = 0
BY DEF NewBacklog, NoChunk, Chunk, BacklogType

LEMMA InitSafe == Init => Safe
<1> SUFFICES ASSUME Init PROVE Safe
  OBVIOUS
<1>1. Types
  BY NewBacklogType, Sizes DEF Init, Types, Leaving
<1>2. SessionOK
  BY Sizes DEF Init, SessionOK
<1>3. ASSUME NEW v \in Viewer PROVE ViewerOK(v)
  BY DEF Init, ViewerOK, Waiting, Fresh
<1> QED
  BY <1>1, <1>2, <1>3 DEF Safe

LEMMA SafeTyped == Safe => TypeOK
<1> SUFFICES ASSUME Safe PROVE TypeOK
  OBVIOUS
<1>1. ASSUME NEW v \in Viewer
      PROVE  /\ backlog[v].chunks \in Seq(Chunk) /\ backlog[v].closed \in BOOLEAN
             /\ backlog[v].bytes \in 0 .. Cap
             /\ backlog[v].bytes = IF backlog[v].chunks = <<>> THEN 0
                                   ELSE Last(backlog[v].chunks).to + 1
                                          - Head(backlog[v].chunks).from
  <2> DEFINE cs == backlog[v].chunks
  <2>1. cs \in Seq(Chunk) /\ backlog[v].closed \in BOOLEAN /\ backlog[v].bytes \in Int
    BY DEF Safe, Types, BacklogType
  <2>2. CASE serving[v] \in Waiting
    <3>1. backlog[v] = NewBacklog
      BY <2>2 DEF Safe, ViewerOK, Fresh
    <3> QED
      BY <2>1, <3>1, NewBacklogType, Sizes
  <2>3. CASE serving[v] \notin Waiting
    <3>1. Seamless(v) /\ run[v] \in Chunk
      BY <2>3 DEF Safe, Types, ViewerOK, Attached
    <3>2. run[v].to \in Nat
      BY <3>1 DEF Chunk
    <3>3. Queued(v) <= run[v].to + 1 /\ backlog[v].bytes <= Cap
      BY <3>1 DEF Seamless, Spans
    <3>4. backlog[v].bytes \in 0 .. Cap
      BY <2>1, <3>2, <3>3, Sizes DEF Queued
    <3>5. CASE cs = <<>>
      <4>1. Queued(v) = run[v].to + 1
        BY <3>1, <3>5 DEF Seamless, Spans
      <4> QED
        BY <2>1, <3>2, <3>4, <3>5, <4>1 DEF Queued
    <3>6. CASE cs # <<>>
      <4>1. cs[1].from = Queued(v) /\ cs[Len(cs)].to = run[v].to
        BY <3>1, <3>6 DEF Seamless, Spans
      <4>2. Last(cs).to = run[v].to /\ Head(cs).from = Queued(v)
        BY <2>1, <3>6, <4>1 DEF Last
      <4> HIDE DEF cs
      <4>3. backlog[v].bytes = Last(cs).to + 1 - Head(cs).from
        BY <2>1, <3>2, <4>2 DEF Queued
      <4> QED
        BY <2>1, <3>4, <3>6, <4>3 DEF cs
    <3> QED
      BY <3>5, <3>6
  <2> QED
    BY <2>2, <2>3
<1> QED
  BY <1>1 DEF Safe, Types, SessionOK, TypeOK, Leaving

-----------------------------------------------------------------------------
(* Steps of one viewer *)

Same(w) ==
    /\ backlog'[w] = backlog[w] /\ serving'[w] = serving[w] /\ writer'[w] = writer[w]
    /\ hand'[w] = hand[w] /\ got'[w] = got[w] /\ away'[w] = away[w]
    /\ run'[w] = run[w] /\ down'[w] = down[w]
    /\ w \in listeners' <=> w \in listeners

LEMMA SameOK ==
  ASSUME NEW w \in Viewer, ViewerOK(w), Same(w), read' = read
  PROVE  ViewerOK(w)'
BY DEF ViewerOK, Same, Fresh, Attached, Seamless, Served, Due, Queued

LEMMA OneViewer ==
  ASSUME Safe, NEW v \in Viewer, UNCHANGED pumpVars, Types',
         \A w \in Viewer \ {v} : Same(w), ViewerOK(v)'
  PROVE  Safe'
<1>1. SessionOK'
  BY DEF Safe, SessionOK, pumpVars
<1>2. \A w \in Viewer \ {v} : ViewerOK(w)'
  BY SameOK DEF Safe, pumpVars
<1> QED
  BY <1>1, <1>2 DEF Safe

\* What is known of one viewer.
LEMMA OfViewer ==
  ASSUME Types, NEW v \in Viewer
  PROVE  /\ backlog[v] \in BacklogType
         /\ backlog[v].chunks \in Seq(Chunk) /\ backlog[v].bytes \in Int
         /\ backlog[v].closed \in BOOLEAN
         /\ hand[v] \in Chunk /\ hand[v].from \in Nat /\ hand[v].to \in Nat
         /\ run[v] \in Chunk /\ run[v].from \in Nat /\ run[v].to \in Nat
         /\ got[v] \in Seq(Nat) /\ Len(got[v]) \in Nat
         /\ Due(v) \in Nat /\ Queued(v) \in Int
<1>1. hand[v] \in Chunk /\ run[v] \in Chunk /\ got[v] \in Seq(Nat) /\ backlog[v] \in BacklogType
  BY DEF Types
<1>2. run[v].from \in Nat /\ run[v].to \in Nat /\ hand[v].from \in Nat /\ hand[v].to \in Nat
  BY <1>1 DEF Chunk
<1>3. backlog[v].chunks \in Seq(Chunk) /\ backlog[v].bytes \in Int /\ backlog[v].closed \in BOOLEAN
  BY <1>1 DEF BacklogType
<1>4. Len(got[v]) \in Nat
  BY <1>1
<1>5. Due(v) \in Nat
  BY <1>2, <1>4 DEF Due
<1>6. Queued(v) \in Int
  BY <1>2, <1>3 DEF Queued
<1> QED
  BY <1>1, <1>2, <1>3, <1>4, <1>5, <1>6

LEMMA SnapshotOK ==
  ASSUME Types, SessionOK
  PROVE  /\ Snapshot \in Chunk /\ Snapshot.to = read /\ Snapshot.from \in 1 .. read + 1
         /\ S!SafeStart(oldest, read, Snapshot.from)
<1> DEFINE breaks == newline \cap (oldest .. read)
<1>1. read \in Nat /\ oldest \in Nat /\ 1 <= oldest /\ oldest <= read + 1
  BY Sizes DEF Types, SessionOK
<1>2. breaks \subseteq Nat
  BY <1>1
<1>3. breaks # {} => Min(breaks) \in breaks /\ \A n \in breaks : Min(breaks) <= n
  <2> HIDE DEF breaks
  <2> QED
    BY <1>2, LeastOf
<1>4. breaks # {} => Min(breaks) \in oldest .. read
  BY <1>3
<1>5. CASE oldest > 1 /\ breaks # {}
  <2>1. Snapshot = [from |-> Min(breaks) + 1, to |-> read]
    BY <1>5 DEF Snapshot
  <2> DEFINE m == Min(breaks)
  <2>2. m \in Nat /\ m <= read
    BY <1>1, <1>4, <1>5
  <2>3. Snapshot \in Chunk /\ Snapshot.from = m + 1 /\ Snapshot.to = read
    BY <1>1, <2>1, <2>2 DEF Chunk
  <2> HIDE DEF m
  <2>4. (m + 1) - 1 = m
    BY <2>2
  <2>5. S!SafeStart(oldest, read, m + 1)
    BY <1>3, <1>5, <2>4 DEF S!SafeStart, m
  <2> QED
    BY <1>1, <2>2, <2>3, <2>5
<1>6. CASE ~(oldest > 1 /\ breaks # {})
  <2>1. Snapshot = [from |-> oldest, to |-> read]
    BY <1>6 DEF Snapshot
  <2>2. oldest = 1 \/ breaks = {}
    BY <1>1, <1>6
  <2> QED
    BY <1>1, <2>1, <2>2 DEF Chunk, S!SafeStart
<1> QED
  BY <1>5, <1>6

LEMMA FindSafe == ASSUME Safe, NEW v \in Viewer, Find(v) PROVE Safe'
<1>1. Types'
  BY DEF Safe, Types, Find, pumpVars
<1>2. \A w \in Viewer \ {v} : Same(w)
  BY DEF Safe, Types, Find, Same
<1>3. ViewerOK(v)'
  BY DEF Safe, Types, Find, ViewerOK, Waiting, Fresh
<1> QED
  BY <1>1, <1>2, <1>3, OneViewer DEF Find

LEMMA AttachSafe == ASSUME Safe, NEW v \in Viewer, Attach(v) PROVE Safe'
<1>0. Types /\ SessionOK /\ Snapshot \in Chunk /\ Snapshot.to = read /\ Snapshot.from \in 1 .. read + 1
  BY SnapshotOK DEF Safe
<1>1. Types'
  BY <1>0 DEF Types, Attach, pumpVars, Leaving
<1>2. \A w \in Viewer \ {v} : Same(w)
  BY <1>0 DEF Types, Attach, Same
<1>3. Fresh(v)
  BY DEF Safe, Attach, ViewerOK, Waiting
<1>4. /\ serving'[v] = "ack" /\ hand'[v] = Snapshot /\ run'[v] = Snapshot /\ v \in listeners'
      /\ backlog'[v] = NewBacklog /\ writer'[v] = "none" /\ got'[v] = <<>> /\ ~down'[v]
      /\ read' = read
  BY <1>0, <1>3 DEF Types, Attach, Fresh, pumpVars
<1>5. Len(got'[v]) = 0
  BY <1>4
<1>6. read \in Nat /\ 1 <= Snapshot.from /\ Snapshot.from <= read + 1
  BY <1>0, Sizes DEF Types
<1>7. Queued(v)' = read + 1 /\ Due(v)' = Snapshot.from
  BY <1>0, <1>4, <1>5, <1>6, NewBacklogType DEF Queued, Due
<1>8. Spans(backlog'[v].chunks, Queued(v)', run'[v].to)
  <2>1. Spans(<<>>, read + 1, read)
    BY <1>6, SpansNothing
  <2>2. backlog'[v].chunks = <<>> /\ run'[v].to = read
    BY <1>0, <1>4, NewBacklogType
  <2> QED
    BY <1>7, <2>1, <2>2
<1>9. Seamless(v)'
  BY <1>0, <1>4, <1>6, <1>7, <1>8, NewBacklogType, Sizes DEF Seamless
<1>10. ViewerOK(v)'
  BY <1>0, <1>4, <1>9, NewBacklogType DEF ViewerOK, Waiting, Attached, Leaving
<1> QED
  BY <1>1, <1>2, <1>10, OneViewer DEF Attach

\* A viewer whose chunks, replay and run are as they were, its writer at most woken
\* or set to send the replay, is still seamless.
LEMMA StaysSeamless ==
  ASSUME NEW v \in Viewer, Seamless(v), read' = read,
         backlog'[v].chunks = backlog[v].chunks, backlog'[v].bytes = backlog[v].bytes,
         hand'[v] = hand[v], run'[v] = run[v], got'[v] = got[v],
         writer'[v] \in {"none", "send"} => writer[v] \in {"none", "send"},
         writer'[v] \in {"take", "wait"} => writer[v] \in {"take", "wait"}
  PROVE  Seamless(v)' /\ Due(v)' = Due(v) /\ Queued(v)' = Queued(v)
BY DEF Seamless, Due, Queued

LEMMA AckSafe == ASSUME Safe, NEW v \in Viewer, Ack(v) PROVE Safe'
<1>0. Types /\ Attached(v) /\ writer[v] = "none" /\ serving[v] = "ack"
  BY DEF Safe, Ack, ViewerOK, Waiting, Attached
<1>1. Types'
  <2>1. CASE away[v] = "left"
    <3>1. serving' = [serving EXCEPT ![v] = "unlist"] /\ writer' = writer
          /\ backlog' = [backlog EXCEPT ![v] = [backlog[v] EXCEPT !.closed = TRUE]]
      BY <2>1 DEF Ack
    <3>2. backlog' \in [Viewer -> BacklogType]
      BY <1>0, <3>1, OfViewer, ClosedType DEF Types
    <3>3. serving' \in [Viewer -> {"away", "found", "ack", "input"} \cup Leaving]
      BY <1>0, <3>1 DEF Types, Leaving
    <3> QED
      BY <1>0, <3>1, <3>2, <3>3 DEF Types, Ack, pumpVars
  <2>2. CASE away[v] # "left"
    <3>1. serving' = [serving EXCEPT ![v] = "input"] /\ backlog' = backlog
          /\ writer' = [writer EXCEPT ![v] = "send"]
      BY <2>2 DEF Ack
    <3> QED
      BY <1>0, <3>1 DEF Types, Ack, pumpVars, Leaving
  <2> QED
    BY <2>1, <2>2
<1>2. \A w \in Viewer \ {v} : Same(w)
  BY <1>0 DEF Types, Ack, Same
<1>3. CASE away[v] = "left"
  <2>1. /\ serving'[v] = "unlist" /\ backlog'[v] = [backlog[v] EXCEPT !.closed = TRUE]
        /\ backlog'[v].closed
        /\ backlog'[v].chunks = backlog[v].chunks /\ backlog'[v].bytes = backlog[v].bytes
        /\ UNCHANGED <<writer, hand, run, got, down, away, listeners, read>>
    <3>1. /\ serving'[v] = "unlist" /\ backlog'[v] = [backlog[v] EXCEPT !.closed = TRUE]
          /\ UNCHANGED <<writer, hand, run, got, down, away, listeners, read>>
      BY <1>0, <1>3 DEF Types, Ack, pumpVars
    <3>2. backlog[v] \in BacklogType
      BY <1>0, OfViewer
    <3> QED
      BY <3>1, <3>2, ClosedType
  <2>2. Seamless(v)'
    BY <1>0, <2>1, StaysSeamless DEF Attached
  <2> QED
    BY <1>0, <1>1, <1>2, <1>3, <2>1, <2>2, OneViewer
    DEF Ack, ViewerOK, Waiting, Leaving, Attached, Served
<1>4. CASE away[v] # "left"
  <2>1. /\ serving'[v] = "input" /\ writer'[v] = "send"
        /\ UNCHANGED <<backlog, hand, run, got, down, away, listeners, read>>
    BY <1>0, <1>4 DEF Types, Ack, pumpVars
  <2>2. Seamless(v)' /\ Due(v)' = Due(v)
    BY <1>0, <2>1, StaysSeamless DEF Attached
  <2> QED
    BY <1>0, <1>1, <1>2, <2>1, <2>2, OneViewer
    DEF Ack, ViewerOK, Waiting, Leaving, Attached, Served
<1> QED
  BY <1>3, <1>4

\* What is in hand, once sent, leaves the viewer due for what its backlog begins with.
LEMMA HandSent ==
  ASSUME Safe, NEW v \in Viewer, writer[v] = "send"
  PROVE  /\ Bytes(hand[v]) \in Seq(Nat) /\ Len(Bytes(hand[v])) = Size(hand[v])
         /\ Size(hand[v]) \in Nat
         /\ got[v] \o Bytes(hand[v]) \in Seq(Nat)
         /\ run[v].from + Len(got[v] \o Bytes(hand[v])) = hand[v].to + 1
         /\ hand[v].from = Due(v) /\ hand[v].from >= 1 /\ hand[v].to <= run[v].to
         /\ hand[v].to + 1 = Queued(v)
<1>0. Types /\ Attached(v)
  BY DEF Safe, ViewerOK, Waiting, Fresh
<1>1. /\ Seamless(v) /\ hand[v].from = Due(v) /\ Due(v) <= hand[v].to + 1
      /\ Queued(v) = hand[v].to + 1 /\ run[v].from >= 1
  BY <1>0 DEF Attached, Seamless
<1>2. Queued(v) <= run[v].to + 1
  BY <1>1 DEF Seamless, Spans
<1>3. Due(v) = run[v].from + Len(got[v]) /\ Due(v) >= 1
  BY <1>0, <1>1, OfViewer DEF Due
<1>4. Size(hand[v]) \in Nat
  BY <1>0, <1>1, OfViewer DEF Size
<1>5. \A k \in 1 .. Size(hand[v]) : hand[v].from + k - 1 \in Nat
  BY <1>0, <1>4, OfViewer
<1>6. Bytes(hand[v]) \in Seq(Nat) /\ Len(Bytes(hand[v])) = Size(hand[v])
  BY <1>4, <1>5 DEF Bytes
<1>7. got[v] \in Seq(Nat) /\ run[v].from \in Nat /\ run[v].to \in Nat /\ hand[v].from \in Nat
      /\ hand[v].to \in Nat /\ Len(got[v]) \in Nat
  BY <1>0, OfViewer
<1>8. got[v] \o Bytes(hand[v]) \in Seq(Nat)
      /\ Len(got[v] \o Bytes(hand[v])) = Len(got[v]) + Len(Bytes(hand[v]))
  BY <1>6, <1>7, Concats
<1>9. run[v].from + Len(got[v] \o Bytes(hand[v])) = hand[v].to + 1
  <2> DEFINE n == Len(got[v] \o Bytes(hand[v]))
  <2>1. n = Len(got[v]) + (hand[v].to + 1 - hand[v].from)
    BY <1>6, <1>8, Zenon DEF Size
  <2>2. hand[v].from = run[v].from + Len(got[v])
    BY <1>1, <1>3
  <2> DEFINE l == Len(got[v])
             r == run[v].from
             f == hand[v].from
             t == hand[v].to
  <2>3. l \in Int /\ r \in Int /\ f \in Int /\ t \in Int /\ f = r + l
    BY <1>7, <2>2
  <2>4. r + (l + (t + 1 - f)) = t + 1
    <3> HIDE DEF l, r, f, t
    <3> QED
      BY <2>3
  <2> QED
    BY <2>1, <2>4, Zenon
<1>10. hand[v].from >= 1 /\ hand[v].to <= run[v].to
  BY <1>1, <1>2, <1>3, <1>7
<1> QED
  BY <1>1, <1>4, <1>6, <1>8, <1>9, <1>10

LEMMA SendSafe == ASSUME Safe, NEW v \in Viewer, Send(v) PROVE Safe'
<1>0. Types /\ writer[v] = "send" /\ Attached(v) /\ serving[v] \notin Waiting
  BY DEF Safe, Send, ViewerOK, Waiting, Fresh
<1>1. \A w \in Viewer \ {v} : Same(w)
  BY <1>0 DEF Types, Send, Same
<1>2. CASE away[v] = "left" \/ down[v]
  <2>1. /\ writer' = [writer EXCEPT ![v] = "shut"] /\ hand' = [hand EXCEPT ![v] = NoChunk]
        /\ UNCHANGED <<pumpVars, listeners, backlog, serving, got, away, run, down>>
    BY <1>2 DEF Send
  <2>2. Types'
    BY <1>0, <2>1, NewBacklogType DEF Types, pumpVars
  <2>3. Seamless(v)' /\ Due(v)' = Due(v)
    BY <1>0, <2>1 DEF Types, Attached, Seamless, Due, Queued, pumpVars
  <2>4. Served(v) /\ (Served(v))'
    BY <1>0, <1>2, <2>1, <2>3 DEF Attached, Served
  <2>5. ViewerOK(v)'
    BY <1>0, <2>1, <2>3, <2>4 DEF Types, ViewerOK, Waiting, Attached, pumpVars
  <2> QED
    BY <1>1, <2>1, <2>2, <2>5, OneViewer
<1>3. CASE ~(away[v] = "left" \/ down[v])
  <2>1. /\ writer' = [writer EXCEPT ![v] = "take"] /\ hand' = [hand EXCEPT ![v] = NoChunk]
        /\ got' = [got EXCEPT ![v] = got[v] \o Bytes(hand[v])]
        /\ UNCHANGED <<pumpVars, listeners, backlog, serving, away, run, down>>
    BY <1>3 DEF Send
  <2>2. Types'
    BY <1>0, <2>1, HandSent, NewBacklogType DEF Types, pumpVars
  <2>3. Due(v)' = Queued(v) /\ Queued(v)' = Queued(v)
    BY <1>0, <2>1, HandSent DEF Types, Due, Queued
  <2>4. Queued(v) \in Int /\ writer'[v] = "take"
    BY <1>0, <2>1, OfViewer DEF Types
  <2>5. Seamless(v)'
    BY <1>0, <2>1, <2>3, <2>4 DEF Attached, Seamless, pumpVars
  <2>6. ViewerOK(v)'
    BY <1>0, <1>3, <2>1, <2>4, <2>5 DEF ViewerOK, Waiting, Attached, pumpVars
  <2> QED
    BY <1>1, <2>1, <2>2, <2>6, OneViewer
<1> QED
  BY <1>2, <1>3

LEMMA TakeSafe == ASSUME Safe, NEW v \in Viewer, Take(v) PROVE Safe'
<1>0. Types /\ writer[v] = "take" /\ Attached(v) /\ serving[v] \notin Waiting
  BY DEF Safe, Take, ViewerOK, Waiting, Fresh
<1>1. \A w \in Viewer \ {v} : Same(w)
  BY <1>0 DEF Types, Take, Same
<1>2. Seamless(v) /\ Queued(v) = Due(v) /\ Spans(backlog[v].chunks, Queued(v), run[v].to)
  BY <1>0 DEF Attached, Seamless
<1>3. CASE backlog[v].chunks # <<>>
  <2> DEFINE c == Head(backlog[v].chunks)
             b == Taken(backlog[v])
  <2>1. /\ writer' = [writer EXCEPT ![v] = "send"] /\ hand' = [hand EXCEPT ![v] = c]
        /\ backlog' = [backlog EXCEPT ![v] = b]
        /\ UNCHANGED <<pumpVars, listeners, serving, got, away, run, down>>
    BY <1>3 DEF Take
  <2>2. /\ c \in Chunk /\ c.from = Queued(v) /\ Queued(v) <= c.to
        /\ Tail(backlog[v].chunks) \in Seq(Chunk)
        /\ Spans(Tail(backlog[v].chunks), c.to + 1, run[v].to)
    BY <1>0, <1>2, <1>3, OfViewer, SpansTail
  <2>3. c.from \in Nat /\ c.to \in Nat
    BY <2>2 DEF Chunk
  <2>4. /\ b.chunks = Tail(backlog[v].chunks) /\ b.bytes = backlog[v].bytes - (c.to + 1 - c.from)
        /\ b.closed = backlog[v].closed
        /\ b \in BacklogType
    <3>1. b = [backlog[v] EXCEPT !.chunks = Tail(backlog[v].chunks),
                                 !.bytes = backlog[v].bytes - (c.to + 1 - c.from)]
      BY DEF Taken, Size
    <3>2. backlog[v] \in BacklogType
          /\ backlog[v].bytes \in Int
      BY <1>0, OfViewer
    <3> HIDE DEF b, c
    <3> QED
      <4>1. backlog[v].bytes - (c.to + 1 - c.from) \in Int
        BY <2>3, <3>2
      <4> DEFINE n == backlog[v].bytes - (c.to + 1 - c.from)
                 t == Tail(backlog[v].chunks)
      <4>2. n \in Int /\ t \in Seq(Chunk) /\ b = [backlog[v] EXCEPT !.chunks = t, !.bytes = n]
        BY <2>2, <3>1, <4>1
      <4> HIDE DEF n, t
      <4>3. b.chunks = t /\ b.bytes = n /\ b.closed = backlog[v].closed
            /\ b \in BacklogType
        <5> DEFINE r == [backlog[v] EXCEPT !.chunks = t, !.bytes = n]
        <5>1. /\ r \in BacklogType /\ r.chunks = t /\ r.bytes = n
              /\ r.closed = backlog[v].closed
          BY <3>2, <4>2 DEF BacklogType
        <5> HIDE DEF r
        <5>2. b = r
          BY <4>2 DEF r
        <5> QED
          BY <5>1, <5>2
      <4> QED
        BY <4>3 DEF n, t
  <2> HIDE DEF b, c
  <2>5. Types'
    BY <1>0, <2>1, <2>2, <2>4 DEF Types, pumpVars
  <2>6. backlog'[v] = b /\ hand'[v] = c /\ writer'[v] = "send"
    BY <1>0, <2>1 DEF Types
  <2>7. Queued(v)' = c.to + 1 /\ Due(v)' = Due(v)
    <3>1. Queued(v)' = run[v].to + 1 - b.bytes /\ Due(v)' = run[v].from + Len(got[v])
      BY <2>1, <2>6 DEF Queued, Due
    <3>2. run[v].to \in Nat /\ backlog[v].bytes \in Int
      BY <1>0, OfViewer
    <3>3. c.from = run[v].to + 1 - backlog[v].bytes
      BY <2>2 DEF Queued
    <3>4. b.bytes = backlog[v].bytes - (c.to + 1 - c.from)
      BY <2>4
    <3>5. run[v].to + 1 - b.bytes = c.to + 1
      BY <2>3, <3>2, <3>3, <3>4
    <3> QED
      BY <3>1, <3>5 DEF Due
  <2>8. b.bytes <= Cap
    <3>1. backlog[v].bytes <= Cap /\ backlog[v].bytes \in Int /\ Cap \in Nat
      BY <1>0, <1>2, OfViewer, Sizes DEF Seamless
    <3>2. c.from <= c.to
      BY <2>2
    <3>3. b.bytes = backlog[v].bytes - (c.to + 1 - c.from)
      BY <2>4
    <3> QED
      BY <2>3, <3>1, <3>2, <3>3
  <2>9. Seamless(v)'
    <3>1. Spans(backlog'[v].chunks, Queued(v)', run'[v].to)
      BY <2>1, <2>2, <2>4, <2>6, <2>7
    <3>2. hand'[v].from = Due(v)' /\ Due(v)' <= hand'[v].to + 1 /\ Queued(v)' = hand'[v].to + 1
      BY <1>2, <2>2, <2>3, <2>6, <2>7
    <3>3. Due(v)' <= Queued(v)'
      BY <2>3, <3>2, <2>6
    <3> QED
      BY <1>2, <2>1, <2>6, <2>8, <3>1, <3>2, <3>3 DEF Seamless, pumpVars
  <2>10. ViewerOK(v)'
    BY <1>0, <2>1, <2>4, <2>6, <2>7, <2>9 DEF ViewerOK, Waiting, Attached, Served, pumpVars
  <2> QED
    BY <1>1, <2>1, <2>5, <2>10, OneViewer
<1>4. CASE backlog[v].chunks = <<>>
  <2>1. /\ writer' = [writer EXCEPT ![v] = IF backlog[v].closed THEN "shut" ELSE "wait"]
        /\ UNCHANGED <<pumpVars, listeners, backlog, serving, hand, got, away, run, down>>
    BY <1>4 DEF Take
  <2>2. Types'
    BY <1>0, <2>1 DEF Types, pumpVars
  <2>3. writer'[v] = IF backlog[v].closed THEN "shut" ELSE "wait"
    BY <1>0, <2>1 DEF Types
  <2>4. Seamless(v)' /\ Due(v)' = Due(v)
    BY <1>0, <1>2, <2>1, <2>3, StaysSeamless DEF pumpVars
  <2>5. Due(v) = run[v].to + 1
    BY <1>2, <1>4 DEF Spans
  <2>6. ViewerOK(v)'
    BY <1>0, <2>1, <2>3, <2>4, <2>5 DEF ViewerOK, Waiting, Attached, Served, pumpVars
  <2> QED
    BY <1>1, <2>1, <2>2, <2>6, OneViewer
<1> QED
  BY <1>3, <1>4

LEMMA ShutSafe == ASSUME Safe, NEW v \in Viewer, Shut(v) PROVE Safe'
<1>0. Types /\ writer[v] = "shut" /\ Attached(v) /\ serving[v] \notin Waiting
  BY DEF Safe, Shut, ViewerOK, Waiting, Fresh
<1>1. /\ writer' = [writer EXCEPT ![v] = "done"] /\ down' = [down EXCEPT ![v] = TRUE]
      /\ UNCHANGED <<pumpVars, listeners, backlog, serving, hand, got, away, run>>
  BY DEF Shut
<1>2. Types'
  BY <1>0, <1>1 DEF Types, pumpVars
<1>3. \A w \in Viewer \ {v} : Same(w)
  BY <1>0, <1>1 DEF Types, Same
<1>4. writer'[v] = "done"
  BY <1>0, <1>1 DEF Types
<1>5. Seamless(v)' /\ Due(v)' = Due(v)
  BY <1>0, <1>1, <1>4, StaysSeamless DEF Attached, pumpVars
<1>6. ViewerOK(v)'
  BY <1>0, <1>1, <1>4, <1>5 DEF ViewerOK, Waiting, Attached, Served, Types, pumpVars
<1> QED
  BY <1>1, <1>2, <1>3, <1>6, OneViewer

LEMMA LeaveSafe == ASSUME Safe, NEW v \in Viewer, Leave(v) PROVE Safe'
<1>0. Types /\ ViewerOK(v)
  BY DEF Safe
<1>1. /\ away' = [away EXCEPT ![v] = "left"]
      /\ UNCHANGED <<pumpVars, listeners, backlog, serving, writer, hand, got, run, down>>
  BY DEF Leave
<1>2. Types'
  BY <1>0, <1>1 DEF Types, pumpVars
<1>3. \A w \in Viewer \ {v} : Same(w)
  BY <1>0, <1>1 DEF Types, Same
<1>4. away'[v] = "left"
  BY <1>0, <1>1 DEF Types
<1>5. CASE serving[v] \in Waiting
  <2>1. Fresh(v)
    BY <1>0, <1>5 DEF ViewerOK
  <2> QED
    BY <1>1, <1>2, <1>3, <1>5, <2>1, OneViewer DEF ViewerOK, Fresh
<1>6. CASE serving[v] \notin Waiting
  <2>1. Attached(v)
    BY <1>0, <1>6 DEF ViewerOK
  <2>2. Seamless(v)'
    BY <1>1, <2>1, StaysSeamless DEF Attached, pumpVars
  <2>3. ViewerOK(v)'
    BY <1>1, <1>4, <1>6, <2>1, <2>2 DEF ViewerOK, Attached, Served, pumpVars
  <2> QED
    BY <1>1, <1>2, <1>3, <2>3, OneViewer
<1> QED
  BY <1>5, <1>6

\* The writers that a notification wakes, and those it does not.
LEMMA NotifiedType ==
  ASSUME Types, NEW vs \in SUBSET Viewer
  PROVE  /\ Notified(vs) \in [Viewer -> {"none", "send", "take", "wait", "shut", "done"}]
         /\ \A w \in Viewer : /\ w \notin vs => Notified(vs)[w] = writer[w]
                              /\ \/ Notified(vs)[w] = writer[w]
                                 \/ writer[w] = "wait" /\ Notified(vs)[w] = "take"
BY DEF Types, Notified

LEMMA DetachSafe ==
  ASSUME Safe, NEW v \in Viewer, Detach(v), NEW u \in {"here", "left", "refused"},
         away' = [away EXCEPT ![v] = u], u = away[v] \/ u = "refused", u # "here" \/ down[v]
  PROVE  Safe'
<1>0. Types /\ serving[v] = "input" /\ Attached(v)
  BY DEF Safe, Detach, ViewerOK, Waiting
<1>1. /\ serving' = [serving EXCEPT ![v] = "unlist"]
      /\ backlog' = [backlog EXCEPT ![v].closed = TRUE]
      /\ writer' = Notified({v})
      /\ UNCHANGED <<pumpVars, listeners, hand, got, run, down>>
  BY DEF Detach, OnClose
<1>2. Types'
  <2>1. backlog' \in [Viewer -> BacklogType]
    <3>1. [backlog[v] EXCEPT !.closed = TRUE] \in BacklogType
      BY <1>0, OfViewer, ClosedType
    <3> QED
      BY <1>0, <1>1, <3>1 DEF Types
  <2>2. writer' \in [Viewer -> {"none", "send", "take", "wait", "shut", "done"}]
    BY <1>0, <1>1, NotifiedType
  <2>3. serving' \in [Viewer -> {"away", "found", "ack", "input"} \cup Leaving]
        /\ away' \in [Viewer -> {"here", "left", "refused"}]
    BY <1>0, <1>1 DEF Types, Leaving
  <2> QED
    BY <1>0, <1>1, <2>1, <2>2, <2>3 DEF Types, pumpVars
<1>3. \A w \in Viewer \ {v} : Same(w)
  <2> SUFFICES ASSUME NEW w \in Viewer \ {v} PROVE Same(w)
    OBVIOUS
  <2>1. writer'[w] = writer[w]
    BY <1>0, <1>1, NotifiedType
  <2> QED
    BY <1>0, <1>1, <2>1 DEF Types, Same
<1>4. /\ serving'[v] = "unlist" /\ away'[v] = u
      /\ backlog'[v] = [backlog[v] EXCEPT !.closed = TRUE]
  BY <1>0, <1>1 DEF Types
<1>5. /\ backlog'[v].closed
      /\ backlog'[v].chunks = backlog[v].chunks /\ backlog'[v].bytes = backlog[v].bytes
  BY <1>0, <1>4, OfViewer
<1>6. writer'[v] = writer[v] \/ (writer[v] = "wait" /\ writer'[v] = "take")
  BY <1>0, <1>1, NotifiedType
<1>7. Seamless(v)' /\ Due(v)' = Due(v)
  BY <1>0, <1>1, <1>5, <1>6, StaysSeamless DEF Attached, pumpVars
<1>8. ViewerOK(v)'
  BY <1>0, <1>1, <1>4, <1>5, <1>6, <1>7
  DEF ViewerOK, Waiting, Leaving, Attached, Served, pumpVars
<1> QED
  BY <1>1, <1>2, <1>3, <1>8, OneViewer

LEMMA InputEndsSafe == ASSUME Safe, NEW v \in Viewer, InputEnds(v) PROVE Safe'
<1>1. away[v] \in {"here", "left", "refused"} /\ away' = [away EXCEPT ![v] = away[v]]
  BY DEF InputEnds, Safe, Types
<1> QED
  BY <1>1, DetachSafe DEF InputEnds

LEMMA InputRefusedSafe == ASSUME Safe, NEW v \in Viewer, InputRefused(v) PROVE Safe'
BY DetachSafe DEF InputRefused

LEMMA UnlistSafe == ASSUME Safe, NEW v \in Viewer, Unlist(v) PROVE Safe'
<1>0. Types /\ serving[v] = "unlist" /\ Attached(v)
  BY DEF Safe, Unlist, ViewerOK, Waiting
<1>1. /\ serving' = [serving EXCEPT ![v] = "shut"] /\ listeners' = listeners \ {v}
      /\ UNCHANGED <<pumpVars, backlog, writer, hand, got, away, run, down>>
  BY DEF Unlist
<1>2. Types'
  BY <1>0, <1>1 DEF Types, pumpVars, Leaving
<1>3. \A w \in Viewer \ {v} : Same(w)
  BY <1>0, <1>1 DEF Types, Same
<1>4. serving'[v] = "shut" /\ v \notin listeners'
  BY <1>0, <1>1 DEF Types
<1>5. Seamless(v)' /\ Due(v)' = Due(v)
  BY <1>0, <1>1, StaysSeamless DEF Attached, pumpVars
<1>6. ViewerOK(v)'
  BY <1>0, <1>1, <1>4, <1>5 DEF ViewerOK, Waiting, Leaving, Attached, Served, pumpVars
<1> QED
  BY <1>1, <1>2, <1>3, <1>6, OneViewer

LEMMA ShutInputSafe == ASSUME Safe, NEW v \in Viewer, ShutInput(v) PROVE Safe'
<1>0. Types /\ serving[v] = "shut" /\ Attached(v)
  BY DEF Safe, ShutInput, ViewerOK, Waiting
<1>1. /\ serving' = [serving EXCEPT ![v] = "join"] /\ down' = [down EXCEPT ![v] = TRUE]
      /\ UNCHANGED <<pumpVars, listeners, backlog, writer, hand, got, away, run>>
  BY DEF ShutInput
<1>2. Types'
  BY <1>0, <1>1 DEF Types, pumpVars, Leaving
<1>3. \A w \in Viewer \ {v} : Same(w)
  BY <1>0, <1>1 DEF Types, Same
<1>4. serving'[v] = "join" /\ down'[v]
  BY <1>0, <1>1 DEF Types
<1>5. Seamless(v)' /\ Due(v)' = Due(v)
  BY <1>0, <1>1, StaysSeamless DEF Attached, pumpVars
<1>6. ViewerOK(v)'
  BY <1>0, <1>1, <1>4, <1>5 DEF ViewerOK, Waiting, Leaving, Attached, Served, pumpVars
<1> QED
  BY <1>1, <1>2, <1>3, <1>6, OneViewer

LEMMA JoinSafe == ASSUME Safe, NEW v \in Viewer, Join(v) PROVE Safe'
<1>0. Types /\ serving[v] = "join" /\ Attached(v)
  BY DEF Safe, Join, ViewerOK, Waiting
<1>1. /\ serving' = [serving EXCEPT ![v] = "gone"]
      /\ UNCHANGED <<pumpVars, listeners, backlog, writer, hand, got, away, run, down>>
  BY DEF Join
<1>2. Types'
  BY <1>0, <1>1 DEF Types, pumpVars, Leaving
<1>3. \A w \in Viewer \ {v} : Same(w)
  BY <1>0, <1>1 DEF Types, Same
<1>4. serving'[v] = "gone"
  BY <1>0, <1>1 DEF Types
<1>5. Seamless(v)' /\ Due(v)' = Due(v)
  BY <1>0, <1>1, StaysSeamless DEF Attached, pumpVars
<1>6. ViewerOK(v)'
  BY <1>0, <1>1, <1>4, <1>5 DEF ViewerOK, Waiting, Leaving, Attached, Served, pumpVars
<1> QED
  BY <1>1, <1>2, <1>3, <1>6, OneViewer

-----------------------------------------------------------------------------
(* Steps of the session *)

\* Steps on the way to the session's end that touch no viewer.
LEMMA EndingSafe ==
  ASSUME Safe,
         \/ Exit \/ Eof
         \/ \E k \in Killer : Kill(k)
         \/ \E f \in Finisher : Unregister(f)
  PROVE  Safe'
<1>0. Types /\ SessionOK
  BY DEF Safe
<1>1. UNCHANGED <<newline, read, oldest, listeners, backlog, viewerVars>>
  BY DEF Exit, Eof, Kill, Unregister
<1>2. \A w \in Viewer : ViewerOK(w)'
  BY <1>1, SameOK DEF Safe, Same, viewerVars
<1>3. CASE Exit
  <2>1. held' \in BOOLEAN /\ UNCHANGED <<registered, finisher>>
    BY <1>3 DEF Exit
  <2>2. Types'
    BY <1>0, <1>1, <2>1 DEF Types, viewerVars
  <2>3. SessionOK'
    BY <1>0, <1>1, <2>1 DEF SessionOK
  <2> QED
    BY <1>2, <2>2, <2>3 DEF Safe
<1>4. CASE ~Exit
  <2>1. PICK f \in Finisher, to \in {"unregister", "close", "done"} :
          /\ finisher' = [finisher EXCEPT ![f] = to] /\ held' = held
          /\ registered' \in {registered, FALSE}
          /\ to = "close" => registered /\ ~registered'
    <3>1. CASE Eof
      BY <3>1 DEF Eof, Step, Finisher
    <3>2. CASE \E k \in Killer : Kill(k)
      BY <3>2 DEF Kill, Step, Finisher
    <3>3. CASE \E f \in Finisher : Unregister(f)
      BY <3>3 DEF Unregister, Step
    <3> QED
      BY <1>4, <3>1, <3>2, <3>3
  <2>2. finisher' \in [Finisher -> {"idle", "unregister", "close", "done"}]
        /\ registered' \in BOOLEAN
    BY <1>0, <2>1 DEF Types
  <2>3. Types'
    BY <1>0, <1>1, <2>1, <2>2 DEF Types, viewerVars
  <2>4. \A g, h \in Finisher : finisher'[g] = "close" =>
          ~registered' /\ (finisher'[h] = "close" => g = h)
    BY <1>0, <2>1 DEF Types, SessionOK
  <2>5. SessionOK'
    BY <1>0, <1>1, <2>4 DEF SessionOK
  <2> QED
    BY <1>2, <2>3, <2>5 DEF Safe
<1> QED
  BY <1>3, <1>4

LEMMA CloseAllSafe == ASSUME Safe, NEW f \in Finisher, CloseAll(f) PROVE Safe'
<1>0. Types /\ SessionOK
  BY DEF Safe
<1>1. /\ finisher' = [finisher EXCEPT ![f] = "done"] /\ writer' = Notified(listeners)
      /\ backlog' = [v \in Viewer |-> IF v \in listeners
                                      THEN [backlog[v] EXCEPT !.closed = TRUE]
                                      ELSE backlog[v]]
      /\ listeners' = {}
      /\ UNCHANGED <<newline, held, registered, read, oldest, serving, hand, got, away, run, down>>
  BY DEF CloseAll, Step, OnClose
<1>2. Types'
  <2>1. listeners \in SUBSET Viewer
    BY <1>0 DEF Types
  <2>2. \A v \in Viewer : [backlog[v] EXCEPT !.closed = TRUE] \in BacklogType
    BY <1>0, OfViewer, ClosedType
  <2>3. backlog' \in [Viewer -> BacklogType]
    BY <1>0, <1>1, <2>2 DEF Types
  <2> QED
    BY <1>0, <1>1, <2>1, <2>3, NotifiedType DEF Types
<1>3. SessionOK'
  BY <1>0, <1>1 DEF Types, SessionOK
<1>4. ASSUME NEW v \in Viewer PROVE ViewerOK(v)'
  <2>1. listeners \in SUBSET Viewer /\ ViewerOK(v)
    BY <1>0 DEF Safe, Types
  <2>2. writer'[v] = writer[v] \/ (writer[v] = "wait" /\ writer'[v] = "take" /\ v \in listeners)
    BY <1>0, <1>1, <2>1, NotifiedType
  <2>3. CASE serving[v] \in Waiting
    <3>1. Fresh(v) /\ v \notin listeners
      BY <2>1, <2>3 DEF ViewerOK, Fresh
    <3>2. backlog'[v] = backlog[v]
      BY <1>1, <3>1
    <3> QED
      BY <1>1, <2>2, <2>3, <3>1, <3>2 DEF ViewerOK, Fresh
  <2>4. CASE serving[v] \notin Waiting
    <3>1. Attached(v)
      BY <2>1, <2>4 DEF ViewerOK
    <3>2. /\ backlog'[v].chunks = backlog[v].chunks /\ backlog'[v].bytes = backlog[v].bytes
          /\ backlog[v].closed => backlog'[v].closed
      BY <1>0, <1>1, OfViewer
    <3>3. Seamless(v)' /\ Due(v)' = Due(v)
      BY <1>1, <2>2, <3>1, <3>2, StaysSeamless DEF Attached
    <3> QED
      BY <1>1, <2>2, <2>4, <3>1, <3>2, <3>3 DEF ViewerOK, Attached, Served
  <2> QED
    BY <2>3, <2>4
<1> QED
  BY <1>2, <1>3, <1>4 DEF Safe

LEMMA PushedOK ==
  ASSUME NEW b \in BacklogType, NEW c \in Chunk
  PROVE  /\ Pushed(b, c) \in BacklogType
         /\ b.closed => Pushed(b, c) = b
         /\ ~b.closed /\ Overflows(b, c) =>
              /\ Pushed(b, c).chunks = b.chunks /\ Pushed(b, c).bytes = b.bytes
              /\ Pushed(b, c).closed
         /\ ~b.closed /\ ~Overflows(b, c) =>
              /\ Pushed(b, c).chunks = Append(b.chunks, c)
              /\ Pushed(b, c).bytes = b.bytes + Size(c)
              /\ ~Pushed(b, c).closed
<1>1. Size(c) \in Int /\ b.bytes + Size(c) \in Int /\ Append(b.chunks, c) \in Seq(Chunk)
  BY DEF Size, Chunk, BacklogType
<1>2. CASE b.closed
  BY <1>2 DEF Pushed
<1>3. CASE ~b.closed /\ Overflows(b, c)
  BY <1>3, ClosedType DEF Pushed
<1>4. CASE ~b.closed /\ ~Overflows(b, c)
  <2>1. Pushed(b, c) = [b EXCEPT !.chunks = Append(b.chunks, c), !.bytes = b.bytes + Size(c)]
    BY <1>4 DEF Pushed
  <2> DEFINE t == Append(b.chunks, c)
             n == b.bytes + Size(c)
  <2>2. t \in Seq(Chunk) /\ n \in Int
    BY <1>1
  <2>3. Pushed(b, c) = [b EXCEPT !.chunks = t, !.bytes = n]
    BY <2>1
  <2> HIDE DEF t, n
  <2> DEFINE r == [b EXCEPT !.chunks = t, !.bytes = n]
  <2>4. /\ r \in BacklogType
        /\ r.chunks = t /\ r.bytes = n /\ r.closed = b.closed
    BY <2>2 DEF BacklogType
  <2> HIDE DEF r
  <2>5. Pushed(b, c) = r
    BY <2>3 DEF r
  <2> QED
    BY <1>4, <2>4, <2>5 DEF t, n
<1> QED
  BY <1>2, <1>3, <1>4

\* Whom a read reaches, and what becomes of the others.
LEMMA ReadCases ==
  ASSUME Types, NEW n \in 1 .. MaxRead, Read(n)
  PROVE  /\ read' = read + n /\ read' \in 0 .. MaxBytes /\ n \in Nat \ {0}
         /\ UNCHANGED <<newline, held, registered, finisher, serving, hand, got, away, down>>
         /\ Types'
         /\ \A v \in Viewer :
              /\ \/ writer'[v] = writer[v]
                 \/ writer[v] = "wait" /\ writer'[v] = "take" /\ v \in listeners
              /\ v \in listeners' <=> v \in listeners /\ ~backlog'[v].closed
              /\ \/ /\ ~(v \in listeners /\ ~backlog[v].closed) /\ v \notin listeners'
                    /\ backlog'[v] = backlog[v] /\ run'[v] = run[v]
                 \/ /\ v \in listeners /\ ~backlog[v].closed /\ v \notin listeners'
                    /\ backlog[v].bytes + n > Cap /\ run'[v] = run[v]
                    /\ backlog'[v].chunks = backlog[v].chunks
                    /\ backlog'[v].bytes = backlog[v].bytes /\ backlog'[v].closed
                 \/ /\ v \in listeners /\ ~backlog[v].closed /\ v \in listeners'
                    /\ backlog[v].bytes + n <= Cap
                    /\ run'[v].from = run[v].from /\ run'[v].to = read + n
                    /\ backlog'[v].chunks =
                         Append(backlog[v].chunks, [from |-> read + 1, to |-> read + n])
                    /\ backlog'[v].bytes = backlog[v].bytes + n /\ ~backlog'[v].closed
<1> DEFINE c == [from |-> read + 1, to |-> read + n]
<1>1. read \in Nat /\ n \in Nat \ {0} /\ MaxBytes \in Nat /\ listeners \in SUBSET Viewer
      /\ Cap \in Nat
  BY Sizes DEF Types
<1>2. c \in Chunk /\ Size(c) = n
  BY <1>1 DEF Chunk, Size
<1> HIDE DEF c
<1>3. /\ read + n <= MaxBytes /\ read' = read + n /\ oldest' = Evicted(read + n)
      /\ backlog' = [v \in Viewer |-> IF v \in listeners THEN Pushed(backlog[v], c)
                                      ELSE backlog[v]]
      /\ listeners' = {v \in listeners : ~backlog'[v].closed}
      /\ writer' = Notified({v \in listeners : ~backlog[v].closed})
      /\ run' = [v \in Viewer |-> IF v \in listeners' THEN [run[v] EXCEPT !.to = read + n]
                                  ELSE run[v]]
      /\ UNCHANGED <<newline, held, registered, finisher, serving, hand, got, away, down>>
  BY DEF Read, OnPush, c
<1>4. {v \in listeners : ~backlog[v].closed} \in SUBSET Viewer
  BY <1>1
<1>5. Types'
  <2>1. backlog' \in [Viewer -> BacklogType]
    <3> SUFFICES ASSUME NEW v \in Viewer
                 PROVE  backlog'[v] \in BacklogType
      BY <1>3
    <3>1. backlog[v] \in BacklogType
      BY OfViewer
    <3>2. Pushed(backlog[v], c) \in BacklogType
      BY <1>2, <3>1, PushedOK
    <3> QED
      BY <1>3, <3>1, <3>2
  <2>2. run' \in [Viewer -> Chunk]
    <3> SUFFICES ASSUME NEW v \in Viewer PROVE run'[v] \in Chunk
      BY <1>3
    <3>1. run[v] \in Chunk /\ read + n \in Nat
      BY <1>1, OfViewer
    <3>2. [run[v] EXCEPT !.to = read + n] \in Chunk
      BY <3>1 DEF Chunk
    <3> QED
      BY <1>3, <3>1, <3>2
  <2>3. writer' \in [Viewer -> {"none", "send", "take", "wait", "shut", "done"}]
    BY <1>3, <1>4, NotifiedType
  <2>4. oldest' \in Nat
    BY <1>1, <1>3, Sizes DEF Types, Evicted
  <2>5. read' \in 0 .. MaxBytes /\ listeners' \in SUBSET Viewer
    BY <1>1, <1>3
  <2> QED
    BY <1>3, <2>1, <2>2, <2>3, <2>4, <2>5 DEF Types
<1>6. ASSUME NEW v \in Viewer
      PROVE  /\ \/ writer'[v] = writer[v]
                \/ writer[v] = "wait" /\ writer'[v] = "take" /\ v \in listeners
             /\ v \in listeners' <=> v \in listeners /\ ~backlog'[v].closed
  BY <1>3, <1>4, NotifiedType
<1>7. ASSUME NEW v \in Viewer, ~(v \in listeners /\ ~backlog[v].closed)
      PROVE  v \notin listeners' /\ backlog'[v] = backlog[v] /\ run'[v] = run[v]
  <2>1. backlog'[v] = backlog[v]
    BY <1>2, <1>3, <1>7, OfViewer, PushedOK
  <2> QED
    BY <1>3, <1>6, <1>7, <2>1
<1>8. ASSUME NEW v \in Viewer, v \in listeners, ~backlog[v].closed, Overflows(backlog[v], c)
      PROVE  /\ v \notin listeners' /\ backlog[v].bytes + n > Cap /\ run'[v] = run[v]
             /\ backlog'[v].chunks = backlog[v].chunks
             /\ backlog'[v].bytes = backlog[v].bytes /\ backlog'[v].closed
  <2>1. backlog'[v] = Pushed(backlog[v], c)
    BY <1>3, <1>8
  <2>2. /\ backlog'[v].chunks = backlog[v].chunks
        /\ backlog'[v].bytes = backlog[v].bytes /\ backlog'[v].closed
    BY <1>2, <1>8, <2>1, OfViewer, PushedOK
  <2> QED
    BY <1>2, <1>3, <1>6, <1>8, <2>2 DEF Overflows
<1>9. ASSUME NEW v \in Viewer, v \in listeners, ~backlog[v].closed, ~Overflows(backlog[v], c)
      PROVE  /\ v \in listeners' /\ backlog[v].bytes + n <= Cap
             /\ run'[v].from = run[v].from /\ run'[v].to = read + n
             /\ backlog'[v].chunks = Append(backlog[v].chunks, c)
             /\ backlog'[v].bytes = backlog[v].bytes + n /\ ~backlog'[v].closed
  <2>1. backlog'[v] = Pushed(backlog[v], c)
    BY <1>3, <1>9
  <2>2. /\ backlog'[v].chunks = Append(backlog[v].chunks, c)
        /\ backlog'[v].bytes = backlog[v].bytes + n /\ ~backlog'[v].closed
    <3>1. backlog[v] \in BacklogType
      BY OfViewer
    <3>2. /\ Pushed(backlog[v], c).chunks = Append(backlog[v].chunks, c)
          /\ Pushed(backlog[v], c).bytes = backlog[v].bytes + Size(c)
          /\ ~Pushed(backlog[v], c).closed
      BY <1>2, <1>9, <3>1, PushedOK
    <3> QED
      BY <1>2, <2>1, <3>2
  <2>3. v \in listeners' /\ run'[v] = [run[v] EXCEPT !.to = read + n]
    BY <1>3, <1>6, <1>9, <2>2
  <2>4. run'[v].from = run[v].from /\ run'[v].to = read + n
    BY <2>3, OfViewer DEF Chunk
  <2>5. backlog[v].bytes + n <= Cap
    BY <1>1, <1>2, <1>9, OfViewer DEF Overflows
  <2> QED
    BY <2>2, <2>3, <2>4, <2>5
<1>10. read' \in 0 .. MaxBytes
  BY <1>1, <1>3
<1>11. ASSUME NEW v \in Viewer
       PROVE  \/ /\ ~(v \in listeners /\ ~backlog[v].closed) /\ v \notin listeners'
                 /\ backlog'[v] = backlog[v] /\ run'[v] = run[v]
              \/ /\ v \in listeners /\ ~backlog[v].closed /\ v \notin listeners'
                 /\ backlog[v].bytes + n > Cap /\ run'[v] = run[v]
                 /\ backlog'[v].chunks = backlog[v].chunks
                 /\ backlog'[v].bytes = backlog[v].bytes /\ backlog'[v].closed
              \/ /\ v \in listeners /\ ~backlog[v].closed /\ v \in listeners'
                 /\ backlog[v].bytes + n <= Cap
                 /\ run'[v].from = run[v].from /\ run'[v].to = read + n
                 /\ backlog'[v].chunks = Append(backlog[v].chunks, c)
                 /\ backlog'[v].bytes = backlog[v].bytes + n /\ ~backlog'[v].closed
  <2>1. CASE ~(v \in listeners /\ ~backlog[v].closed)
    BY <1>7, <2>1, Zenon
  <2>2. CASE v \in listeners /\ ~backlog[v].closed /\ Overflows(backlog[v], c)
    BY <1>8, <2>2, Zenon
  <2>3. CASE v \in listeners /\ ~backlog[v].closed /\ ~Overflows(backlog[v], c)
    BY <1>9, <2>3, Zenon
  <2> QED
    BY <2>1, <2>2, <2>3, Zenon
<1> QED
  BY <1>1, <1>3, <1>5, <1>6, <1>10, <1>11, Zenon DEF c

LEMMA ReadSafe == ASSUME Safe, NEW n \in 1 .. MaxRead, Read(n) PROVE Safe'
<1>0. Types /\ SessionOK /\ Types'
  BY ReadCases DEF Safe
<1>1. read \in Nat /\ oldest \in Nat /\ n \in Nat \ {0} /\ RingBytes \in Nat /\ n <= RingBytes
  BY <1>0, Sizes DEF Types
<1>2. SessionOK'
  <2>1. read' = read + n /\ UNCHANGED <<registered, finisher>> /\ oldest' = Evicted(read + n)
    BY DEF Read
  <2>2. /\ oldest' \in 1 .. read' + 1 /\ read' + 1 - oldest' <= RingBytes
        /\ oldest' = 1 \/ read' + 1 - oldest' = RingBytes
    BY <1>0, <1>1, <2>1 DEF SessionOK, Evicted
  <2> QED
    BY <1>0, <2>1, <2>2 DEF SessionOK
<1>3. ASSUME NEW v \in Viewer PROVE ViewerOK(v)'
  <2>1. /\ read' = read + n
        /\ UNCHANGED <<serving, hand, got, away, down>>
        /\ writer'[v] = writer[v] \/ (writer[v] = "wait" /\ writer'[v] = "take" /\ v \in listeners)
    BY <1>0, ReadCases
  <2>2. ViewerOK(v) /\ run[v].to \in Nat
    BY <1>0, OfViewer DEF Safe
  <2>3. CASE serving[v] \in Waiting
    <3>1. Fresh(v) /\ v \notin listeners
      BY <2>2, <2>3 DEF ViewerOK, Fresh
    <3>2. v \notin listeners' /\ backlog'[v] = backlog[v] /\ run'[v] = run[v]
      BY <1>0, <3>1, ReadCases
    <3> QED
      BY <2>1, <2>3, <3>1, <3>2 DEF ViewerOK, Fresh
  <2>4. CASE serving[v] \notin Waiting /\ run'[v] = run[v] /\ v \notin listeners'
             /\ backlog'[v].chunks = backlog[v].chunks /\ backlog'[v].bytes = backlog[v].bytes
             /\ (backlog[v].closed => backlog'[v].closed)
    <3>1. Attached(v) /\ Seamless(v)
      BY <2>2, <2>4 DEF ViewerOK, Attached
    <3>2. run[v].to <= read'
      BY <1>1, <2>1, <2>2, <3>1 DEF Seamless
    <3>3. Seamless(v)' /\ Due(v)' = Due(v)
      BY <2>1, <2>4, <3>1, <3>2 DEF Seamless, Due, Queued
    <3> QED
      BY <2>1, <2>4, <3>1, <3>3 DEF ViewerOK, Attached, Served
  <2>5. CASE serving[v] \notin Waiting /\ v \in listeners /\ ~backlog[v].closed /\ v \in listeners'
    <3>1. /\ backlog[v].bytes + n <= Cap
          /\ run'[v].from = run[v].from /\ run'[v].to = read + n
          /\ backlog'[v].chunks = Append(backlog[v].chunks, [from |-> read + 1, to |-> read + n])
          /\ backlog'[v].bytes = backlog[v].bytes + n /\ ~backlog'[v].closed
      BY <1>0, <2>5, ReadCases
    <3>2. Attached(v) /\ Seamless(v) /\ run[v].to = read
      BY <2>2, <2>5 DEF ViewerOK, Attached
    <3>3. /\ backlog[v].chunks \in Seq(Chunk) /\ backlog[v].bytes \in Int /\ Queued(v) \in Int
          /\ run[v].from \in Nat /\ Due(v) \in Nat
      BY <1>0, OfViewer
    <3>4. Queued(v)' = Queued(v)
      <4>1. Queued(v)' = (read + n) + 1 - (backlog[v].bytes + n)
        BY <3>1, Zenon DEF Queued
      <4>2. Queued(v) = read + 1 - backlog[v].bytes
        BY <3>2, Zenon DEF Queued
      <4> QED
        BY <1>1, <3>3, <4>1, <4>2
    <3>5. Due(v)' = Due(v)
      BY <2>1, <3>1 DEF Due
    <3>6. Spans(backlog'[v].chunks, Queued(v)', run'[v].to)
      <4>1. Spans(backlog[v].chunks, Queued(v), read)
        BY <3>2 DEF Seamless
      <4> QED
        BY <1>1, <3>1, <3>3, <3>4, <4>1, SpansAppend
    <3>7. run'[v].from >= 1 /\ run'[v].from <= run'[v].to + 1 /\ run'[v].to <= read'
      <4>1. run[v].from >= 1 /\ run[v].from <= read + 1
        BY <3>2 DEF Seamless
      <4> QED
        BY <1>1, <2>1, <3>1, <3>3, <4>1
    <3>8. backlog'[v].bytes <= Cap
      BY <3>1
    <3>9. Seamless(v)'
      BY <2>1, <3>2, <3>4, <3>5, <3>6, <3>7, <3>8 DEF Seamless
    <3>10. ~(writer[v] \in {"shut", "done"} \/ down[v]) \/ away[v] # "here"
      BY <2>5, <3>2 DEF Attached, Served
    <3> QED
      BY <2>1, <2>5, <3>1, <3>2, <3>9, <3>10 DEF ViewerOK, Attached, Served
  <2> QED
    BY <1>0, <2>3, <2>4, <2>5, ReadCases
<1> QED
  BY <1>0, <1>2, <1>3 DEF Safe

LEMMA NextSafe == Safe /\ [Next]_vars => Safe'
<1> SUFFICES ASSUME Safe, [Next]_vars PROVE Safe'
  OBVIOUS
<1>1. CASE Output
  BY <1>1, ReadSafe DEF Output
<1>2. CASE Ending
  BY <1>2, EndingSafe, CloseAllSafe DEF Ending
<1>3. ASSUME NEW v \in Viewer,
             \/ Find(v) \/ Attach(v) \/ Leave(v) \/ InputRefused(v)
             \/ WriterStep(v) \/ ServingStep(v)
      PROVE  Safe'
  BY <1>3, FindSafe, AttachSafe, LeaveSafe, InputRefusedSafe, SendSafe, TakeSafe, ShutSafe,
     AckSafe, InputEndsSafe, UnlistSafe, ShutInputSafe, JoinSafe DEF WriterStep, ServingStep
<1>4. CASE UNCHANGED vars
  <2>1. \A v \in Viewer : ViewerOK(v)'
    BY <1>4, SameOK DEF Safe, Same, vars, pumpVars, viewerVars
  <2>2. Types' /\ SessionOK'
    BY <1>4 DEF Safe, Types, SessionOK, vars, pumpVars, viewerVars
  <2> QED
    BY <2>1, <2>2 DEF Safe
<1> QED
  BY <1>1, <1>2, <1>3, <1>4 DEF Next

LEMMA AlwaysSafe == Spec => []Safe
<1> QED
  BY InitSafe, NextSafe, PTL DEF Spec

\* The ring keeps at most RingBytes and every backlog at most Cap, whatever the sizes,
\* and a backlog's count is that of the bytes in it.
THEOREM TypeCorrect == Spec => []TypeOK
<1> QED
  BY AlwaysSafe, SafeTyped, PTL

-----------------------------------------------------------------------------
(* The refinement *)

\* The state of Stream that a state of the session stands for.
Over     == ~registered /\ \A f \in Finisher : finisher[f] # "close"
Watching == {v \in listeners : ~backlog[v].closed}
Start    == [v \in Viewer |-> IF serving[v] \in {"away", "found"} THEN 0 ELSE run[v].from]
Promised == [v \in Viewer |-> run[v].to]
Excused  == {v \in Viewer : away[v] # "here"}
Ended    == {v \in Viewer : down[v]}

LEMMA InitMaps == Init => S!Init
BY NewBacklogType DEF Init, S!Init

\* What only moves the session on, out of a viewer's sight.
LEMMA Stutters ==
  ASSUME UNCHANGED <<newline, read, got>>, Over' = Over, Watching' = Watching,
         Start' = Start, Promised' = Promised, Excused' = Excused, Ended' = Ended
  PROVE  UNCHANGED S!streamVars
BY DEF Over, Watching, Start, Promised, Excused, Ended, S!streamVars

LEMMA SeenTo ==
  ASSUME Types, NEW v \in Viewer, serving[v] \notin Waiting
  PROVE  S!LastSeen(v) = Due(v) - 1 /\ Start[v] = run[v].from
<1>1. run[v].from \in Nat /\ Len(got[v]) \in Nat
  BY OfViewer
<1>2. Start[v] = run[v].from
  BY DEF Start, Waiting
<1>3. S!LastSeen(v) = run[v].from + Len(got[v]) - 1
  BY <1>1 DEF S!LastSeen, Waiting
<1>4. Due(v) = run[v].from + Len(got[v])
  BY DEF Due
<1>5. S!LastSeen(v) = Due(v) - 1
  BY <1>1, <1>3, <1>4
<1> QED
  BY <1>2, <1>5

LEMMA ReadMaps == ASSUME Safe, NEW n \in 1 .. MaxRead, Read(n) PROVE S!Next
<1>0. Types
  BY DEF Safe
<1>1. /\ read' = read + n /\ n \in Nat \ {0} /\ n \in 1 .. RingBytes /\ read \in Nat
      /\ UNCHANGED <<newline, registered, finisher, serving, got, away, down>>
      /\ listeners \in SUBSET Viewer
  <2>1. /\ read' = read + n /\ n \in Nat \ {0}
        /\ UNCHANGED <<newline, registered, finisher, serving, got, away, down>>
    BY <1>0, ReadCases
  <2>2. n \in 1 .. RingBytes
    BY Sizes
  <2>3. read \in Nat /\ listeners \in SUBSET Viewer
    BY <1>0, Sizes DEF Types
  <2> QED
    BY <2>1, <2>2, <2>3
<1>2. Watching' \subseteq Watching /\ Watching' \in SUBSET Viewer
  BY <1>0, <1>1, ReadCases DEF Watching, Types
<1>3. ASSUME NEW v \in Watching \ Watching' PROVE read + n - S!LastSeen(v) > Cap
  <2>1. v \in Viewer /\ v \in listeners /\ ~backlog[v].closed /\ v \notin listeners'
    BY <1>0, <1>1, <1>3, ReadCases DEF Watching
  <2>2. backlog[v].bytes + n > Cap
    BY <1>0, <2>1, ReadCases
  <2>3. Attached(v) /\ serving[v] \notin Waiting
    BY <2>1 DEF Safe, ViewerOK, Fresh
  <2>4. Due(v) <= Queued(v) /\ run[v].to = read
    BY <2>1, <2>3 DEF Attached, Seamless
  <2>5. Queued(v) = read + 1 - backlog[v].bytes /\ S!LastSeen(v) = Due(v) - 1
    BY <1>0, <2>1, <2>3, <2>4, SeenTo DEF Queued
  <2>6. Due(v) \in Nat /\ backlog[v].bytes \in Int /\ Cap \in Nat
    BY <1>0, <2>1, OfViewer, Sizes
  <2> QED
    BY <1>1, <2>2, <2>4, <2>5, <2>6
<1>4. Promised' = [v \in Viewer |-> IF v \in Watching' THEN read + n ELSE Promised[v]]
  <2>1. ASSUME NEW v \in Viewer
        PROVE  run'[v].to = IF v \in Watching' THEN read + n ELSE run[v].to
    BY <1>0, ReadCases DEF Watching
  <2> QED
    BY <2>1 DEF Promised
<1>5. Over' = Over /\ Excused' = Excused /\ Ended' = Ended
  BY <1>1 DEF Over, Excused, Ended
<1>6. Start' = Start
  <2>1. ASSUME NEW v \in Viewer PROVE run'[v].from = run[v].from
    BY <1>0, ReadCases
  <2> QED
    BY <1>1, <2>1 DEF Start
<1>7. PICK kept \in SUBSET Viewer : kept = Watching'
  BY <1>2
<1>8. S!Emit(n, kept)
  BY <1>1, <1>2, <1>3, <1>4, <1>5, <1>6, <1>7
  DEF S!Emit, Over, Watching, Start, Promised, Excused, Ended
<1> QED
  BY <1>1, <1>7, <1>8 DEF S!Next

\* At most one thread closes the session, and then the session is over.
LEMMA EndingMaps == ASSUME Safe, Ending PROVE [S!Next]_(S!streamVars)
<1>0. Types /\ SessionOK
  BY DEF Safe
<1>1. ASSUME NEW f \in Finisher, CloseAll(f) PROVE S!Next
  <2>1. /\ finisher[f] = "close" /\ finisher' = [finisher EXCEPT ![f] = "done"]
        /\ listeners' = {}
        /\ UNCHANGED <<newline, registered, read, serving, got, away, run, down>>
    BY <1>1 DEF CloseAll, Step
  <2>2. ~Over
    BY <2>1 DEF Over
  <2>3. Over'
    BY <1>0, <2>1 DEF Over, Types, SessionOK
  <2>4. Watching' = {} /\ UNCHANGED <<Start, Promised, Excused, Ended>>
    BY <2>1 DEF Watching, Start, Promised, Excused, Ended
  <2>5. S!Close
    BY <2>1, <2>2, <2>3, <2>4 DEF S!Close, Over, Watching, Start, Promised, Excused, Ended
  <2> QED
    BY <2>5 DEF S!Next
<1>2. ASSUME \/ Exit \/ Eof
             \/ \E k \in Killer : Kill(k)
             \/ \E f \in Finisher : Unregister(f)
      PROVE  UNCHANGED S!streamVars
  <2>1. UNCHANGED <<newline, read, listeners, backlog, serving, got, away, run, down>>
    BY <1>2 DEF Exit, Eof, Kill, Unregister, viewerVars
  <2>2. Over' = Over
    <3>1. CASE Exit
      BY <3>1 DEF Exit, Over
    <3>2. CASE Eof
      BY <1>0, <3>2 DEF Eof, Step, Over, Types, Finisher
    <3>3. CASE \E k \in Killer : Kill(k)
      BY <1>0, <3>3 DEF Kill, Step, Over, Types, Finisher
    <3>4. ASSUME NEW f \in Finisher, Unregister(f) PROVE Over' = Over
      <4>1. CASE registered
        <5>1. finisher'[f] = "close"
          BY <1>0, <3>4, <4>1 DEF Unregister, Step, Types
        <5> QED
          BY <4>1, <5>1 DEF Over
      <4>2. CASE ~registered
        BY <1>0, <3>4, <4>2 DEF Unregister, Step, Over, Types
      <4> QED
        BY <4>1, <4>2
    <3> QED
      BY <1>2, <3>1, <3>2, <3>3, <3>4
  <2>3. UNCHANGED <<Watching, Start, Promised, Excused, Ended>>
    BY <2>1 DEF Watching, Start, Promised, Excused, Ended
  <2> QED
    BY <2>1, <2>2, <2>3, Stutters
<1> QED
  BY <1>1, <1>2 DEF Ending

LEMMA AttachMaps == ASSUME Safe, NEW v \in Viewer, Attach(v) PROVE S!Next
<1>0. Types /\ SessionOK /\ Fresh(v) /\ serving[v] = "found"
  BY DEF Safe, Attach, ViewerOK, Waiting
<1>1. /\ serving' = [serving EXCEPT ![v] = "ack"] /\ run' = [run EXCEPT ![v] = Snapshot]
      /\ listeners' = listeners \cup {v}
      /\ UNCHANGED <<newline, read, registered, finisher, backlog, got, away, down>>
  BY DEF Attach, pumpVars
<1>2. /\ Snapshot \in Chunk /\ Snapshot.to = read /\ Snapshot.from \in 1 .. read + 1
      /\ S!SafeStart(oldest, read, Snapshot.from)
  BY <1>0, SnapshotOK
<1>3. oldest \in 1 .. read + 1 /\ (oldest = 1 \/ read - oldest + 1 = RingBytes)
  BY <1>0, Sizes DEF SessionOK, Types
<1>4. Start[v] = 0 /\ Start' = [Start EXCEPT ![v] = Snapshot.from]
  BY <1>0, <1>1 DEF Start, Types
<1>5. Promised' = [Promised EXCEPT ![v] = read]
  BY <1>0, <1>1, <1>2 DEF Promised, Types
<1>6. Watching' = Watching \cup {v}
  <2>1. ~backlog[v].closed
    BY <1>0, NewBacklogType DEF Fresh
  <2> QED
    BY <1>1, <2>1 DEF Watching
<1>7. UNCHANGED <<Over, Excused, Ended>>
  BY <1>1 DEF Over, Excused, Ended
<1>8. S!Join(v)
  BY <1>1, <1>2, <1>3, <1>4, <1>5, <1>6, <1>7
  DEF S!Join, Over, Watching, Start, Promised, Excused, Ended
<1> QED
  BY <1>8 DEF S!Next

\* A viewer that is counted out because it leaves, or because the session would not take
\* what it typed.
LEMMA LeavesMaps ==
  ASSUME NEW v \in Viewer, UNCHANGED <<newline, read, got>>, Over' = Over,
         Start' = Start, Promised' = Promised, Ended' = Ended,
         Excused' = Excused \cup {v}, Watching' \in {Watching, Watching \ {v}}
  PROVE  S!Next
<1>1. S!Leave(v)
  BY DEF S!Leave, Over, Watching, Start, Promised, Excused, Ended
<1> QED
  BY <1>1 DEF S!Next

\* Every step of a viewer that neither attaches it nor sends anything.
LEMMA QuietMaps ==
  ASSUME Types, NEW v \in Viewer, UNCHANGED <<pumpVars, got, run>>,
         \A w \in Viewer : serving'[w] \in {"away", "found"} <=> serving[w] \in {"away", "found"}
  PROVE  /\ UNCHANGED <<newline, read, got>> /\ Over' = Over
         /\ Start' = Start /\ Promised' = Promised
BY DEF Over, Start, Promised, pumpVars

LEMMA SendMaps == ASSUME Safe, NEW v \in Viewer, Send(v) PROVE [S!Next]_(S!streamVars)
<1>0. Types /\ Attached(v) /\ writer[v] = "send" /\ serving[v] \notin Waiting
  BY DEF Safe, Send, ViewerOK, Waiting, Fresh
<1>1. UNCHANGED <<pumpVars, listeners, backlog, serving, away, run, down>>
  BY DEF Send
<1>2. UNCHANGED <<newline, read, Over, Watching, Start, Promised, Excused, Ended>>
  BY <1>1 DEF Over, Watching, Start, Promised, Excused, Ended, pumpVars
<1>3. CASE away[v] = "left" \/ down[v]
  <2>1. UNCHANGED got
    BY <1>3 DEF Send
  <2> QED
    BY <1>2, <2>1, Stutters
<1>4. CASE ~(away[v] = "left" \/ down[v])
  <2> DEFINE n == Size(hand[v])
  <2>1. got' = [got EXCEPT ![v] = @ \o Bytes(hand[v])]
    BY <1>4 DEF Send
  <2>2. /\ n \in Nat /\ hand[v].from = Due(v) /\ hand[v].from >= 1 /\ hand[v].to <= run[v].to
    BY <1>0, HandSent
  <2>3. S!LastSeen(v) = Due(v) - 1 /\ Start[v] = run[v].from
    BY <1>0, SeenTo
  <2>4. Due(v) \in Nat /\ hand[v].to \in Nat /\ run[v].to \in Nat /\ run[v].to <= read
        /\ run[v].from \in Nat /\ run[v].from >= 1 /\ read \in Nat
    BY <1>0, OfViewer, Sizes DEF Attached, Seamless, Types
  <2>5. n = hand[v].to + 1 - Due(v)
    BY <2>2 DEF Size
  <2>6. S!LastSeen(v) + n <= run[v].to /\ n \in 0 .. read
    BY <2>2, <2>3, <2>4, <2>5
  <2>7. Bytes(hand[v]) = [k \in 1 .. n |-> S!LastSeen(v) + k]
    <3>1. \A k \in 1 .. n : hand[v].from + k - 1 = S!LastSeen(v) + k
      BY <2>2, <2>3, <2>4
    <3> QED
      BY <3>1 DEF Bytes
  <2>8. v \notin Ended /\ Promised[v] = run[v].to
    BY <1>4 DEF Ended, Promised
  <2>9. got' = [got EXCEPT ![v] = @ \o [k \in 1 .. n |-> S!LastSeen(v) + k]]
    BY <2>1, <2>7
  <2>10. Start[v] > 0 /\ S!LastSeen(v) + n <= Promised[v]
    BY <2>3, <2>4, <2>6, <2>8
  <2> HIDE DEF n
  <2>11. S!Show(v, n)
    BY <1>2, <2>8, <2>9, <2>10 DEF S!Show, Over, Watching, Start, Promised, Excused, Ended
  <2> QED
    BY <2>6, <2>11 DEF S!Next
<1> QED
  BY <1>3, <1>4

LEMMA ShutMaps ==
  ASSUME Safe, NEW v \in Viewer, Served(v), v \notin Watching \/ away[v] # "here",
         serving[v] \notin Waiting, down' = [down EXCEPT ![v] = TRUE],
         UNCHANGED <<pumpVars, listeners, backlog, got, away, run>>,
         \A w \in Viewer : serving'[w] \in {"away", "found"} <=> serving[w] \in {"away", "found"}
  PROVE  S!Next
<1>0. Types /\ run[v].from >= 1
  BY DEF Safe, ViewerOK, Attached, Seamless
<1>1. UNCHANGED <<newline, read, got, Over, Start, Promised>>
  BY <1>0, QuietMaps
<1>2. UNCHANGED <<Watching, Excused>> /\ Ended' = Ended \cup {v}
  BY <1>0 DEF Watching, Excused, Ended, Types
<1>3. Start[v] > 0 /\ S!LastSeen(v) = Due(v) - 1 /\ Promised[v] = run[v].to
  BY <1>0, SeenTo, OfViewer DEF Promised
<1>4. v \in Excused \/ (v \notin Watching /\ S!LastSeen(v) = Promised[v])
  BY <1>0, <1>3, OfViewer DEF Served, Excused
<1>5. S!End(v)
  BY <1>1, <1>2, <1>3, <1>4 DEF S!End, Over, Watching, Start, Promised, Excused, Ended
<1> QED
  BY <1>5 DEF S!Next

LEMMA WriterMaps == ASSUME Safe, NEW v \in Viewer, WriterStep(v) PROVE [S!Next]_(S!streamVars)
<1>0. Types
  BY DEF Safe
<1>1. CASE Send(v)
  BY <1>1, SendMaps
<1>2. CASE Take(v)
  <2>1. UNCHANGED <<pumpVars, listeners, serving, got, away, run, down>>
    BY <1>2 DEF Take
  <2>2. \A w \in Viewer : backlog'[w].closed = backlog[w].closed
    <3>1. backlog' = backlog \/ backlog' = [backlog EXCEPT ![v] = Taken(backlog[v])]
      BY <1>2 DEF Take
    <3>2. Taken(backlog[v]).closed = backlog[v].closed
      BY <1>0, OfViewer DEF Taken
    <3> QED
      BY <1>0, <3>1, <3>2 DEF Types
  <2>3. Watching' = Watching
    BY <1>0, <2>1, <2>2 DEF Watching, Types
  <2>4. UNCHANGED <<newline, read, got, Over, Start, Promised, Excused, Ended>>
    BY <2>1 DEF Over, Start, Promised, Excused, Ended, pumpVars
  <2> QED
    BY <2>3, <2>4, Stutters
<1>3. CASE Shut(v)
  <2>1. /\ writer[v] = "shut" /\ down' = [down EXCEPT ![v] = TRUE]
        /\ UNCHANGED <<pumpVars, listeners, backlog, serving, got, away, run>>
    BY <1>3 DEF Shut
  <2>2. serving[v] \notin Waiting /\ Served(v)
    BY <2>1 DEF Safe, ViewerOK, Fresh, Attached
  <2>3. v \notin Watching \/ away[v] # "here"
    BY <2>2 DEF Served, Watching
  <2> QED
    BY <2>1, <2>2, <2>3, ShutMaps
<1> QED
  BY <1>1, <1>2, <1>3 DEF WriterStep

\* The end of a viewer's input: the viewer left, or was refused, or is not counted in.
LEMMA DetachMaps ==
  ASSUME Safe, NEW v \in Viewer, Detach(v), NEW u \in {"here", "left", "refused"},
         away' = [away EXCEPT ![v] = u], u = away[v] \/ u = "refused", u # "here" \/ down[v]
  PROVE  [S!Next]_(S!streamVars)
<1>0. Types /\ serving[v] = "input" /\ Attached(v)
  BY DEF Safe, Detach, ViewerOK, Waiting
<1>1. /\ serving' = [serving EXCEPT ![v] = "unlist"]
      /\ backlog' = [backlog EXCEPT ![v].closed = TRUE]
      /\ UNCHANGED <<pumpVars, listeners, got, run, down>>
  BY DEF Detach
<1>2. UNCHANGED <<newline, read, got, Over, Start, Promised>>
  BY <1>0, <1>1, QuietMaps DEF Types
<1>3. Ended' = Ended
  BY <1>1 DEF Ended
<1>4. Watching' = Watching \ {v}
  <2>1. \A w \in Viewer : backlog'[w].closed <=> w = v \/ backlog[w].closed
    BY <1>0, <1>1 DEF Types
  <2> QED
    BY <1>0, <1>1, <2>1 DEF Watching, Types
<1>5. CASE u # "here"
  <2>1. Excused' = Excused \cup {v}
    BY <1>0, <1>5 DEF Excused, Types
  <2> QED
    BY <1>2, <1>3, <1>4, <2>1, LeavesMaps
<1>6. CASE u = "here"
  <2>1. down[v] /\ away[v] = "here"
    BY <1>6
  <2>2. v \notin Watching
    BY <1>0, <2>1 DEF Attached, Served, Watching
  <2>3. Watching' = Watching /\ Excused' = Excused
    BY <1>0, <1>4, <1>6, <2>1, <2>2 DEF Excused, Types
  <2> QED
    BY <1>2, <1>3, <2>3, Stutters
<1> QED
  BY <1>5, <1>6

LEMMA AckMaps == ASSUME Safe, NEW v \in Viewer, Ack(v) PROVE [S!Next]_(S!streamVars)
<1>0. Types /\ serving[v] = "ack"
  BY DEF Safe, Ack
<1>1. UNCHANGED <<pumpVars, listeners, got, away, run, down>> /\ \E to \in {"unlist", "input"} :
        serving' = [serving EXCEPT ![v] = to]
  BY DEF Ack
<1>2. UNCHANGED <<newline, read, got, Over, Start, Promised>>
  BY <1>0, <1>1, QuietMaps DEF Types
<1>3. UNCHANGED <<Excused, Ended>>
  BY <1>1 DEF Excused, Ended
<1>4. CASE away[v] = "left"
  <2>1. backlog' = [backlog EXCEPT ![v].closed = TRUE]
    BY <1>4 DEF Ack
  <2>2. \A w \in Viewer : backlog'[w].closed <=> w = v \/ backlog[w].closed
    BY <1>0, <2>1 DEF Types
  <2>3. Watching' = Watching \ {v}
    BY <1>0, <1>1, <2>2 DEF Watching, Types
  <2>4. Excused' = Excused \cup {v}
    BY <1>3, <1>4 DEF Excused
  <2> QED
    BY <1>2, <1>3, <2>3, <2>4, LeavesMaps
<1>5. CASE away[v] # "left"
  <2>1. UNCHANGED backlog
    BY <1>5 DEF Ack
  <2>2. Watching' = Watching
    BY <1>1, <2>1 DEF Watching
  <2> QED
    BY <1>2, <1>3, <2>2, Stutters
<1> QED
  BY <1>4, <1>5

LEMMA ServingMaps == ASSUME Safe, NEW v \in Viewer, ServingStep(v) PROVE [S!Next]_(S!streamVars)
<1>0. Types /\ SessionOK /\ ViewerOK(v)
  BY DEF Safe
<1>1. CASE Ack(v)
  BY <1>1, AckMaps
<1>2. CASE InputEnds(v)
  <2>1. away[v] \in {"here", "left", "refused"} /\ away' = [away EXCEPT ![v] = away[v]]
    BY <1>0, <1>2 DEF InputEnds, Types
  <2> QED
    BY <1>2, <2>1, DetachMaps DEF InputEnds
<1>3. CASE Unlist(v)
  <2>1. /\ serving[v] = "unlist" /\ serving' = [serving EXCEPT ![v] = "shut"]
        /\ listeners' = listeners \ {v}
        /\ UNCHANGED <<pumpVars, backlog, got, away, run, down>>
    BY <1>3 DEF Unlist
  <2>2. backlog[v].closed
    BY <1>0, <2>1 DEF ViewerOK, Waiting, Leaving, Attached
  <2>3. UNCHANGED <<Watching, Excused, Ended>>
    BY <2>1, <2>2 DEF Watching, Excused, Ended
  <2>4. UNCHANGED <<newline, read, got, Over, Start, Promised>>
    BY <1>0, <2>1, QuietMaps DEF Types
  <2> QED
    BY <2>3, <2>4, Stutters
<1>4. CASE ShutInput(v)
  <2>1. /\ serving[v] = "shut" /\ serving' = [serving EXCEPT ![v] = "join"]
        /\ down' = [down EXCEPT ![v] = TRUE]
        /\ UNCHANGED <<pumpVars, listeners, backlog, got, away, run>>
    BY <1>4 DEF ShutInput
  <2>2. Served(v) /\ v \notin Watching /\ serving[v] \notin Waiting
    BY <1>0, <2>1 DEF ViewerOK, Waiting, Leaving, Attached, Served, Watching
  <2>3. \A w \in Viewer : serving'[w] \in {"away", "found"} <=> serving[w] \in {"away", "found"}
    BY <1>0, <2>1 DEF Types
  <2> QED
    BY <2>1, <2>2, <2>3, ShutMaps
<1>5. CASE Join(v)
  <2>1. /\ serving[v] = "join" /\ serving' = [serving EXCEPT ![v] = "gone"]
        /\ UNCHANGED <<pumpVars, listeners, backlog, got, away, run, down>>
    BY <1>5 DEF Join
  <2>2. UNCHANGED <<newline, read, got, Over, Start, Promised>>
    BY <1>0, <2>1, QuietMaps DEF Types
  <2>3. UNCHANGED <<Watching, Excused, Ended>>
    BY <2>1 DEF Watching, Excused, Ended
  <2> QED
    BY <2>2, <2>3, Stutters
<1> QED
  BY <1>1, <1>2, <1>3, <1>4, <1>5 DEF ServingStep

LEMMA OtherMaps ==
  ASSUME Safe, NEW v \in Viewer, Find(v) \/ Leave(v) \/ InputRefused(v)
  PROVE  [S!Next]_(S!streamVars)
<1>0. Types
  BY DEF Safe
<1>1. CASE Find(v)
  <2>1. /\ serving[v] = "away" /\ serving' = [serving EXCEPT ![v] = "found"]
        /\ UNCHANGED <<pumpVars, listeners, backlog, got, away, run, down>>
    BY <1>1 DEF Find
  <2>2. UNCHANGED <<newline, read, got, Over, Start, Promised>>
    BY <1>0, <2>1, QuietMaps DEF Types
  <2>3. UNCHANGED <<Watching, Excused, Ended>>
    BY <2>1 DEF Watching, Excused, Ended
  <2> QED
    BY <2>2, <2>3, Stutters
<1>2. CASE Leave(v)
  <2>1. /\ away' = [away EXCEPT ![v] = "left"]
        /\ UNCHANGED <<pumpVars, listeners, backlog, serving, got, run, down>>
    BY <1>2 DEF Leave
  <2>2. UNCHANGED <<newline, read, got, Over, Start, Promised>>
    BY <1>0, <2>1, QuietMaps
  <2>3. Watching' = Watching /\ Ended' = Ended /\ Excused' = Excused \cup {v}
    BY <1>0, <2>1 DEF Watching, Ended, Excused, Types
  <2> QED
    BY <2>2, <2>3, LeavesMaps
<1>3. CASE InputRefused(v)
  BY <1>3, DetachMaps DEF InputRefused
<1> QED
  BY <1>1, <1>2, <1>3

LEMMA NextMaps == Safe /\ [Next]_vars => [S!Next]_(S!streamVars)
<1> SUFFICES ASSUME Safe, [Next]_vars PROVE [S!Next]_(S!streamVars)
  OBVIOUS
<1>1. CASE Output
  BY <1>1, ReadMaps DEF Output
<1>2. CASE Ending
  BY <1>2, EndingMaps
<1>3. ASSUME NEW v \in Viewer,
             \/ Find(v) \/ Attach(v) \/ Leave(v) \/ InputRefused(v)
             \/ WriterStep(v) \/ ServingStep(v)
      PROVE  [S!Next]_(S!streamVars)
  BY <1>3, OtherMaps, AttachMaps, WriterMaps, ServingMaps
<1>4. CASE UNCHANGED vars
  <2>1. UNCHANGED <<newline, read, got, Over, Watching, Start, Promised, Excused, Ended>>
    BY <1>4 DEF vars, pumpVars, viewerVars, Over, Watching, Start, Promised, Excused, Ended
  <2> QED
    BY <2>1, Stutters
<1> QED
  BY <1>1, <1>2, <1>3, <1>4 DEF Next

\* The pump, the kills, the writers and the threads of the connections, whatever their
\* order, implement the stream: a viewer is sent one contiguous run of the output, from
\* a safe place to the last byte printed while it was counted in, and its stream ends
\* only there unless it left.
THEOREM Implements == Spec => ImplementsStream
<1> QED
  BY InitMaps, NextMaps, AlwaysSafe, PTL DEF Spec, ImplementsStream, S!Spec
-----------------------------------------------------------------------------
(* Nobody waits in vain *)

\* A writer asleep has nothing in its backlog, which is open; it is started before input
\* is read, and what is through has shut the socket.
Awake(v) ==
    /\ writer[v] = "wait" => backlog[v].chunks = <<>> /\ ~backlog[v].closed
    /\ serving[v] = "input" => writer[v] # "none"
    /\ writer[v] = "done" => down[v]

AllAwake == \A v \in Viewer : Awake(v)

\* Nothing is done to a backlog behind the back of its writer.
LEMMA StaysAwake ==
  ASSUME NEW w \in Viewer, Awake(w),
         writer'[w] = "wait" => writer[w] = "wait" /\ backlog'[w] = backlog[w],
         serving'[w] = "input" => serving[w] = "input" /\ (writer'[w] = "none" => writer[w] = "none"),
         writer'[w] = "done" => writer[w] = "done",
         down[w] => down'[w]
  PROVE  Awake(w)'
BY DEF Awake

LEMMA TellsAll ==
  ASSUME Types, NEW vs \in SUBSET Viewer, writer' = Notified(vs), UNCHANGED <<serving, down>>,
         \A w \in Viewer \ vs : writer[w] = "wait" => backlog'[w] = backlog[w], AllAwake
  PROVE  AllAwake'
<1> SUFFICES ASSUME NEW w \in Viewer PROVE Awake(w)'
  BY DEF AllAwake
<1>1. \/ writer'[w] = writer[w] /\ w \notin vs
      \/ writer'[w] = writer[w] /\ w \in vs /\ writer[w] # "wait"
      \/ writer[w] = "wait" /\ writer'[w] = "take"
  BY DEF Notified, Types
<1>2. Awake(w)
  BY DEF AllAwake
<1> QED
  BY <1>1, <1>2, StaysAwake

LEMMA ReadAwake == ASSUME Safe, AllAwake, NEW n \in 1 .. MaxRead, Read(n) PROVE AllAwake'
<1> DEFINE vs == {v \in listeners : ~backlog[v].closed}
<1>1. Types /\ vs \in SUBSET Viewer
  BY DEF Safe, Types
<1>2. writer' = Notified(vs) /\ UNCHANGED <<serving, down>>
  BY DEF Read, OnPush
<1>3. ASSUME NEW w \in Viewer \ vs PROVE backlog'[w] = backlog[w]
  <2> DEFINE c == [from |-> read + 1, to |-> read + n]
  <2>1. backlog'[w] = IF w \in listeners THEN Pushed(backlog[w], c) ELSE backlog[w]
    BY DEF Read
  <2> HIDE DEF c
  <2> QED
    BY <1>3, <2>1 DEF Pushed
<1> HIDE DEF vs
<1> QED
  BY <1>1, <1>2, <1>3, TellsAll

LEMMA CloseAllAwake == ASSUME Safe, AllAwake, NEW f \in Finisher, CloseAll(f) PROVE AllAwake'
<1>1. Types /\ listeners \in SUBSET Viewer
  BY DEF Safe, Types
<1>2. /\ writer' = Notified(listeners) /\ UNCHANGED <<serving, down>>
      /\ \A w \in Viewer \ listeners : backlog'[w] = backlog[w]
  BY DEF CloseAll, OnClose
<1> QED
  BY <1>1, <1>2, TellsAll

LEMMA DetachAwake == ASSUME Safe, AllAwake, NEW v \in Viewer, Detach(v) PROVE AllAwake'
<1>1. Types
  BY DEF Safe
<1>2. /\ serving' = [serving EXCEPT ![v] = "unlist"] /\ writer' = Notified({v}) /\ down' = down
      /\ \A w \in Viewer \ {v} : backlog'[w] = backlog[w]
  BY <1>1 DEF Detach, OnClose, Types
<1> SUFFICES ASSUME NEW w \in Viewer PROVE Awake(w)'
  BY DEF AllAwake
<1>3. /\ writer'[w] = "wait" => w # v /\ writer[w] = "wait"
      /\ writer'[w] \in {"none", "done"} => writer'[w] = writer[w]
      /\ serving'[w] = "input" => serving[w] = "input"
  BY <1>1, <1>2 DEF Notified, Types
<1> QED
  BY <1>2, <1>3, StaysAwake DEF AllAwake

LEMMA WriterAwake == ASSUME Safe, AllAwake, NEW v \in Viewer, WriterStep(v) PROVE AllAwake'
<1>1. Types
  BY DEF Safe
<1> SUFFICES ASSUME NEW w \in Viewer PROVE Awake(w)'
  BY DEF AllAwake
<1>2. Awake(w)
  BY DEF AllAwake
<1>3. CASE Send(v)
  BY <1>1, <1>2, <1>3 DEF Send, Awake, Types
<1>4. CASE Take(v)
  <2>1. CASE w # v
    <3>1. Same(w)
      BY <1>1, <1>4, <2>1 DEF Take, Same, Types
    <3> QED
      BY <1>2, <3>1 DEF Awake, Same
  <2>2. CASE w = v /\ backlog[v].chunks # <<>>
    BY <1>1, <1>2, <1>4, <2>2 DEF Take, Awake, Types
  <2>3. CASE w = v /\ backlog[v].chunks = <<>>
    BY <1>1, <1>2, <1>4, <2>3 DEF Take, Awake, Types
  <2> QED
    BY <2>1, <2>2, <2>3
<1>5. CASE Shut(v)
  BY <1>1, <1>2, <1>5 DEF Shut, Awake, Types
<1> QED
  BY <1>3, <1>4, <1>5 DEF WriterStep

LEMMA ServingAwake ==
  ASSUME Safe, AllAwake, NEW v \in Viewer,
         Find(v) \/ Attach(v) \/ Leave(v) \/ Ack(v) \/ Unlist(v) \/ ShutInput(v) \/ Join(v)
  PROVE  AllAwake'
<1>1. Types
  BY DEF Safe
<1> SUFFICES ASSUME NEW w \in Viewer PROVE Awake(w)'
  BY DEF AllAwake
<1>2. Awake(w)
  BY DEF AllAwake
<1>3. CASE Ack(v)
  <2>1. serving[v] = "ack" /\ writer[v] = "none"
    BY <1>3 DEF Ack, Safe, ViewerOK, Waiting, Attached
  <2>2. CASE w # v
    <3>1. Same(w)
      BY <1>1, <1>3, <2>2 DEF Ack, Same, Types
    <3> QED
      BY <1>2, <3>1 DEF Awake, Same
  <2>3. CASE w = v /\ away[v] = "left"
    BY <1>1, <1>3, <2>1, <2>3 DEF Ack, Awake, Types
  <2>4. CASE w = v /\ away[v] # "left"
    BY <1>1, <1>3, <2>1, <2>4 DEF Ack, Awake, Types
  <2> QED
    BY <2>2, <2>3, <2>4
<1>4. CASE Find(v) \/ Attach(v) \/ Leave(v) \/ Unlist(v) \/ ShutInput(v) \/ Join(v)
  BY <1>1, <1>2, <1>4, StaysAwake DEF Find, Attach, Leave, Unlist, ShutInput, Join, Types
<1> QED
  BY <1>3, <1>4

LEMMA AwakeStep == Safe /\ AllAwake /\ [Next]_vars => AllAwake'
<1> SUFFICES ASSUME Safe, AllAwake, [Next]_vars PROVE AllAwake'
  OBVIOUS
<1>1. CASE Output
  BY <1>1, ReadAwake DEF Output
<1>2. CASE Ending
  <2>1. CASE \E f \in Finisher : CloseAll(f)
    BY <2>1, CloseAllAwake
  <2>2. CASE Exit \/ Eof \/ (\E k \in Killer : Kill(k)) \/ \E f \in Finisher : Unregister(f)
    <3>1. UNCHANGED <<backlog, writer, serving, down>>
      BY <2>2 DEF Exit, Eof, Kill, Unregister, viewerVars
    <3> QED
      BY <3>1 DEF AllAwake, Awake
  <2> QED
    BY <1>2, <2>1, <2>2 DEF Ending
<1>3. CASE \E v \in Viewer : WriterStep(v)
  BY <1>3, WriterAwake
<1>4. CASE \E v \in Viewer : InputEnds(v) \/ InputRefused(v)
  BY <1>4, DetachAwake DEF InputEnds, InputRefused
<1>5. CASE \E v \in Viewer : \/ Find(v) \/ Attach(v) \/ Leave(v) \/ Ack(v)
                             \/ Unlist(v) \/ ShutInput(v) \/ Join(v)
  BY <1>5, ServingAwake
<1>6. CASE UNCHANGED vars
  BY <1>6 DEF AllAwake, Awake, vars, viewerVars
<1> QED
  BY <1>1, <1>2, <1>3, <1>4, <1>5, <1>6 DEF Next, ServingStep

\* However pushes, closes and the waits of writers fall, for any number of viewers and any
\* sizes: no writer sleeps over bytes it owes or over the end of its stream, and no thread
\* waits for one that does (Backlog::push, close, next_chunk, and the join in serve).
THEOREM NobodyWaits == Spec => []NobodyWaitsInVain
<1>1. Init => AllAwake
  BY DEF Init, AllAwake, Awake
<1>2. Safe /\ AllAwake => NobodyWaitsInVain
  <2> SUFFICES ASSUME Safe, AllAwake, NEW v \in Viewer
               PROVE  /\ writer[v] = "wait" =>
                           run[v].from + Len(got[v]) = run[v].to + 1 /\ ~backlog[v].closed
                      /\ serving[v] = "input" => writer[v] # "none" /\ (writer[v] = "done" => down[v])
                      /\ serving[v] = "join" => writer[v] # "wait"
    BY DEF NobodyWaitsInVain
  <2>1. Awake(v) /\ ViewerOK(v)
    BY DEF AllAwake, Safe
  <2>2. writer[v] = "wait" => Attached(v)
    BY <2>1 DEF ViewerOK, Fresh
  <2>3. ASSUME writer[v] = "wait" PROVE run[v].from + Len(got[v]) = run[v].to + 1
    <3>1. Queued(v) = Due(v) /\ backlog[v].chunks = <<>> /\ Spans(<<>>, Queued(v), run[v].to)
      BY <2>1, <2>2, <2>3 DEF Awake, Attached, Seamless
    <3>2. Queued(v) = run[v].to + 1
      BY <3>1 DEF Spans
    <3> QED
      BY <3>1, <3>2 DEF Due
  <2>4. serving[v] = "join" => backlog[v].closed
    BY <2>1 DEF ViewerOK, Waiting, Attached, Leaving
  <2> QED
    BY <2>1, <2>3, <2>4 DEF Awake
<1> QED
  BY <1>1, <1>2, AlwaysSafe, AwakeStep, PTL DEF Spec
=============================================================================
