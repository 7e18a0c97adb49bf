-------------------------- MODULE PaneViewsProofs ---------------------------
(***************************************************************************)
(* Proofs about PaneViews, for any number of views of the pane.            *)
(***************************************************************************)
EXTENDS PaneViews, TLAPS

\* Who has the only right to be fed: the pane's attachment, the one being made, or the
\* one being let go of.
Holds(v) ==
    \/ pane = v
    \/ main.at = "hello" /\ main.view = v
    \/ main.at \in {"release", "shut"} /\ main.old = v

Fresh == {"no", "yes"}          \* not answered yet
Tokened == {"token", "attached"}

\* The main thread holds nothing else for the pane while it is at work.
MainOK ==
    /\ main.at = "idle" => main = Resting
    /\ main.at # "idle" => pane = "none"
    /\ main.at \in {"release", "shut"} =>
         main.old \in View /\ asked[main.old] \in Tokened /\ mounted # main.old
    /\ main.at = "shut" => main.old \in released
    /\ main.at = "hello" => main.view \in View
    /\ main.view # "none" => /\ asked[main.view] = "yes"
                             /\ main.at # "hello" => link[main.view] = "none"

PaneOK == pane # "none" => asked[pane] \in Tokened /\ pane \notin released \cup left

ViewOK(v) ==
    /\ asked[v] = "no" => mounted # v /\ link[v] = "none"
    /\ asked[v] \in Fresh => v \notin released \cup left
    /\ asked[v] \notin Tokened => reader[v] = "none"
    /\ link[v] \notin {"none", "refused", "down"} /\ v \notin left => Holds(v)
    /\ reader[v] = "reads" /\ v \in left => v \in released
    /\ reader[v] = "ended" => link[v] = "down"

\* A view's attach is the last there is in the queue while it is on the screen.
LastAttach(q, i, m) == m = "none" \/ \E j \in i .. Len(q) : q[j] = Command("attach", m)

QueueOK ==
    \A i \in 1 .. Len(queue) :
      /\ queue[i].what = "attach" =>
           /\ asked[queue[i].view] = "yes" /\ link[queue[i].view] = "none"
           /\ main.view # queue[i].view
           /\ LastAttach(queue, i, mounted)
           /\ \A j \in 1 .. Len(queue) : queue[j] = queue[i] => j = i
      /\ queue[i].what = "detach" =>
           asked[queue[i].view] = "attached" /\ mounted # queue[i].view

OrderOK == main.view # "none" /\ main.view # mounted => LastAttach(queue, 1, mounted)

IInv == TypeOK /\ MainOK /\ PaneOK /\ (\A v \in View : ViewOK(v)) /\ QueueOK /\ OrderOK
           /\ NotCutOff

-----------------------------------------------------------------------------
(* The queue *)

Commands == [what : {"attach", "detach"}, view : View]

LEMMA TailIndex ==
  ASSUME NEW q \in Seq(Commands), q # <<>>
  PROVE  /\ Tail(q) \in Seq(Commands) /\ Len(Tail(q)) = Len(q) - 1 /\ Len(q) \in Nat \ {0}
         /\ Head(q) = q[1] /\ q[1] \in Commands
         /\ \A i \in 1 .. Len(q) - 1 : Tail(q)[i] = q[i + 1]
OBVIOUS

LEMMA AppendIndex ==
  ASSUME NEW q \in Seq(Commands), NEW c \in Commands
  PROVE  /\ Append(q, c) \in Seq(Commands) /\ Len(Append(q, c)) = Len(q) + 1 /\ Len(q) \in Nat
         /\ Append(q, c)[Len(q) + 1] = c
         /\ \A i \in 1 .. Len(q) : Append(q, c)[i] = q[i]
OBVIOUS

LEMMA QueueType == TypeOK => queue \in Seq(Commands) /\ Len(queue) \in Nat
                             /\ \A i \in 1 .. Len(queue) : queue[i] \in Commands
<1> SUFFICES ASSUME TypeOK PROVE queue \in Seq(Commands)
  OBVIOUS
<1> QED
  BY DEF TypeOK, Commands

\* What is owed to the commands that stay in the queue.
Stays(i) ==
    /\ queue[i].what = "attach" =>
         asked'[queue[i].view] = "yes" /\ link'[queue[i].view] = "none"
         /\ main'.view # queue[i].view
    /\ queue[i].what = "detach" => asked'[queue[i].view] = "attached"

LEMMA QueueKept ==
  ASSUME TypeOK, QueueOK, queue' = queue, mounted' \in {mounted, "none"},
         \A i \in 1 .. Len(queue) : Stays(i)
  PROVE  QueueOK'
<1> SUFFICES ASSUME NEW i \in 1 .. Len(queue)
             PROVE  /\ queue[i].what = "attach" =>
                         /\ asked'[queue[i].view] = "yes" /\ link'[queue[i].view] = "none"
                         /\ main'.view # queue[i].view
                         /\ LastAttach(queue, i, mounted')
                         /\ \A j \in 1 .. Len(queue) : queue[j] = queue[i] => j = i
                    /\ queue[i].what = "detach" =>
                         asked'[queue[i].view] = "attached" /\ mounted' # queue[i].view
  BY DEF QueueOK, LastAttach
<1>1. queue[i].view \in View
  BY QueueType DEF Commands
<1> QED
  BY <1>1, ViewsAssumption DEF QueueOK, Stays, LastAttach

LEMMA QueueTaken ==
  ASSUME TypeOK, QueueOK, queue # <<>>, queue' = Tail(queue), mounted' = mounted,
         \A i \in 2 .. Len(queue) : Stays(i)
  PROVE  QueueOK'
<1> DEFINE q == Tail(queue)
<1>1. queue \in Seq(Commands) /\ Len(queue) \in Nat
  BY QueueType
<1>2. Len(q) = Len(queue) - 1 /\ \A i \in 1 .. Len(q) : q[i] = queue[i + 1]
  BY <1>1, TailIndex
<1> SUFFICES ASSUME NEW i \in 1 .. Len(q)
             PROVE  /\ q[i].what = "attach" =>
                         /\ asked'[q[i].view] = "yes" /\ link'[q[i].view] = "none"
                         /\ main'.view # q[i].view
                         /\ LastAttach(q, i, mounted)
                         /\ \A j \in 1 .. Len(q) : q[j] = q[i] => j = i
                    /\ q[i].what = "detach" =>
                         asked'[q[i].view] = "attached" /\ mounted # q[i].view
  BY DEF QueueOK, LastAttach
<1> HIDE DEF q
<1>3. i + 1 \in 2 .. Len(queue) /\ i + 1 \in 1 .. Len(queue) /\ q[i] = queue[i + 1]
  BY <1>1, <1>2
<1>4. LastAttach(queue, i + 1, mounted) => LastAttach(q, i, mounted)
  <2> SUFFICES ASSUME NEW j \in i + 1 .. Len(queue), queue[j] = Command("attach", mounted)
               PROVE  \E k \in i .. Len(q) : q[k] = Command("attach", mounted)
    BY DEF LastAttach
  <2>1. j - 1 \in i .. Len(q) /\ j - 1 \in 1 .. Len(q) /\ q[j - 1] = queue[j]
    BY <1>1, <1>2
  <2> QED
    BY <2>1
<1>5. \A j \in 1 .. Len(q) : j + 1 \in 1 .. Len(queue) /\ q[j] = queue[j + 1]
  BY <1>1, <1>2
<1>6. q[i].what = "attach" => \A j \in 1 .. Len(q) : q[j] = q[i] => j = i
  <2> SUFFICES ASSUME q[i].what = "attach", NEW j \in 1 .. Len(q), q[j] = q[i] PROVE j = i
    OBVIOUS
  <2>1. j + 1 = i + 1
    BY <1>3, <1>5 DEF QueueOK
  <2> QED
    BY <2>1, <1>2, <1>1
<1> QED
  BY <1>3, <1>4, <1>6 DEF QueueOK, Stays

LEMMA QueueGrown ==
  ASSUME TypeOK, QueueOK, NEW v \in View, NEW what \in {"attach", "detach"},
         queue' = Append(queue, Command(what, v)),
         \A i \in 1 .. Len(queue) : Stays(i) /\ (queue[i].what = "detach" => mounted' # queue[i].view),
         what = "attach" => /\ asked[v] # "yes" /\ asked'[v] = "yes" /\ link'[v] = "none"
                            /\ main'.view # v /\ mounted' = v,
         what = "detach" => /\ asked'[v] = "attached" /\ mounted' # v
                            /\ mounted' \in {mounted, "none"}
  PROVE  QueueOK'
<1> DEFINE q == Append(queue, Command(what, v))
           n == Len(queue) + 1
<1>1. queue \in Seq(Commands) /\ Len(queue) \in Nat /\ Command(what, v) \in Commands
  BY QueueType DEF Command, Commands
<1>2. Len(q) = n /\ q[n] = Command(what, v) /\ \A i \in 1 .. Len(queue) : q[i] = queue[i]
  BY <1>1, AppendIndex
<1> SUFFICES ASSUME NEW i \in 1 .. Len(q)
             PROVE  /\ q[i].what = "attach" =>
                         /\ asked'[q[i].view] = "yes" /\ link'[q[i].view] = "none"
                         /\ main'.view # q[i].view
                         /\ LastAttach(q, i, mounted')
                         /\ \A j \in 1 .. Len(q) : q[j] = q[i] => j = i
                    /\ q[i].what = "detach" =>
                         asked'[q[i].view] = "attached" /\ mounted' # q[i].view
  BY DEF QueueOK, LastAttach
<1> HIDE DEF q
<1>3. /\ Command(what, v).what = what /\ Command(what, v).view = v
      /\ i \in 1 .. Len(queue) \/ i = n
      /\ n \in i .. Len(q)
  BY <1>1, <1>2 DEF Command
<1>4. \A j \in 1 .. Len(q) : j \in 1 .. Len(queue) \/ j = n
  BY <1>1, <1>2
<1>5. LastAttach(q, i, mounted') \/ q[i].what # "attach"
  <2>1. CASE what = "attach"
    BY <2>1, <1>2, <1>3 DEF LastAttach
  <2>2. CASE what = "detach" /\ i \in 1 .. Len(queue)
    <3>1. \A j \in i .. Len(queue) : j \in i .. Len(q) /\ q[j] = queue[j]
      BY <1>1, <1>2, <2>2
    <3> QED
      BY <3>1, <2>2, <1>2 DEF QueueOK, LastAttach
  <2>3. CASE what = "detach" /\ i = n
    BY <2>3, <1>2, <1>3
  <2> QED
    BY <2>1, <2>2, <2>3, <1>3
<1>6. \A j \in 1 .. Len(queue) : queue[j].what = "attach" => queue[j] # Command("attach", v) \/ what = "detach"
  BY <1>1 DEF QueueOK, Command
<1>7. q[i].what = "attach" => \A j \in 1 .. Len(q) : q[j] = q[i] => j = i
  <2> SUFFICES ASSUME q[i].what = "attach", NEW j \in 1 .. Len(q), q[j] = q[i] PROVE j = i
    OBVIOUS
  <2>1. CASE i = n
    BY <2>1, <1>2, <1>3, <1>4, <1>6
  <2>2. CASE i \in 1 .. Len(queue) /\ j = n
    BY <2>2, <1>2, <1>3, <1>4, <1>6
  <2>3. CASE i \in 1 .. Len(queue) /\ j \in 1 .. Len(queue)
    BY <2>3, <1>2 DEF QueueOK
  <2> QED
    BY <2>1, <2>2, <2>3, <1>3, <1>4
<1> QED
  BY <1>2, <1>3, <1>5, <1>7 DEF QueueOK, Stays
-----------------------------------------------------------------------------
(* The steps *)

LEMMA InitInv == Init => IInv
<1> SUFFICES ASSUME Init PROVE IInv
  OBVIOUS
<1>1. TypeOK
  BY ViewsAssumption DEF Init, TypeOK, Resting
<1>2. queue = <<>>
  BY DEF Init
<1>3. QueueOK
  BY <1>2 DEF QueueOK
<1> QED
  BY <1>1, <1>3, ViewsAssumption
     DEF Init, IInv, MainOK, PaneOK, ViewOK, OrderOK, NotCutOff, Resting, Fresh, Tokened

\* The daemon's end: connections go on, and none begins.
LEMMA DaemonInv ==
  ASSUME IInv, UNCHANGED <<appVars, left>>, TypeOK',
         \A v \in View : /\ link[v] = "none" <=> link'[v] = "none"
                         /\ link[v] = "down" => link'[v] = "down"
                         /\ link[v] = "refused" => link'[v] = "refused"
  PROVE  IInv'
<1> USE DEF IInv, appVars
<1>1. MainOK' /\ PaneOK' /\ NotCutOff'
  BY DEF MainOK, PaneOK, NotCutOff, TypeOK
<1>2. \A v \in View : ViewOK(v)'
  BY DEF ViewOK, Holds
<1>3. QueueOK'
  <2>1. \A i \in 1 .. Len(queue) : Stays(i)
    BY QueueType DEF QueueOK, Stays, Commands
  <2> QED
    BY <2>1, QueueKept
<1>4. OrderOK'
  BY DEF OrderOK, LastAttach
<1> QED
  BY <1>1, <1>2, <1>3, <1>4

LEMMA DaemonSteps ==
  ASSUME IInv, Unregister \/ CloseAll \/ Die \/ \E v \in View : LinkStep(v) \/ Overflow(v)
  PROVE  IInv'
<1>0. TypeOK
  BY DEF IInv
<1>1. CASE Unregister \/ CloseAll
  <2>1. TypeOK'
    BY <1>0, <1>1 DEF Unregister, CloseAll, TypeOK, appVars
  <2> QED
    BY <1>1, <2>1, DaemonInv DEF Unregister, CloseAll
<1>2. CASE Die
  <2>1. link' \in [View -> {"none", "dialled", "found", "refused", "listening", "fed", "down"}]
    BY <1>0, <1>2 DEF Die, TypeOK
  <2>2. TypeOK'
    BY <1>0, <1>2, <2>1 DEF Die, TypeOK, appVars
  <2> QED
    BY <1>0, <1>2, <2>2, DaemonInv DEF Die, TypeOK
<1>3. ASSUME NEW v \in View, LinkStep(v) \/ Overflow(v)
      PROVE  IInv'
  <2>1. TypeOK'
    BY <1>0, <1>3 DEF LinkStep, Overflow, Find, Listen, Acknowledge, ShutDown, LinkGoes, TypeOK,
                      appVars
  <2>2. UNCHANGED <<appVars, left>>
    BY <1>3 DEF LinkStep, Overflow, Find, Listen, Acknowledge, ShutDown, LinkGoes
  <2>3. \A w \in View : /\ link[w] = "none" <=> link'[w] = "none"
                        /\ link[w] = "down" => link'[w] = "down"
                        /\ link[w] = "refused" => link'[w] = "refused"
    BY <1>0, <1>3 DEF LinkStep, Overflow, Find, Listen, Acknowledge, ShutDown, LinkGoes, TypeOK
  <2> QED
    BY <2>1, <2>2, <2>3, DaemonInv
<1> QED
  BY <1>1, <1>2, <1>3

LEMMA MountInv ==
  ASSUME IInv, NEW v \in View, Mount(v)
  PROVE  IInv'
<1> USE DEF IInv
<1>0. TypeOK /\ Command("attach", v) \in Commands
  BY DEF Command, Commands
<1>1. TypeOK'
  BY <1>0, QueueType, AppendIndex DEF Mount, TypeOK, Commands, daemonVars
<1>2. QueueOK'
  <2>1. \A i \in 1 .. Len(queue) : Stays(i) /\ (queue[i].what = "detach" => mounted' # queue[i].view)
    BY <1>0, QueueType DEF Mount, QueueOK, Stays, Commands, TypeOK, daemonVars
  <2>2. main'.view # v
    BY <1>0, ViewsAssumption DEF Mount, MainOK, TypeOK
  <2>3. asked[v] # "yes" /\ asked'[v] = "yes" /\ link'[v] = "none" /\ mounted' = v
    BY <1>0 DEF Mount, ViewOK, TypeOK, daemonVars
  <2> QED
    BY <1>0, <2>1, <2>2, <2>3, QueueGrown DEF Mount
<1>3. OrderOK'
  <2>1. Len(queue') \in Nat \ {0} /\ queue'[Len(queue')] = Command("attach", mounted')
    BY <1>0, QueueType, AppendIndex DEF Mount
  <2> QED
    BY <2>1 DEF OrderOK, LastAttach
<1>4. MainOK' /\ PaneOK'
  BY <1>0, ViewsAssumption DEF Mount, MainOK, PaneOK, Resting, Tokened, TypeOK, daemonVars
<1>5. \A w \in View : ViewOK(w)'
  BY <1>0 DEF Mount, ViewOK, Holds, Fresh, Tokened, TypeOK, daemonVars
<1>6. NotCutOff'
  BY <1>0 DEF Mount, NotCutOff, TypeOK
<1> QED
  BY <1>1, <1>2, <1>3, <1>4, <1>5, <1>6

LEMMA UnmountInv ==
  ASSUME IInv, Unmount
  PROVE  IInv'
<1> USE DEF IInv
<1>0. TypeOK /\ mounted \in View /\ mounted' = "none" /\ Command("detach", mounted) \in Commands
  BY DEF Unmount, TypeOK, Command, Commands
<1>1. TypeOK'
  BY <1>0, QueueType, AppendIndex DEF Unmount, TypeOK, Commands, daemonVars
<1>2. QueueOK'
  <2>1. \A i \in 1 .. Len(queue) : Stays(i) /\ (queue[i].what = "detach" => mounted' # queue[i].view)
    BY <1>0, QueueType, ViewsAssumption DEF Unmount, QueueOK, Stays, Commands, daemonVars
  <2>2. CASE asked[mounted] = "attached"
    BY <1>0, <2>1, <2>2, QueueGrown, ViewsAssumption DEF Unmount
  <2>3. CASE asked[mounted] # "attached"
    BY <1>0, <2>1, <2>3, QueueKept DEF Unmount
  <2> QED
    BY <2>2, <2>3
<1>3. OrderOK'
  BY <1>0 DEF OrderOK, LastAttach
<1>4. MainOK' /\ PaneOK'
  BY <1>0, ViewsAssumption DEF Unmount, MainOK, PaneOK, daemonVars
<1>5. \A w \in View : ViewOK(w)'
  BY <1>0, ViewsAssumption DEF Unmount, ViewOK, Holds, daemonVars
<1>6. NotCutOff'
  BY <1>0, ViewsAssumption DEF NotCutOff
<1> QED
  BY <1>1, <1>2, <1>3, <1>4, <1>5, <1>6

LEMMA AnswerInv ==
  ASSUME IInv, NEW v \in View, ViewStep(v)
  PROVE  IInv'
<1> USE DEF IInv
<1>0. TypeOK /\ Command("detach", v) \in Commands
  BY DEF Command, Commands
<1>1. TypeOK'
  <2>1. queue' \in Seq(Commands)
    BY <1>0, QueueType, AppendIndex DEF ViewStep, Answered, Failed, LetsGo
  <2>2. asked' \in [View -> {"no", "yes", "token", "attached", "error", "failed"}]
    BY <1>0 DEF ViewStep, Answered, Failed, TypeOK
  <2> QED
    BY <1>0, <2>1, <2>2 DEF ViewStep, Answered, Failed, TypeOK, Commands, daemonVars
<1>2. QueueOK'
  <2>1. \A i \in 1 .. Len(queue) : Stays(i) /\ (queue[i].what = "detach" => mounted' # queue[i].view)
    BY <1>0, QueueType DEF ViewStep, Answered, Failed, QueueOK, Stays, Commands, TypeOK, daemonVars
  <2>2. CASE Answered(v) /\ mounted # v
    BY <1>0, <2>1, <2>2, QueueGrown DEF Answered, LetsGo, TypeOK
  <2>3. CASE Failed(v) \/ mounted = v
    BY <1>0, <2>1, <2>3, QueueKept DEF ViewStep, Answered, LetsGo, Failed
  <2> QED
    BY <2>2, <2>3 DEF ViewStep
<1>3. OrderOK'
  <2>1. CASE queue' = queue
    BY <2>1 DEF ViewStep, Answered, Failed, OrderOK, LastAttach
  <2>2. CASE queue' = Append(queue, Command("detach", v))
    <3>1. \A j \in 1 .. Len(queue) : j \in 1 .. Len(queue') /\ queue'[j] = queue[j]
      BY <1>0, <2>2, QueueType, AppendIndex
    <3> QED
      BY <3>1 DEF ViewStep, Answered, Failed, OrderOK, LastAttach
  <2> QED
    BY <2>1, <2>2 DEF ViewStep, Answered, Failed, LetsGo
<1>4. MainOK' /\ PaneOK'
  BY <1>0, ViewsAssumption DEF ViewStep, Answered, Failed, MainOK, PaneOK, Tokened, TypeOK, daemonVars
<1>5. \A w \in View : ViewOK(w)'
  BY <1>0 DEF ViewStep, Answered, Failed, ViewOK, Holds, Fresh, Tokened, TypeOK, daemonVars
<1>6. NotCutOff'
  BY <1>0 DEF ViewStep, Answered, Failed, NotCutOff, TypeOK
<1> QED
  BY <1>1, <1>2, <1>3, <1>4, <1>5, <1>6

LEMMA ReaderInv ==
  ASSUME IInv, NEW v \in View, ReaderStep(v)
  PROVE  IInv'
<1> USE DEF IInv
<1>0. TypeOK
  OBVIOUS
<1>1. TypeOK'
  BY <1>0 DEF ReaderStep, ReaderEnds, Reports, Forgets, Hears, TypeOK, daemonVars, PaneOK
<1>2. QueueOK'
  <2>1. \A i \in 1 .. Len(queue) : Stays(i)
    BY <1>0, QueueType DEF ReaderStep, ReaderEnds, Reports, QueueOK, Stays, Commands, daemonVars
  <2> QED
    BY <1>0, <2>1, QueueKept DEF ReaderStep, ReaderEnds, Reports
<1>3. OrderOK'
  BY DEF ReaderStep, ReaderEnds, Reports, OrderOK, LastAttach
<1>4. MainOK' /\ PaneOK'
  BY <1>0, ViewsAssumption DEF ReaderStep, ReaderEnds, Reports, Forgets, MainOK, PaneOK, daemonVars, TypeOK
<1>5. \A w \in View : ViewOK(w)'
  BY <1>0, ViewsAssumption
     DEF ReaderStep, ReaderEnds, Reports, Forgets, ViewOK, Holds, PaneOK, Tokened, TypeOK, daemonVars
<1>6. NotCutOff'
  BY <1>0 DEF ReaderStep, ReaderEnds, Reports, Forgets, NotCutOff, TypeOK
<1> QED
  BY <1>1, <1>2, <1>3, <1>4, <1>5, <1>6

LEMMA DetachInv ==
  ASSUME IInv, DetachBegins
  PROVE  IInv'
<1> USE DEF IInv
<1> DEFINE w == queue[1].view
<1>0. /\ TypeOK /\ main = Resting /\ queue # <<>> /\ queue' = Tail(queue) /\ w \in View
      /\ queue[1].what = "detach" /\ asked[w] = "attached" /\ mounted # w /\ Len(queue) \in Nat \ {0}
      /\ Head(queue) = queue[1]
  <2>1. queue \in Seq(Commands) /\ queue # <<>>
    BY QueueType DEF DetachBegins, Comes
  <2>2. Head(queue) = queue[1] /\ queue[1] \in Commands /\ Len(queue) \in Nat \ {0}
    BY <2>1, TailIndex
  <2>3. 1 \in 1 .. Len(queue) /\ queue[1].what = "detach"
    BY <2>2 DEF DetachBegins, Comes
  <2> QED
    BY <2>1, <2>2, <2>3 DEF DetachBegins, Comes, QueueOK, Commands
<1>1. \/ pane = w /\ pane' = "none" /\ main' = [at |-> "release", view |-> "none", old |-> pane]
      \/ pane # w /\ UNCHANGED <<main, pane>>
  BY <1>0 DEF DetachBegins, TokenFits
<1>2. UNCHANGED <<daemonVars, left, mounted, asked, released, reader, told, timeouts>>
  BY DEF DetachBegins
<1> HIDE DEF w
<1>3. TypeOK'
  <2>1. queue' \in Seq(Commands)
    BY <1>0, QueueType, TailIndex
  <2>2. main' \in [at : {"idle", "release", "shut", "hello"}, view : View \cup {"none"},
                   old : View \cup {"none"}]
    BY <1>0, <1>1 DEF TypeOK
  <2> QED
    BY <1>0, <1>1, <1>2, <2>1, <2>2 DEF TypeOK, Commands, daemonVars
<1>4. QueueOK'
  <2>1. \A i \in 2 .. Len(queue) : Stays(i)
    BY <1>0, <1>1, <1>2, QueueType, ViewsAssumption DEF QueueOK, Stays, Commands, daemonVars, Resting
  <2> QED
    BY <1>0, <1>2, <2>1, QueueTaken
<1>5. OrderOK'
  BY <1>0, <1>1 DEF OrderOK, Resting
<1>6. MainOK' /\ PaneOK'
  BY <1>0, <1>1, <1>2, ViewsAssumption DEF MainOK, PaneOK, Resting, Tokened, daemonVars
<1>7. \A v \in View : ViewOK(v)'
  BY <1>0, <1>1, <1>2, ViewsAssumption DEF ViewOK, Holds, Resting, daemonVars
<1>8. NotCutOff'
  BY <1>0, <1>1, <1>2 DEF NotCutOff, daemonVars
<1> QED
  BY <1>3, <1>4, <1>5, <1>6, <1>7, <1>8

LEMMA AttachInv ==
  ASSUME IInv, AttachBegins
  PROVE  IInv'
<1> USE DEF IInv
<1> DEFINE w == queue[1].view
<1>0. /\ TypeOK /\ main = Resting /\ queue # <<>> /\ queue' = Tail(queue) /\ w \in View
      /\ queue[1].what = "attach" /\ asked[w] = "yes" /\ link[w] = "none"
      /\ LastAttach(queue, 1, mounted) /\ Len(queue) \in Nat \ {0} /\ Head(queue) = queue[1]
      /\ \A j \in 2 .. Len(queue) : queue[j] # queue[1]
      /\ queue[1] = Command("attach", w)
  <2>1. queue \in Seq(Commands) /\ queue # <<>>
    BY QueueType DEF AttachBegins, Comes
  <2>2. Head(queue) = queue[1] /\ queue[1] \in Commands /\ Len(queue) \in Nat \ {0}
    BY <2>1, TailIndex
  <2>3. 1 \in 1 .. Len(queue) /\ queue[1].what = "attach"
    BY <2>2 DEF AttachBegins, Comes
  <2> QED
    BY <2>1, <2>2, <2>3 DEF AttachBegins, Comes, QueueOK, Commands, Command
<1>1. /\ pane' = "none"
      /\ \/ pane = "none" /\ main' = [at |-> "hello", view |-> w, old |-> "none"] /\ Dial(w)
         \/ pane # "none" /\ main' = [at |-> "release", view |-> w, old |-> pane] /\ link' = link
  BY <1>0 DEF AttachBegins, Replaced
<1>2. UNCHANGED <<session, cut, left, mounted, asked, released, reader, told, timeouts>>
  BY DEF AttachBegins
<1>3. mounted \notin {"none", w} => /\ LastAttach(queue', 1, mounted)
                                    /\ asked[mounted] = "yes"
  <2> SUFFICES ASSUME mounted \notin {"none", w}
               PROVE  LastAttach(queue', 1, mounted) /\ asked[mounted] = "yes"
    OBVIOUS
  <2>1. PICK j \in 1 .. Len(queue) : queue[j] = Command("attach", mounted)
    BY <1>0 DEF LastAttach
  <2>2. j # 1
    BY <1>0, <2>1 DEF Command
  <2>3. j - 1 \in 1 .. Len(queue') /\ queue'[j - 1] = queue[j]
    BY <1>0, <2>1, <2>2, QueueType, TailIndex
  <2> QED
    BY <2>1, <2>3 DEF LastAttach, QueueOK, Command
<1> HIDE DEF w
<1>4. \A v \in View : /\ v # w => link'[v] = link[v]
                      /\ pane = "none" => link'[w] \in {"dialled", "refused"}
                      /\ pane # "none" => link'[w] = "none"
  BY <1>0, <1>1 DEF Dial, TypeOK
<1>5. TypeOK'
  <2>1. queue' \in Seq(Commands)
    BY <1>0, QueueType, TailIndex
  <2>2. main' \in [at : {"idle", "release", "shut", "hello"}, view : View \cup {"none"},
                   old : View \cup {"none"}]
    BY <1>0, <1>1 DEF TypeOK
  <2>3. link' \in [View -> {"none", "dialled", "found", "refused", "listening", "fed", "down"}]
    BY <1>0, <1>1 DEF TypeOK, Dial
  <2> QED
    BY <1>0, <1>1, <1>2, <2>1, <2>2, <2>3 DEF TypeOK, Commands
<1>6. QueueOK'
  <2>1. \A i \in 2 .. Len(queue) : i \in 1 .. Len(queue) /\ queue[i] \in Commands
    BY <1>0, QueueType
  <2>2. \A i \in 2 .. Len(queue) : queue[i].what = "attach" => queue[i].view # w
    BY <1>0, <2>1 DEF Commands, Command
  <2>3. \A i \in 2 .. Len(queue) : Stays(i)
    BY <1>1, <1>2, <1>4, <2>1, <2>2, ViewsAssumption DEF QueueOK, Stays, Commands
  <2> QED
    BY <1>0, <1>2, <2>3, QueueTaken
<1>7. OrderOK'
  BY <1>1, <1>2, <1>3 DEF OrderOK, LastAttach
<1>8. MainOK' /\ PaneOK'
  <2>1. pane # "none" => pane \in View /\ asked[pane] \in Tokened /\ mounted # pane
    BY <1>0, <1>3, ViewsAssumption DEF PaneOK, Tokened, TypeOK
  <2> QED
    BY <1>0, <1>1, <1>2, <1>4, <2>1, ViewsAssumption DEF MainOK, PaneOK, Tokened
<1>9. \A v \in View : ViewOK(v)'
  BY <1>0, <1>1, <1>2, <1>4, ViewsAssumption DEF ViewOK, Holds, Resting, Tokened
<1>10. NotCutOff'
  BY <1>0, <1>2, <1>3, ViewsAssumption DEF NotCutOff
<1> QED
  BY <1>5, <1>6, <1>7, <1>8, <1>9, <1>10

LEMMA ReleaseInv ==
  ASSUME IInv, Release
  PROVE  IInv'
<1> USE DEF IInv
<1>0. /\ TypeOK /\ main.old \in View /\ mounted # main.old /\ asked[main.old] \in Tokened
      /\ pane = "none"
  BY DEF Release, MainOK
<1>1. UNCHANGED <<session, cut, mounted, asked, queue, pane, reader, told, timeouts>>
  BY DEF Release
<1>2. \/ /\ main.at = "release" /\ released' = released \cup {main.old} /\ UNCHANGED <<left, link>>
         /\ main' = [at |-> "shut", view |-> main.view, old |-> main.old]
      \/ /\ main.at = "shut" /\ main.view = "none" /\ UNCHANGED <<released, link>>
         /\ left' = left \cup {main.old} /\ main' = Resting
      \/ /\ main.at = "shut" /\ main.view # "none" /\ UNCHANGED released
         /\ left' = left \cup {main.old} /\ Dial(main.view)
         /\ main' = [at |-> "hello", view |-> main.view, old |-> "none"]
  <2>1. main \in [at : {"idle", "release", "shut", "hello"}, view : View \cup {"none"},
                 old : View \cup {"none"}]
    BY <1>0 DEF TypeOK
  <2>2. [main EXCEPT !.at = "shut"] = [at |-> "shut", view |-> main.view, old |-> main.old]
    BY <2>1
  <2>3. CASE main.at = "release"
    BY <2>2, <2>3 DEF Release, FlagStep
  <2>4. CASE main.at = "shut"
    BY <2>2, <2>4 DEF Release, FlagStep
  <2> QED
    BY <2>3, <2>4 DEF Release
<1>3. main.view # "none" => /\ main.view \in View /\ asked[main.view] = "yes"
                            /\ link[main.view] = "none"
  BY <1>0 DEF Release, MainOK, TypeOK
<1> main.view \in View \cup {"none"} /\ link \in [View -> {"none", "dialled", "found", "refused", "listening", "fed", "down"}]
  BY <1>0 DEF TypeOK
<1>4. \A v \in View : /\ v # main.view => link'[v] = link[v]
                      /\ main'.view = v \/ main'.view = "none" \/ link'[v] = link[v]
                      /\ link'[v] # link[v] => main'.at = "hello" /\ main'.view = v
                                               /\ link'[v] \in {"dialled", "refused"}
  BY <1>2, <1>3 DEF Dial, Resting
<1>5. TypeOK'
  <2>1. main' \in [at : {"idle", "release", "shut", "hello"}, view : View \cup {"none"},
                   old : View \cup {"none"}]
    BY <1>0, <1>2, ViewsAssumption DEF Resting
  <2>2. link' \in [View -> {"none", "dialled", "found", "refused", "listening", "fed", "down"}]
    BY <1>2 DEF Dial
  <2> QED
    BY <1>0, <1>1, <1>2, <2>1, <2>2 DEF TypeOK
<1>6. main'.view \in {main.view, "none"}
  BY <1>2 DEF Resting
<1>7. QueueOK'
  <2>1. \A i \in 1 .. Len(queue) : Stays(i)
    BY <1>0, <1>1, <1>4, <1>6, QueueType, ViewsAssumption DEF QueueOK, Stays, Commands
  <2> QED
    BY <1>0, <1>1, <2>1, QueueKept
<1>8. OrderOK'
  BY <1>1, <1>6 DEF OrderOK, LastAttach
<1>9. MainOK' /\ PaneOK'
  <2>1. CASE main.at = "release"
    BY <1>0, <1>1, <1>2, <1>3, <2>1, ViewsAssumption DEF MainOK, PaneOK
  <2>2. CASE main.at = "shut"
    BY <1>0, <1>1, <1>2, <1>3, <2>2, ViewsAssumption DEF MainOK, PaneOK, Resting
  <2> QED
    BY <2>1, <2>2 DEF Release
<1>10. \A v \in View : ViewOK(v)'
  <2> SUFFICES ASSUME NEW v \in View PROVE ViewOK(v)'
    OBVIOUS
  <2>1. CASE main.at = "release"
    BY <1>0, <1>1, <1>2, <2>1 DEF ViewOK, Holds, Fresh, Tokened, TypeOK
  <2>2. CASE main.at = "shut"
    BY <1>0, <1>1, <1>2, <1>3, <1>4, <2>2
       DEF ViewOK, Holds, Fresh, Tokened, TypeOK, MainOK
  <2> QED
    BY <2>1, <2>2 DEF Release
<1>11. NotCutOff'
  BY <1>0, <1>1, <1>2 DEF NotCutOff
<1> QED
  BY <1>5, <1>7, <1>8, <1>9, <1>10, <1>11

LEMMA AttachedInv ==
  ASSUME IInv, NEW v \in View, AttachEnds(v) \/ Refused(v) \/ AckTimesOut(v)
  PROVE  IInv'
<1> USE DEF IInv
<1>0. /\ TypeOK /\ main.at = "hello" /\ main.view = v /\ asked[v] = "yes" /\ pane = "none"
      /\ main' = Resting /\ mounted' = mounted /\ queue' = queue
      /\ v \notin released \cup left /\ reader[v] = "none"
  BY ViewsAssumption DEF AttachEnds, Refused, AckTimesOut, AttachFails, At, MainOK, ViewOK, Fresh, Tokened
<1>a. \/ /\ pane' = v /\ reader' = [reader EXCEPT ![v] = "reads"] /\ left' = left
         /\ asked' = [asked EXCEPT ![v] = "token"] /\ link[v] \in {"fed", "down"}
         /\ timeouts' = timeouts
      \/ /\ pane' = pane /\ reader' = reader /\ left' = left \cup {v}
         /\ asked' = [asked EXCEPT ![v] = "error"]
         /\ timeouts' = timeouts \/ (timeouts < MaxTimeouts /\ timeouts' = timeouts + 1)
  <2>1. CASE AttachEnds(v)
    BY <2>1 DEF AttachEnds
  <2>2. CASE Refused(v)
    BY <2>2 DEF Refused, AttachFails
  <2>3. CASE AckTimesOut(v)
    BY <2>3 DEF AckTimesOut, AttachFails
  <2> QED
    BY <2>1, <2>2, <2>3
<1>b. UNCHANGED <<daemonVars, mounted, queue, released, told>>
  BY DEF AttachEnds, Refused, AckTimesOut, AttachFails
<1>1. \A w \in View : w # v => asked'[w] = asked[w]
  BY <1>0 DEF AttachEnds, Refused, AckTimesOut, AttachFails, TypeOK
<1>2. TypeOK'
  <2>1. asked' \in [View -> {"no", "yes", "token", "attached", "error", "failed"}]
    BY <1>0, <1>a DEF TypeOK
  <2>2. reader' \in [View -> {"none", "reads", "ended", "done"}] /\ (pane' # "none" => reader'[pane'] = "reads")
    BY <1>0, <1>a DEF TypeOK
  <2>3. timeouts' \in 0 .. MaxTimeouts
    BY <1>0, <1>a, ViewsAssumption DEF TypeOK
  <2>4. left' \subseteq View /\ pane' \in View \cup {"none"}
    BY <1>0, <1>a DEF TypeOK
  <2> QED
    BY <1>0, <1>b, <2>1, <2>2, <2>3, <2>4 DEF TypeOK, daemonVars, Resting
<1>3. QueueOK'
  <2>1. \A i \in 1 .. Len(queue) : Stays(i)
    BY <1>0, <1>1, QueueType, ViewsAssumption
       DEF AttachEnds, Refused, AckTimesOut, AttachFails, QueueOK, Stays, Commands, daemonVars, Resting
  <2> QED
    BY <1>0, <2>1, QueueKept
<1>4. OrderOK'
  BY <1>0 DEF OrderOK, Resting
<1>5. MainOK' /\ PaneOK'
  BY <1>0 DEF AttachEnds, Refused, AckTimesOut, AttachFails, MainOK, PaneOK, Resting, Tokened, TypeOK,
              daemonVars
<1>6. \A w \in View : ViewOK(w)'
  <2> SUFFICES ASSUME NEW w \in View PROVE ViewOK(w)'
    OBVIOUS
  <2>1. /\ reader'[v] \in {"none", "reads"} /\ asked'[v] \in {"token", "error"}
        /\ reader'[v] = "reads" <=> asked'[v] = "token"
        /\ \A u \in View : u # v => reader'[u] = reader[u]
    BY <1>0, <1>a DEF TypeOK
  <2>2. CASE w = v
    BY <1>0, <1>a, <1>b, <2>1, <2>2 DEF ViewOK, Holds, Resting, Fresh, Tokened, daemonVars
  <2>3. CASE w # v
    BY ViewsAssumption, <1>0, <1>1, <1>a, <1>b, <2>1, <2>3 DEF ViewOK, Holds, Resting, Fresh, Tokened, daemonVars
  <2> QED
    BY <2>2, <2>3
<1>7. NotCutOff'
  <2> SUFFICES ASSUME NEW w \in View, mounted = w, asked'[w] \in {"token", "attached"}
               PROVE  w \notin released /\ (pane' = w \/ reader'[w] = "done")
    BY <1>0, <1>b DEF NotCutOff
  <2>1. CASE w = v
    BY <1>0, <1>a, <2>1 DEF TypeOK
  <2>2. CASE w # v
    BY <1>0, <1>1, <1>a, <2>2, ViewsAssumption DEF NotCutOff, TypeOK
  <2> QED
    BY <2>1, <2>2
<1> QED
  BY <1>2, <1>3, <1>4, <1>5, <1>6, <1>7

LEMMA StutterInv == IInv /\ UNCHANGED vars => IInv'
<1> SUFFICES ASSUME IInv, UNCHANGED vars PROVE IInv'
  OBVIOUS
<1> QED
  BY DaemonInv DEF vars, appVars, daemonVars, IInv, TypeOK

LEMMA StepInv == IInv /\ [Next]_vars => IInv'
BY StutterInv, DaemonSteps, MountInv, UnmountInv, AnswerInv, ReaderInv, DetachInv, AttachInv,
   ReleaseInv, AttachedInv
   DEF Next, MainStep

-----------------------------------------------------------------------------
(* The theorems *)

LEMMA Always == Spec => []IInv
BY InitInv, StepInv, PTL DEF Spec

\* The app's state for one pane is well typed; in particular what it holds is an attachment
\* that is being read, or whose end is about to be reported (Terminals::attach, Pump::run).
THEOREM TypeCorrect == Spec => []TypeOK
BY Always, PTL DEF IInv

\* The daemon never feeds one pane through two connections, however views mount, unmount
\* and are answered, and whatever happens to the daemon.
THEOREM FedOnce == Spec => []OneFeed
<1>1. IInv => OneFeed
  <2> SUFFICES ASSUME IInv, NEW v \in View, NEW w \in View, Feeds(v), Feeds(w) PROVE v = w
    BY DEF OneFeed
  <2>1. Holds(v) /\ Holds(w)
    BY DEF IInv, Feeds, ViewOK
  <2> QED
    BY <2>1, ViewsAssumption DEF IInv, MainOK, Holds
<1> QED
  BY <1>1, Always, PTL

\* No late detach, and no late attach, takes the pane from the view on the screen.
THEOREM StaysAttached == Spec => []NotCutOff
BY Always, PTL DEF IInv

\* Only the daemon's closing of a connection is ever reported as an end.
THEOREM EndsAreEnds == Spec => []LetGoIsNotEnd
<1>1. IInv => LetGoIsNotEnd
  BY DEF IInv, ViewOK, LetGoIsNotEnd
<1> QED
  BY <1>1, Always, PTL

-----------------------------------------------------------------------------
(* Nothing streams into a view that is gone, and no view is forgotten *)

Waits(c) == \E k \in 1 .. Len(queue) : queue[k] = c

\* What still waits after the steps that change the queue.
LEMMA WaitsOn ==
  ASSUME TypeOK, NEW c \in Commands, Waits(c),
         \/ queue' = queue
         \/ \E d \in Commands : queue' = Append(queue, d)
         \/ queue # <<>> /\ queue' = Tail(queue) /\ Head(queue) # c
  PROVE  Waits(c)'
<1>1. queue \in Seq(Commands) /\ Len(queue) \in Nat
  BY QueueType
<1>2. PICK k \in 1 .. Len(queue) : queue[k] = c
  BY DEF Waits
<1>3. CASE queue' = queue
  BY <1>2, <1>3 DEF Waits
<1>4. ASSUME NEW d \in Commands, queue' = Append(queue, d) PROVE Waits(c)'
  <2>1. Len(queue') = Len(queue) + 1 /\ queue'[k] = c
    BY <1>1, <1>2, <1>4, AppendIndex
  <2>2. k \in 1 .. Len(queue')
    BY <1>1, <2>1
  <2> QED
    BY <2>1, <2>2 DEF Waits
<1>5. CASE queue # <<>> /\ queue' = Tail(queue) /\ Head(queue) # c
  <2>1. k # 1 /\ Len(queue') = Len(queue) - 1
    BY <1>1, <1>2, <1>5, TailIndex
  <2>2. k - 1 \in 1 .. Len(queue) - 1 /\ (k - 1) + 1 = k
    BY <1>1, <2>1
  <2>3. queue'[k - 1] = queue[(k - 1) + 1]
    BY <1>1, <1>5, <2>2, TailIndex
  <2> QED
    BY <1>2, <2>1, <2>2, <2>3 DEF Waits
<1> QED
  BY <1>3, <1>4, <1>5

LEMMA WaitsNew ==
  ASSUME TypeOK, NEW d \in Commands, queue' = Append(queue, d)
  PROVE  Waits(d)'
<1>1. queue \in Seq(Commands) /\ Len(queue) \in Nat
  BY QueueType
<1>2. Len(queue') = Len(queue) + 1 /\ queue'[Len(queue) + 1] = d
  BY <1>1, AppendIndex
<1>3. Len(queue) + 1 \in 1 .. Len(queue')
  BY <1>1, <1>2
<1> QED
  BY <1>2, <1>3 DEF Waits

LEMMA HeadTaken ==
  ASSUME TypeOK, NEW what, Comes(what)
  PROVE  /\ queue # <<>> /\ main = Resting
         /\ Head(queue) = Command(what, Head(queue).view) /\ Head(queue).view \in View
<1>1. queue \in Seq(Commands) /\ queue # <<>> /\ Head(queue).what = what /\ main = Resting
  BY QueueType DEF Comes
<1>2. Head(queue) \in Commands
  BY <1>1, TailIndex
<1> QED
  BY <1>1, <1>2 DEF Commands, Command

LEMMA CommandsDiffer ==
  /\ \A what \in {"attach", "detach"}, v \in View : Command(what, v) \in Commands
  /\ \A v, w : Command("attach", v) # Command("detach", w)
  /\ \A what, v, w : Command(what, v) = Command(what, w) => v = w
BY DEF Command, Commands

LEMMA Letting ==
  ASSUME NEW v \in View
  PROVE  LettingGo(v) <=> \/ main.at \in {"release", "shut"} /\ main.old = v
                          \/ v \in left \/ link[v] = "down"
                          \/ pane = v /\ (asked[v] = "token" \/ Waits(Command("detach", v)))
BY DEF LettingGo, Waits

LEMMA Hearing ==
  ASSUME NEW v \in View
  PROVE  WillHear(v) <=> \/ Waits(Command("attach", v)) \/ main.view = v \/ asked[v] = "error"
                         \/ reader[v] \in {"reads", "ended"} /\ v \notin released
BY DEF WillHear, Waits

Leaves(v)  == reader[v] = "reads" /\ mounted # v => LettingGo(v)
Expects(v) == mounted = v /\ v \notin told => WillHear(v)

\* Views come and go, and take their answers.
LEMMA ViewsCare ==
  ASSUME IInv, NEW v \in View, Leaves(v), Expects(v),
         Unmount \/ \E u \in View : Mount(u) \/ ViewStep(u)
  PROVE  Leaves(v)' /\ Expects(v)'
<1> DEFINE detach == Command("detach", v)
           attach == Command("attach", v)
<1>0. /\ TypeOK /\ NotCutOff /\ ViewOK(v) /\ detach \in Commands /\ attach \in Commands
      /\ UNCHANGED <<link, left, main, pane, released, reader>>
  BY CommandsDiffer DEF IInv, Unmount, Mount, ViewStep, Answered, Failed, daemonVars
<1>1. /\ queue' = queue \/ \E d \in Commands : queue' = Append(queue, d)
  BY <1>0, CommandsDiffer DEF Unmount, Mount, ViewStep, Answered, Failed, LetsGo, TypeOK
<1>2. /\ Waits(detach) => Waits(detach)'
      /\ Waits(attach) => Waits(attach)'
  BY <1>0, <1>1, WaitsOn
<1>3. /\ reader[v] = "reads" => asked[v] \in Tokened
      /\ asked[v] = "token" => asked'[v] = "token" \/ (Answered(v) /\ asked'[v] = "attached")
      /\ asked[v] = "error" => asked'[v] = "error" \/ Failed(v)
  BY <1>0 DEF ViewOK, Unmount, Mount, ViewStep, Answered, Failed, TypeOK
<1> HIDE DEF detach, attach
<1>4. Leaves(v)'
  <2> SUFFICES ASSUME reader[v] = "reads", mounted' # v PROVE LettingGo(v)'
    BY <1>0 DEF Leaves
  <2> SUFFICES ASSUME ~(main.at \in {"release", "shut"} /\ main.old = v), v \notin left, link[v] # "down"
               PROVE  pane = v /\ (asked'[v] = "token" \/ Waits(detach)')
    BY <1>0, Letting DEF detach, LettingGo, Waits
  <2>1. CASE mounted = v
    <3>1. Unmount
      BY <2>1, <1>0, ViewsAssumption DEF Unmount, Mount, ViewStep, Answered, Failed
    <3>2. pane = v /\ asked' = asked /\ asked[v] \in Tokened
      BY <1>0, <1>3, <2>1, <3>1 DEF NotCutOff, Unmount, Tokened
    <3>3. asked[v] = "attached" => queue' = Append(queue, detach)
      BY <2>1, <3>1 DEF Unmount, detach
    <3> QED
      BY <1>0, <3>2, <3>3, WaitsNew DEF Tokened
  <2>2. CASE mounted # v
    <3>1. pane = v /\ (asked[v] = "token" \/ Waits(detach))
      BY <2>2, Letting DEF Leaves, detach
    <3>2. CASE Answered(v)
      <4>1. queue' = Append(queue, detach)
        BY <2>2, <3>2 DEF Answered, LetsGo, detach
      <4> QED
        BY <1>0, <3>1, <4>1, WaitsNew
    <3> QED
      BY <1>2, <1>3, <3>1, <3>2
  <2> QED
    BY <2>1, <2>2
<1>5. Expects(v)'
  <2> SUFFICES ASSUME mounted' = v, v \notin told' PROVE WillHear(v)'
    BY DEF Expects
  <2>1. CASE mounted = v
    <3>1. v \notin told
      BY DEF Unmount, Mount, ViewStep, Answered, Failed
    <3>2. Waits(attach) \/ main.view = v \/ asked[v] = "error"
            \/ (reader[v] \in {"reads", "ended"} /\ v \notin released)
      BY <2>1, <3>1, Hearing DEF Expects, attach
    <3>3. ~Failed(v)
      BY <2>1 DEF Failed
    <3>4. Waits(attach)' \/ main'.view = v \/ asked'[v] = "error"
            \/ (reader'[v] \in {"reads", "ended"} /\ v \notin released')
      BY <1>0, <1>2, <1>3, <3>2, <3>3
    <3> QED
      BY <3>4 DEF attach, WillHear, Waits
  <2>2. CASE mounted # v
    <3>1. Mount(v)
      BY <2>2, ViewsAssumption DEF Unmount, Mount, ViewStep, Answered, Failed
    <3>2. Waits(attach)'
      BY <1>0, <3>1, WaitsNew DEF Mount, attach
    <3> QED
      BY <3>2 DEF attach, WillHear, Waits
  <2> QED
    BY <2>1, <2>2
<1> QED
  BY <1>4, <1>5

\* The main thread takes a command.
LEMMA TakingCares ==
  ASSUME IInv, NEW v \in View, Leaves(v), Expects(v), DetachBegins \/ AttachBegins
  PROVE  Leaves(v)' /\ Expects(v)'
<1> DEFINE detach == Command("detach", v)
           attach == Command("attach", v)
           w == Head(queue).view
           what == Head(queue).what
<1>0. /\ TypeOK /\ MainOK /\ ViewOK(v) /\ QueueOK
      /\ detach \in Commands /\ attach \in Commands /\ attach # detach
      /\ UNCHANGED <<left, mounted, asked, released, reader, told>> /\ queue' = Tail(queue)
  BY CommandsDiffer DEF IInv, DetachBegins, AttachBegins
<1>1. /\ queue # <<>> /\ main = Resting /\ w \in View
      /\ DetachBegins => Head(queue) = Command("detach", w)
      /\ AttachBegins => Head(queue) = Command("attach", w)
  BY <1>0, HeadTaken DEF DetachBegins, AttachBegins
<1>2. /\ Waits(detach) => Waits(detach)' \/ Head(queue) = detach
      /\ Waits(attach) => Waits(attach)' \/ Head(queue) = attach
  BY <1>0, <1>1, WaitsOn
<1>3. AttachBegins => asked[w] = "yes"
  <2>1. Head(queue) = queue[1] /\ 1 \in 1 .. Len(queue)
    BY <1>0, <1>1, QueueType, TailIndex
  <2>2. AttachBegins => queue[1].what = "attach" /\ queue[1].view = w
    BY <1>1, <2>1 DEF Command
  <2> QED
    BY <1>0, <2>1, <2>2 DEF QueueOK
<1>4. /\ DetachBegins => \/ pane = w /\ pane' = "none" /\ link' = link
                            /\ main' = [at |-> "release", view |-> "none", old |-> pane]
                         \/ pane # w /\ UNCHANGED <<main, pane, link>>
      /\ AttachBegins => /\ pane' = "none"
                         /\ \/ pane = "none" /\ main'.view = w /\ main'.old = "none"
                            \/ /\ pane # "none" /\ link' = link
                               /\ main' = [at |-> "release", view |-> w, old |-> pane]
                         /\ v # w => link'[v] = link[v]
  BY <1>0 DEF DetachBegins, AttachBegins, TokenFits, Replaced, Dial, daemonVars, TypeOK
<1>5. Command("detach", w) = detach => w = v
  BY CommandsDiffer DEF detach
<1>6. Command("attach", w) = attach => w = v
  BY CommandsDiffer DEF attach
<1>7. Command("attach", w) # detach /\ Command("detach", w) # attach
  BY CommandsDiffer DEF attach, detach
<1> HIDE DEF detach, attach, w
<1>8. Leaves(v)'
  <2> SUFFICES ASSUME reader[v] = "reads", mounted # v PROVE LettingGo(v)'
    BY <1>0 DEF Leaves
  <2>1. asked[v] \in Tokened
    BY <1>0 DEF ViewOK
  <2>2. v \in left \/ link[v] = "down" \/ (pane = v /\ (asked[v] = "token" \/ Waits(detach)))
    BY <1>1, Letting DEF Leaves, Resting, detach
  <2>3. v # w \/ DetachBegins
    BY <1>3, <2>1 DEF Tokened
  <2>4. link[v] = "down" => link'[v] = "down"
    BY <1>4, <2>3
  <2>5. pane = v => \/ main'.at = "release" /\ main'.old = v
                    \/ DetachBegins /\ pane # w /\ pane' = v
    BY <1>4, ViewsAssumption
  <2>6. Waits(detach) /\ DetachBegins /\ v # w => Waits(detach)'
    BY <1>1, <1>2, <1>5
  <2>7. \/ main'.at \in {"release", "shut"} /\ main'.old = v
        \/ v \in left' \/ link'[v] = "down"
        \/ pane' = v /\ (asked'[v] = "token" \/ Waits(detach)')
    BY <1>0, <2>2, <2>4, <2>5, <2>6
  <2> QED
    BY <2>7 DEF LettingGo, Waits, detach
<1>9. Expects(v)'
  <2> SUFFICES ASSUME mounted = v, v \notin told PROVE WillHear(v)'
    BY <1>0 DEF Expects
  <2>1. Waits(attach) \/ asked[v] = "error" \/ (reader[v] \in {"reads", "ended"} /\ v \notin released)
    BY <1>1, Hearing, ViewsAssumption DEF Expects, Resting, attach
  <2>2. Waits(attach) => Waits(attach)' \/ (AttachBegins /\ w = v)
    BY <1>1, <1>2, <1>6, <1>7
  <2>3. AttachBegins /\ w = v => main'.view = v
    BY <1>4
  <2>4. Waits(attach)' \/ main'.view = v \/ asked'[v] = "error"
          \/ (reader'[v] \in {"reads", "ended"} /\ v \notin released')
    BY <1>0, <2>1, <2>2, <2>3
  <2> QED
    BY <2>4 DEF WillHear, Waits, attach
<1> QED
  BY <1>8, <1>9

\* The main thread lets go of an attachment.
LEMMA ReleaseCares ==
  ASSUME IInv, NEW v \in View, Leaves(v), Expects(v), Release
  PROVE  Leaves(v)' /\ Expects(v)'
<1>0. /\ TypeOK /\ MainOK /\ ViewOK(v) /\ main.at \in {"release", "shut"} /\ mounted # main.old
      /\ UNCHANGED <<mounted, asked, queue, pane, reader, told>>
  BY DEF IInv, Release, MainOK
<1>1. /\ main.at = "release" => /\ main'.at = "shut" /\ main'.old = main.old /\ UNCHANGED <<left, link>>
                                /\ main'.view = main.view /\ released' = released \cup {main.old}
      /\ main.at = "shut" => left' = left \cup {main.old} /\ released' = released
      /\ main'.view = main.view
  BY <1>0 DEF Release, FlagStep, Resting, TypeOK
<1>2. reader[v] = "reads" => link'[v] = link[v]
  <2>1. reader[v] = "reads" => v # main.view
    BY <1>0, ViewsAssumption DEF ViewOK, MainOK, Tokened
  <2> QED
    BY <1>0, <2>1 DEF Release, Dial, TypeOK
<1>3. Leaves(v)'
  BY <1>0, <1>1, <1>2 DEF Leaves, LettingGo
<1>4. Expects(v)'
  BY <1>0, <1>1 DEF Expects, WillHear
<1> QED
  BY <1>3, <1>4

\* An attach is answered.
LEMMA AttachedCares ==
  ASSUME IInv, NEW v \in View, Leaves(v), Expects(v),
         NEW u \in View, AttachEnds(u) \/ Refused(u) \/ AckTimesOut(u)
  PROVE  Leaves(v)' /\ Expects(v)'
<1>0. /\ TypeOK /\ main.at = "hello" /\ main.view = u /\ asked[u] = "yes" /\ reader[u] = "none"
      /\ u \notin released /\ UNCHANGED <<link, mounted, queue, released, told>>
  BY ViewsAssumption DEF IInv, AttachEnds, Refused, AckTimesOut, AttachFails, At, MainOK, ViewOK, Fresh,
                         Tokened, daemonVars
<1>1. CASE AttachEnds(u)
  <2>1. /\ pane' = u /\ reader'[u] = "reads" /\ asked'[u] = "token" /\ left' = left /\ pane = "none"
        /\ v # u => reader'[v] = reader[v] /\ asked'[v] = asked[v]
    BY <1>0, <1>1 DEF AttachEnds, TypeOK, IInv, MainOK
  <2>2. CASE v = u
    BY <1>0, <2>1, <2>2 DEF Leaves, Expects, LettingGo, WillHear
  <2>3. CASE v # u
    BY <1>0, <2>1, <2>3, ViewsAssumption DEF Leaves, Expects, LettingGo, WillHear
  <2> QED
    BY <2>2, <2>3
<1>2. CASE Refused(u) \/ AckTimesOut(u)
  <2>1. /\ UNCHANGED <<pane, reader>> /\ left \subseteq left' /\ asked'[u] = "error"
        /\ v # u => asked'[v] = asked[v]
    BY <1>0, <1>2 DEF Refused, AckTimesOut, AttachFails, TypeOK
  <2>2. CASE v = u
    BY <1>0, <2>1, <2>2 DEF Leaves, Expects, LettingGo, WillHear
  <2>3. CASE v # u
    BY <1>0, <2>1, <2>3 DEF Leaves, Expects, LettingGo, WillHear
  <2> QED
    BY <2>2, <2>3
<1> QED
  BY <1>1, <1>2

\* A reader comes to the end of its stream, and reports it.
LEMMA ReaderCares ==
  ASSUME IInv, NEW v \in View, Leaves(v), Expects(v), NEW u \in View, ReaderStep(u)
  PROVE  Leaves(v)' /\ Expects(v)'
<1>0. /\ TypeOK /\ NotCutOff
      /\ UNCHANGED <<link, left, mounted, asked, queue, main, released>>
  BY DEF IInv, ReaderStep, ReaderEnds, Reports, daemonVars
<1>1. CASE ReaderEnds(u)
  <2>1. /\ UNCHANGED <<pane, told>> /\ reader'[v] = "reads" => reader[v] = "reads"
        /\ reader[v] \in {"reads", "ended"} /\ v \notin released => reader'[v] \in {"reads", "ended"}
    BY <1>0, <1>1 DEF ReaderEnds, TypeOK
  <2> QED
    BY <1>0, <1>1, <2>1 DEF ReaderEnds, Leaves, Expects, LettingGo, WillHear
<1>2. CASE Reports(u)
  <2>1. /\ reader[u] = "ended" /\ pane' = (IF pane = u THEN "none" ELSE pane)
        /\ mounted = v => v \in told'
        /\ reader'[v] = "reads" => reader[v] = "reads" /\ v # u
    BY <1>0, <1>2 DEF Reports, Forgets, Hears, TypeOK
  <2> QED
    BY <1>0, <2>1 DEF Leaves, Expects, LettingGo
<1> QED
  BY <1>1, <1>2 DEF ReaderStep

Cared == \A v \in View : Leaves(v) /\ Expects(v)

LEMMA StepCares == IInv /\ Cared /\ [Next]_vars => Cared'
<1> SUFFICES ASSUME IInv, Cared, [Next]_vars, NEW v \in View PROVE Leaves(v)' /\ Expects(v)'
  BY DEF Cared
<1>0. Leaves(v) /\ Expects(v) /\ TypeOK
  BY DEF Cared, IInv
<1>1. CASE \/ Unregister \/ CloseAll \/ Die \/ UNCHANGED vars
           \/ \E u \in View : LinkStep(u) \/ Overflow(u)
  <2>1. UNCHANGED <<appVars, left>> /\ (link[v] = "down" => link'[v] = "down")
    BY <1>0, <1>1 DEF Unregister, CloseAll, Die, LinkStep, Overflow, Find, Listen, Acknowledge, ShutDown,
                      LinkGoes, vars, daemonVars, TypeOK
  <2> QED
    BY <1>0, <2>1 DEF Leaves, Expects, LettingGo, WillHear, appVars
<1>2. CASE Unmount \/ \E u \in View : Mount(u) \/ ViewStep(u)
  BY <1>0, <1>2, ViewsCare
<1>3. CASE DetachBegins \/ AttachBegins
  BY <1>0, <1>3, TakingCares
<1>4. CASE Release
  BY <1>0, <1>4, ReleaseCares
<1>5. CASE \E u \in View : AttachEnds(u) \/ Refused(u) \/ AckTimesOut(u)
  BY <1>0, <1>5, AttachedCares
<1>6. CASE \E u \in View : ReaderStep(u)
  BY <1>0, <1>6, ReaderCares
<1>7. CASE Next
  <2>1. CASE MainStep
    BY <1>3, <1>4, <1>5, <2>1 DEF MainStep
  <2>2. CASE Unregister \/ CloseAll \/ Die \/ Unmount
    BY <1>1, <1>2, <2>2
  <2>3. ASSUME NEW u \in View,
               LinkStep(u) \/ Overflow(u) \/ Mount(u) \/ ViewStep(u) \/ ReaderStep(u) \/ AckTimesOut(u)
        PROVE  Leaves(v)' /\ Expects(v)'
    BY <1>1, <1>2, <1>5, <1>6, <2>3
  <2> QED
    BY <1>7, <2>1, <2>2, <2>3 DEF Next
<1>8. CASE UNCHANGED vars
  BY <1>1, <1>8
<1> QED
  BY <1>7, <1>8

LEMMA AlwaysCares == Spec => []Cared
<1>1. Init => Cared
  BY ViewsAssumption DEF Init, Cared, Leaves, Expects
<1> QED
  BY <1>1, StepCares, Always, PTL DEF Spec

\* However many views mount and leave before their attaches are answered, no attachment
\* is read for one that is gone without a detach, a newer attach or the end of its
\* connection about to end it (Terminals::detach, the late token of TerminalPanel.tsx); and
\* whatever races with its attach, the view on the screen has its attach before it, an error
\* on its way, or a reader that will report the end: it is never left waiting for an event
\* that has been sent already (Pump::run).
THEOREM AllSeenTo == Spec => []SeenTo
<1>1. Cared => OnItsWayOut
  BY DEF Cared, Leaves, OnItsWayOut
<1>2. Cared => NotForgotten
  BY DEF Cared, Expects, NotForgotten
<1> QED
  BY <1>1, <1>2, AlwaysCares, PTL DEF SeenTo
=============================================================================
