------------------------ MODULE ParallelTasksProofs ------------------------
(* Proofs about FrameThreads and ParallelTasks: the two critical sections   *)
(* hand the frame back and forth so that its work is done once, by one      *)
(* thread, before the next frame moves; and what the tasks of the renderer  *)
(* share with the drawing, the occlusion map and the grass, is used whole   *)
(* and current; and the removals of bullets that a task registers take away *)
(* the bullets that they are meant for.                                     *)
EXTENDS ParallelTasks, SequenceTheorems, WellFoundedInduction, TLAPS

-----------------------------------------------------------------------------
(* The inductive invariant of the hand-over.                                *)

\* Who owns a critical section is a matter of where the threads are.
Ownership ==
    /\ csEnter = "main" <=> pc["main"] \in
           {"message", "moved", "resuming", "suspended", "comparing", "tasks",
            "frameMT", "leaving"}
    /\ csEnter = "worker" <=> pc["worker"] \in
           {"inside", "tasks", "frameMT", "done", "exiting"}
    /\ csLeave = "main" <=>
           pc["main"] \in {"resuming", "drawing", "drawn", "suspended"}
    /\ csLeave = "worker" <=> pc["worker"] = "passing"

\* The marker is the frame's only after the secondary thread has begun the
\* frame's work; it cannot begin twice before mt_csLeave is free.
Marking ==
    /\ marker # Nobody => marker <= dwFrame
    /\ pc["main"] \in {"moved", "resuming"} => marker # dwFrame
    /\ pc["worker"] \in {"tasks", "frameMT", "done"} =>
           pc["main"] \in {"drawing", "drawn"} /\ marker = dwFrame
    /\ pc["main"] \in {"drawing", "drawn"} /\ marker = dwFrame =>
           pc["worker"] \in {"tasks", "frameMT", "done", "signalled"}

Ending ==
    /\ mustExit => pc["main"] \in {"leaving", "waiting"}
    /\ pc["main"] = "leaving" => mustExit
    /\ pc["main"] \in {"waiting", "returned"} /\ ~mustExit =>
           pc["worker"] \in {"exiting", "ended"}
    /\ pc["worker"] \in {"exiting", "ended"} =>
           pc["main"] \in {"waiting", "returned"} /\ ~mustExit

\* Where the tasks have been run and dropped.
Queue ==
    /\ pc["main"] \in {"message", "frameMT", "leaving", "waiting", "returned"} =>
           seqParallel = <<>>
    /\ pc["main"] \in {"drawing", "drawn", "suspended", "comparing"}
           /\ marker = dwFrame /\ pc["worker"] # "tasks" => seqParallel = <<>>
    /\ \A p \in Threads : pc[p] = "tasks" => pit[p] <= Len(seqParallel)

IInv == TypeOK /\ Ownership /\ Marking /\ Ending /\ Queue

LEMMA BatchFacts ==
    ASSUME NEW b \in Batches
    PROVE  b \in Seq(Tasks) /\ <<>> \o b = b /\ Len(b) \in Nat
BY BatchAssumption

LEMMA QueueIsSeq ==
    ASSUME TypeOK
    PROVE  seqParallel \in Seq(Tasks) /\ Len(seqParallel) \in Nat
BY BatchAssumption, EmptySeq, LenProperties DEF TypeOK

LEMMA InitIInv == Init => IInv
<1>. SUFFICES ASSUME Init PROVE IInv
  OBVIOUS
<1>1. /\ pc["main"] = "message" /\ pc["worker"] = "outside"
      /\ pc \in [Threads -> MainStates \cup WorkerStates]
  BY DEF Init, Threads, MainStates, WorkerStates
<1>2. TypeOK
  BY <1>1 DEF Init, TypeOK, Threads, MainStates, WorkerStates
<1>3. Ownership
  BY <1>1, NobodyAssumption DEF Init, Ownership
<1>4. Marking
  BY <1>1, NobodyAssumption DEF Init, Marking
<1>5. Ending
  BY <1>1 DEF Init, Ending
<1>6. Queue
  BY <1>1 DEF Init, Queue, Threads
<1>. QED  BY <1>2, <1>3, <1>4, <1>5, <1>6 DEF IInv

LEMMA WorkKeepsIInv ==
    ASSUME IInv, NEW p \in Threads, Work(p)
    PROVE  IInv'
<1>1. seqParallel \in Seq(Tasks) /\ Len(seqParallel) \in Nat
  BY QueueIsSeq DEF IInv
<1>2. CASE RunTask(p)
  BY <1>1, <1>2, NobodyAssumption
     DEF RunTask, AtTask, IInv, TypeOK, Ownership, Marking, Ending, Queue,
         Threads, MainStates, WorkerStates, sections, frameVars
<1>3. CASE ClearTasks(p)
  BY <1>1, <1>3, NobodyAssumption, Len(<<>>) = 0
     DEF ClearTasks, IInv, TypeOK, Ownership, Marking, Ending, Queue,
         Threads, MainStates, WorkerStates, sections, Goto
<1>4. CASE ProcessFrameMT(p)
  BY <1>4, NobodyAssumption
     DEF ProcessFrameMT, IInv, TypeOK, Ownership, Marking, Ending, Queue,
         Threads, MainStates, WorkerStates, sections, frameVars, Goto
<1>. QED  BY <1>2, <1>3, <1>4 DEF Work

LEMMA MainKeepsIInv ==
    ASSUME IInv, MainHandsOver \/ MainStops
    PROVE  IInv'
<1>1. seqParallel \in Seq(Tasks) /\ Len(seqParallel) \in Nat
  BY QueueIsSeq DEF IInv
<1>. USE NobodyAssumption
     DEF IInv, TypeOK, Ownership, Marking, Ending, Queue, Threads, MainStates,
         WorkerStates, sections, frameVars, Goto
<1>2. CASE CaptureEnd
  BY <1>2 DEF CaptureEnd
<1>3. CASE ReleaseStart
  BY <1>3 DEF ReleaseStart
<1>4. CASE EndDrawing
  BY <1>4 DEF EndDrawing
<1>5. CASE CaptureStart
  BY <1>5 DEF CaptureStart
<1>6. CASE ReleaseEnd
  BY <1>6 DEF ReleaseEnd
<1>7. CASE Compare
  BY <1>1, <1>7 DEF Compare
<1>8. CASE Quit
  BY <1>8 DEF Quit
<1>9. CASE ReleaseStartForEver
  BY <1>9 DEF ReleaseStartForEver
<1>10. CASE Return
  BY <1>10 DEF Return
<1>. QED
  BY <1>2, <1>3, <1>4, <1>5, <1>6, <1>7, <1>8, <1>9, <1>10
     DEF MainHandsOver, MainStops

LEMMA WorkerKeepsIInv ==
    ASSUME IInv, WorkerHandsOver \/ WorkerStops
    PROVE  IInv'
<1>1. seqParallel \in Seq(Tasks) /\ Len(seqParallel) \in Nat
  BY QueueIsSeq DEF IInv
<1>. USE NobodyAssumption
     DEF IInv, TypeOK, Ownership, Marking, Ending, Queue, Threads, MainStates,
         WorkerStates, sections, frameVars, Goto
<1>2. CASE Enter
  BY <1>2 DEF Enter
<1>3. CASE Begin
  BY <1>1, <1>3 DEF Begin
<1>4. CASE Signal
  BY <1>4 DEF Signal
<1>5. CASE Await
  BY <1>5 DEF Await
<1>6. CASE Pass
  BY <1>6 DEF Pass
<1>7. CASE Acknowledge
  BY <1>7 DEF Acknowledge
<1>8. CASE Exit
  BY <1>8 DEF Exit
<1>. QED
  BY <1>2, <1>3, <1>4, <1>5, <1>6, <1>7, <1>8 DEF WorkerHandsOver, WorkerStops

LEMMA FrameKeepsIInv ==
    ASSUME IInv,
           Load \/ \E batch \in Batches : FrameMove(batch)
    PROVE  IInv'
<1>. USE NobodyAssumption
     DEF IInv, TypeOK, Ownership, Marking, Ending, Queue, Threads, MainStates,
         WorkerStates, sections, frameVars, Goto
<1>1. CASE Load
  BY <1>1 DEF Load
<1>2. ASSUME NEW batch \in Batches, FrameMove(batch)
      PROVE  IInv'
  <2>1. seqParallel' = batch
    BY <1>2, BatchFacts DEF FrameMove
  <2>. QED  BY <1>2, <2>1, BatchFacts DEF FrameMove
<1>. QED  BY <1>1, <1>2

LEMMA NextKeepsIInv == IInv /\ [FrameNext]_threadVars => IInv'
<1>. SUFFICES ASSUME IInv, [FrameNext]_threadVars PROVE IInv'
  OBVIOUS
<1>1. CASE UNCHANGED threadVars
  BY <1>1 DEF threadVars, sections, frameVars, IInv, TypeOK, Ownership, Marking,
         Ending, Queue
<1>2. CASE Stopped
  BY <1>1, <1>2 DEF Stopped
<1>. QED
  BY <1>1, <1>2, WorkKeepsIInv, MainKeepsIInv, WorkerKeepsIInv, FrameKeepsIInv
     DEF FrameNext

\* The hand-over keeps the invariant above: who owns which critical section,
\* whom the marker lets work, and where the queue is empty (device.cpp).
THEOREM FrameThreadsInvariant == FrameSpec => []IInv
<1>1. Init => IInv
  BY InitIInv
<1>2. IInv /\ [FrameNext]_threadVars => IInv'
  BY NextKeepsIInv
<1>. QED  BY <1>1, <1>2, PTL DEF FrameSpec

-----------------------------------------------------------------------------
(* FrameThreads implements FrameWork.                                       *)

LEMMA RestOfTasks ==
    ASSUME NEW s \in Seq(Tasks), NEW k \in Nat, k < Len(s)
    PROVE  Tail(Append(SubSeq(s, k + 1, Len(s)), FrameMT))
               = Append(SubSeq(s, k + 2, Len(s)), FrameMT)
<1>. DEFINE n == Len(s)
            T == Tasks \cup {FrameMT}
            long == SubSeq(s, k + 1, n)
            short == SubSeq(s, k + 2, n)
            a == Append(long, FrameMT)
            b == Append(short, FrameMT)
<1>1. n \in Nat /\ \A i \in 1..n : s[i] \in T
  BY LenProperties, ElementOfSeq
<1>2. long \in Seq(T) /\ Len(long) = n - k
      /\ \A i \in 1..(n - k) : long[i] = s[k + i]
  <2>1. \A i \in (k + 1)..n : s[i] \in T
    BY <1>1
  <2>. QED  BY <1>1, <2>1, SubSeqProperties
<1>3. short \in Seq(T) /\ Len(short) = n - k - 1
      /\ \A i \in 1..(n - k - 1) : short[i] = s[k + 1 + i]
  <2>1. \A i \in (k + 2)..n : s[i] \in T
    BY <1>1
  <2>2. Len(short) = IF k + 2 <= n THEN n - (k + 2) + 1 ELSE 0
    BY <1>1, <2>1, SubSeqProperties
  <2>3. /\ short \in Seq(T)
        /\ \A i \in 1..(n - (k + 2) + 1) : short[i] = s[(k + 2) + i - 1]
    BY <1>1, <2>1, SubSeqProperties
  <2>. QED  BY <1>1, <2>2, <2>3
<1>4. /\ a \in Seq(T) /\ Len(a) = n - k + 1 /\ a[n - k + 1] = FrameMT
      /\ \A i \in 1..(n - k) : a[i] = s[k + i]
  BY <1>1, <1>2, AppendProperties
<1>5. /\ b \in Seq(T) /\ Len(b) = n - k /\ b[n - k] = FrameMT
      /\ \A i \in 1..(n - k - 1) : b[i] = s[k + 1 + i]
  BY <1>1, <1>3, AppendProperties
<1>6. /\ Tail(a) \in Seq(T) /\ Len(Tail(a)) = n - k
      /\ \A i \in 1..(n - k) : Tail(a)[i] = a[i + 1]
  <2>1. a # <<>>
    <3>1. Len(a) > 0
      BY <1>1, <1>4
    <3>2. Len(<<>>) = 0
      OBVIOUS
    <3>. HIDE DEF a
    <3>. QED  BY <3>1, <3>2
  <2>. QED  BY <1>1, <1>4, <2>1, HeadTailProperties
<1>7. \A i \in 1..(n - k) : Tail(a)[i] = b[i]
  <2>. SUFFICES ASSUME NEW i \in 1..(n - k) PROVE Tail(a)[i] = b[i]
    OBVIOUS
  <2>1. CASE i = n - k
    BY <1>1, <1>4, <1>5, <1>6, <2>1
  <2>2. CASE i # n - k
    <3>1. i + 1 \in 1..(n - k) /\ i \in 1..(n - k - 1)
      BY <1>1, <2>2
    <3>2. a[i + 1] = s[k + (i + 1)] /\ b[i] = s[k + 1 + i]
      BY <1>4, <1>5, <3>1
    <3>3. k + (i + 1) = k + 1 + i
      BY <3>1
    <3>. QED  BY <1>6, <3>2, <3>3
  <2>. QED  BY <2>1, <2>2
<1>. HIDE DEF a, b, n
<1>8. Tail(a) = b
  BY <1>1, <1>5, <1>6, <1>7, SeqEqual
<1>. QED  BY <1>8 DEF a, b, n

LEMMA RestAtTheEnds ==
    ASSUME NEW s \in Seq(Tasks)
    PROVE  /\ SubSeq(s, 1, Len(s)) = s
           /\ Append(SubSeq(s, Len(s) + 1, Len(s)), FrameMT) = <<FrameMT>>
           /\ Tail(<<FrameMT>>) = <<>>
           /\ Append(s, FrameMT) # <<>>
           /\ <<FrameMT>> # <<>>
<1>1. SubSeq(s, 1, Len(s)) = s
  BY SubSeqFull
<1>2. SubSeq(s, Len(s) + 1, Len(s)) = <<>>
  BY SubSeqEmpty, LenProperties
<1>3. Append(<<>>, FrameMT) = <<FrameMT>>
  OBVIOUS
<1>4. Append(s, FrameMT) # <<>>
  <2>1. s \in Seq(Tasks \cup {FrameMT})
    BY SeqMonotonic
  <2>2. Len(Append(s, FrameMT)) = Len(s) + 1
    BY <2>1, AppendProperties
  <2>. QED  BY <2>2, LenProperties, EmptySeq
<1>5. Tail(<<FrameMT>>) = <<>> /\ <<FrameMT>> # <<>>
  OBVIOUS
<1>. QED  BY <1>1, <1>2, <1>3, <1>4, <1>5

\* What is still to be done is a matter of who works, and of who has begun.
LEMMA TodoOf ==
    ASSUME IInv
    PROVE  /\ Working("worker") => Todo = Rest("worker")
           /\ pc["main"] \in {"tasks", "frameMT"} => Todo = Rest("main")
           /\ pc["worker"] \notin {"tasks", "frameMT"} /\ Untouched =>
                  Todo = Append(seqParallel, FrameMT)
           /\ pc["main"] \notin {"tasks", "frameMT"}
                  /\ pc["worker"] \notin {"tasks", "frameMT"} /\ ~Untouched =>
                  Todo = <<>>
<1>1. ~(Working("worker") /\ Working("main"))
  BY DEF Working, IInv, Marking
<1>. QED  BY <1>1 DEF Working, Todo, Untouched

LEMMA HandOverKeepsTodo ==
    ASSUME IInv, IInv', MainHandsOver \/ MainStops \/ WorkerHandsOver \/ WorkerStops
    PROVE  Todo' = Todo /\ dwFrame' = dwFrame
<1>1. seqParallel \in Seq(Tasks) /\ SubSeq(seqParallel, 1, Len(seqParallel)) = seqParallel
  BY QueueIsSeq, RestAtTheEnds DEF IInv
<1>2. CASE CaptureEnd \/ ReleaseStart \/ EndDrawing \/ CaptureStart \/ ReleaseEnd
  BY <1>2 DEF CaptureEnd, ReleaseStart, EndDrawing, CaptureStart, ReleaseEnd,
       Goto, IInv, TypeOK, Threads, frameVars, sections, Todo, Rest, Working,
       Untouched
<1>3. CASE Compare
  <2>1. pc["worker"] \notin {"tasks", "frameMT"}
        /\ pc'["worker"] \notin {"tasks", "frameMT"}
    BY <1>3 DEF Compare, Goto, IInv, TypeOK, Marking, Threads
  <2>2. CASE dwFrame # marker
    <3>1. Todo = Append(seqParallel, FrameMT)
      BY <1>3, <2>1, <2>2 DEF Compare, Todo, Working, Untouched
    <3>2. Todo' = Append(SubSeq(seqParallel, 1, Len(seqParallel)), FrameMT)
      BY <1>3, <2>1, <2>2
         DEF Compare, Goto, IInv, TypeOK, Threads, frameVars, Todo, Working, Rest
    <3>. QED  BY <1>1, <1>3, <3>1, <3>2 DEF Compare, frameVars
  <2>3. CASE dwFrame = marker
    BY <1>3, <2>1, <2>3
       DEF Compare, Goto, IInv, TypeOK, Threads, frameVars, Todo, Working,
           Untouched
  <2>. QED  BY <2>2, <2>3
<1>4. CASE MainStops
  BY <1>4 DEF MainStops, Quit, ReleaseStartForEver, Return, Goto, IInv, TypeOK,
       Threads, frameVars, sections, Todo, Rest, Working, Untouched
<1>5. CASE Begin
  <2>1. pc["main"] \in {"drawing", "drawn"} /\ marker # dwFrame
    BY <1>5, NobodyAssumption
       DEF Begin, IInv, TypeOK, Ownership, Marking, Ending, Threads, MainStates
  <2>2. Todo = Append(seqParallel, FrameMT)
    BY <1>5, <2>1 DEF Begin, Todo, Working, Untouched
  <2>3. Todo' = Append(SubSeq(seqParallel, 1, Len(seqParallel)), FrameMT)
    BY <1>5 DEF Begin, Goto, IInv, TypeOK, Threads, Todo, Working, Rest
  <2>. QED  BY <1>1, <1>5, <2>2, <2>3 DEF Begin
<1>6. CASE Enter \/ Signal \/ Await \/ Pass \/ WorkerStops
  BY <1>6 DEF Enter, Signal, Await, Pass, WorkerStops, Acknowledge, Exit, Goto,
       IInv, TypeOK, Threads, frameVars, sections, Todo, Rest, Working,
       Untouched
<1>. QED
  BY <1>2, <1>3, <1>4, <1>5, <1>6 DEF MainHandsOver, WorkerHandsOver

LEMMA WorkDoes ==
    ASSUME IInv, IInv', NEW p \in Threads, Work(p)
    PROVE  /\ dwFrame' = dwFrame
           /\ Todo' = Todo \/ (Todo # <<>> /\ Todo' = Tail(Todo))
<1>1. seqParallel \in Seq(Tasks) /\ Len(seqParallel) \in Nat
      /\ pit[p] \in Nat
  BY QueueIsSeq DEF IInv, TypeOK
<1>2. Todo = Rest(p)
  BY TodoOf DEF Work, RunTask, AtTask, ClearTasks, ProcessFrameMT, Working, Threads
<1>3. CASE RunTask(p)
  <2>1. Todo' = Rest(p)'
    BY <1>3 DEF RunTask, AtTask, IInv, Marking, Todo, Working, Threads
  <2>2. Rest(p) = Append(SubSeq(seqParallel, pit[p] + 1, Len(seqParallel)), FrameMT)
        /\ Rest(p)' = Append(SubSeq(seqParallel, pit[p] + 2, Len(seqParallel)), FrameMT)
    <3>1. /\ pc[p] = "tasks" /\ pc'[p] = "tasks" /\ seqParallel' = seqParallel
          /\ pit'[p] = pit[p] + 1
      BY <1>3 DEF RunTask, AtTask, IInv, TypeOK, frameVars
    <3>2. pit'[p] + 1 = pit[p] + 2
      BY <1>1, <3>1
    <3>. QED  BY <3>1, <3>2 DEF Rest
  <2>3. Rest(p) # <<>>
    <3>. DEFINE s == SubSeq(seqParallel, pit[p] + 1, Len(seqParallel))
    <3>1. s \in Seq(Tasks)
      <4>1. \A i \in (pit[p] + 1)..Len(seqParallel) : seqParallel[i] \in Tasks
        BY <1>1, ElementOfSeq
      <4>. QED  BY <1>1, <4>1, SubSeqProperties
    <3>. QED  BY <2>2, <3>1, RestAtTheEnds
  <2>4. Tail(Rest(p)) = Rest(p)'
    BY <1>1, <1>3, <2>2, RestOfTasks DEF RunTask, AtTask
  <2>. QED  BY <1>2, <1>3, <2>1, <2>3, <2>4 DEF RunTask, frameVars
<1>4. CASE ClearTasks(p)
  <2>1. Todo' = <<FrameMT>>
    BY <1>4 DEF ClearTasks, Goto, IInv, TypeOK, Marking, Todo, Working, Rest, Threads
  <2>2. Rest(p) = <<FrameMT>>
    BY <1>1, <1>4, RestAtTheEnds DEF ClearTasks, Rest
  <2>. QED  BY <1>2, <1>4, <2>1, <2>2 DEF ClearTasks
<1>5. CASE ProcessFrameMT(p)
  <2>1. Todo = <<FrameMT>>
    BY <1>2, <1>5 DEF ProcessFrameMT, Rest
  <2>2. Todo' = <<>>
    BY <1>5 DEF ProcessFrameMT, Goto, IInv, TypeOK, Marking, frameVars, Todo,
         Working, Untouched, Threads
  <2>. QED  BY <1>1, <1>5, <2>1, <2>2, RestAtTheEnds DEF ProcessFrameMT, frameVars
<1>. QED  BY <1>3, <1>4, <1>5 DEF Work

LEMMA FrameMoves ==
    ASSUME IInv, NEW batch \in Batches, FrameMove(batch)
    PROVE  Todo = <<>> /\ Todo' = Append(batch, FrameMT) /\ dwFrame' = dwFrame + 1
<1>1. pc["worker"] \notin {"tasks", "frameMT"}
  BY DEF FrameMove, IInv, Marking
<1>2. Todo = <<>>
  BY <1>1 DEF FrameMove, Todo, Working, Untouched
<1>3. seqParallel' = batch
  BY BatchFacts DEF FrameMove, IInv, Queue
<1>4. pc'["main"] = "moved" /\ pc'["worker"] = pc["worker"]
      /\ marker' # dwFrame'
  BY NobodyAssumption DEF FrameMove, Goto, IInv, TypeOK, Marking, Threads
<1>. QED  BY <1>1, <1>2, <1>3, <1>4 DEF FrameMove, Todo, Working, Untouched

LEMMA LoadsBetweenFrames ==
    ASSUME IInv, Load
    PROVE  Todo = <<>> /\ Todo' = <<>> /\ dwFrame' \in {dwFrame, dwFrame + 1}
BY DEF Load, IInv, Marking, Todo, Working, Untouched

LEMMA StepRefines ==
    ASSUME IInv, IInv', [FrameNext]_threadVars
    PROVE  [Abstract!Next]_(Abstract!vars)
<1>. USE DEF Abstract!Next, Abstract!Move, Abstract!Load, Abstract!Do, Abstract!vars
<1>1. CASE UNCHANGED threadVars
  BY <1>1 DEF threadVars, sections, frameVars, Todo, Rest, Working, Untouched
<1>2. CASE Stopped
  BY <1>1, <1>2 DEF Stopped
<1>3. ASSUME NEW batch \in Batches, FrameMove(batch)
      PROVE  Abstract!Move
  BY <1>3, FrameMoves
<1>4. CASE Load
  BY <1>4, LoadsBetweenFrames
<1>5. CASE MainHandsOver \/ MainStops \/ WorkerHandsOver \/ WorkerStops
  BY <1>5, HandOverKeepsTodo
<1>6. ASSUME NEW p \in Threads, Work(p)
      PROVE  [Abstract!Next]_(Abstract!vars)
  BY <1>6, WorkDoes
<1>. QED  BY <1>1, <1>2, <1>3, <1>4, <1>5, <1>6 DEF FrameNext

\* The two threads do each frame's work exactly once, in the order in which it
\* was queued, before the next frame moves (device.cpp, on_idle, mt_Thread).
THEOREM FrameThreadsRefineFrameWork == FrameSpec => IsFrameWork
<1>1. Init => Abstract!Init
  BY DEF Init, Abstract!Init, Todo, Working, Untouched, Threads
<1>2. IInv /\ IInv' /\ [FrameNext]_threadVars => [Abstract!Next]_(Abstract!vars)
  BY StepRefines
<1>. QED
  BY <1>1, <1>2, FrameThreadsInvariant, PTL
     DEF FrameSpec, IsFrameWork, Abstract!Spec

-----------------------------------------------------------------------------
(* The tasks and the drawing, step by step, keep to the two threads.        *)

LEMMA TaskStepsAreTurns ==
    ASSUME NEW p \in Threads, TaskStep(p)
    PROVE  RunTask(p) \/ UNCHANGED threadVars
BY DEF TaskStep, PlainTask, BulletTask, HomTask, DetailsTask, BeginTest, Test

LEMMA StepsAreFrameSteps == [Next]_vars => [FrameNext]_threadVars
<1>. SUFFICES ASSUME [Next]_vars PROVE [FrameNext]_threadVars
  OBVIOUS
<1>1. CASE UNCHANGED vars
  BY <1>1 DEF vars
<1>2. CASE Stopped /\ UNCHANGED vars
  BY <1>2 DEF vars
<1>3. ASSUME NEW level \in Levels, NEW calc \in BOOLEAN, NEW new \in Fired,
             Move(level, calc, new)
      PROVE  FrameNext
  BY <1>3, BatchesAssumption DEF Move, FrameNext
<1>4. CASE LoadLevel
  BY <1>4 DEF LoadLevel, FrameNext
<1>5. CASE MainTurns \/ WorkerTurns
  BY <1>5 DEF MainTurns, WorkerTurns, Turn, FrameNext, MainHandsOver, Work, Threads
<1>6. CASE DrawStep
  BY <1>6 DEF DrawStep, BeginScene, EndCalc, Grass, DrawGrass, BeginShadows,
       ShadowGrass, EndScene, DrawNext, FrameNext, MainHandsOver
<1>7. ASSUME NEW p \in Threads, TaskStep(p)
      PROVE  [FrameNext]_threadVars
  BY <1>7, TaskStepsAreTurns DEF FrameNext, Work
<1>. QED
  BY <1>1, <1>2, <1>3, <1>4, <1>5, <1>6, <1>7
     DEF Next, MainStep, WorkerStep, Threads

LEMMA ParallelTasksRefineFrameThreads == Spec => FrameSpec
<1>1. PInit => Init
  BY DEF PInit
<1>. QED  BY <1>1, StepsAreFrameSteps, PTL DEF Spec, FrameSpec

\* Whatever the tasks do, the secondary thread runs them only while the
\* primary thread draws or waits to get mt_csEnter back (device.cpp:269-304).
THEOREM TasksAreExclusive == Spec => []WorkIsExclusive
<1>1. IInv => WorkIsExclusive
  BY DEF IInv, Marking, WorkIsExclusive, Working
<1>. QED
  BY <1>1, FrameThreadsInvariant, ParallelTasksRefineFrameThreads, PTL

\* The composition does each frame's work exactly once, too.
THEOREM ParallelTasksRefineFrameWork == Spec => IsFrameWork
BY FrameThreadsRefineFrameWork, ParallelTasksRefineFrameThreads, PTL

-----------------------------------------------------------------------------
(* The invariant of the occlusion map and of the grass.                     *)

RTypes ==
    /\ RenderTypeOK
    /\ mt \in BOOLEAN
    /\ draw \in {"idle", "calc", "grass", "visibles", "marking", "lit", "shadows"}

\* A thread is in the code of the renderer because of the task that it runs or
\* of the stage of the drawing.
InScene ==
    /\ draw # "idle" => pc["main"] = "drawing"
    /\ seqParallel = <<>> \/ \E level \in Levels : seqParallel = Batch(mt, level)
    /\ \A p \in Threads :
         /\ hom[p] # "idle" =>
              IF testing[p]
              THEN det[p] = "filling" \/ (p = "main" /\ draw \in {"calc", "shadows"})
              ELSE Runs(p, "hom")
         /\ testing[p] => hom[p] # "idle"
         /\ hom[p] \in {"projected", "synced"} => testing[p]
         /\ det[p] # "idle" => Runs(p, "details") \/ (p = "main" /\ draw = "grass")

Locks ==
    \A p \in Threads :
        /\ homLock = p <=> hom[p] \in {"entered", "enabled", "drawing"}
        /\ detLock = p <=> det[p] # "idle"

\* The map of this frame, once drawn, is not drawn again; who waits for it to be
\* drawn finds it in use.
MapInv ==
    /\ homFrame <= dwFrame
    /\ homFrame = dwFrame =>
         raster = dwFrame /\ \A p \in Threads : hom[p] \notin {"enabled", "drawing"}
    /\ \A p \in Threads :
         /\ hom[p] = "synced" => homFrame = dwFrame
         /\ testing[p] /\ hom[p] = "enabled" => enabled

\* What is in the lists has not been drawn, and is due no more once it is drawn.
GrassInv ==
    /\ calculated <= dwFrame /\ rendered <= dwFrame
    /\ \A p \in Threads : det[p] = "filling" => GrassIsDue(dwFrame)
    /\ draw \in {"visibles", "marking", "lit", "shadows"} => ~GrassIsDue(dwFrame)
    /\ visibles # {} => visibles = {calculated} /\ rendered < calculated
    /\ draw = "marking" => visibles = {}
    /\ calculated = dwFrame /\ rendered < dwFrame /\ draw # "marking" =>
         visibles = {dwFrame}

RInv == RTypes /\ InScene /\ Locks /\ MapInv /\ GrassInv

\* Two threads do not run tasks at once, and none does while another frame's
\* work may begin.
LEMMA WhoRuns ==
    ASSUME IInv
    PROVE  /\ \A t : Runs("worker", t) => pc["main"] \in {"drawing", "drawn"}
           /\ \A t : Runs("main", t) => pc["main"] = "tasks"
           /\ \A p, t, u : Runs(p, t) /\ Runs(p, u) => t = u
           /\ dwFrame \in Nat
BY DEF IInv, TypeOK, Marking, Runs, AtTask

LEMMA SameRuns ==
    ASSUME UNCHANGED threadVars
    PROVE  /\ \A p, t : Runs(p, t)' <=> Runs(p, t)
           /\ pc' = pc /\ seqParallel' = seqParallel /\ dwFrame' = dwFrame
BY DEF threadVars, frameVars, Runs, AtTask, Task

\* The task of the occlusion map is queued only with the two of the renderer.
LEMMA HomMeansMt ==
    ASSUME IInv, InScene, NEW p \in Threads, Runs(p, "hom") \/ Runs(p, "details")
    PROVE  mt
<1>. SUFFICES ASSUME ~mt PROVE FALSE
  OBVIOUS
<1>1. AtTask(p) /\ Task(p) \in {"hom", "details"} /\ pit[p] \in Nat
  BY DEF Runs, IInv, TypeOK
<1>2. seqParallel \in {<<>>, <<"map", "bullets", "sound">>}
  BY DEF InScene, Batch, Levels
<1>3. CASE seqParallel = <<>>
  BY <1>1, <1>3 DEF AtTask
<1>4. CASE seqParallel = <<"map", "bullets", "sound">>
  BY <1>1, <1>4 DEF AtTask, Task
<1>. QED
  BY <1>2, <1>3, <1>4

LEMMA InitRInv == PInit => RInv
<1>. SUFFICES ASSUME PInit PROVE RInv
  OBVIOUS
<1>. USE DrawersAssumption, FreeAssumption DEF PInit, Init, RenderInit, Threads
<1>0. "main" \in Threads /\ "worker" \in Threads
  OBVIOUS
<1>1. RTypes
  BY DEF RTypes, RenderTypeOK
<1>2. InScene
  BY DEF InScene
<1>3. Locks
  BY DEF Locks
<1>4. MapInv
  BY DEF MapInv
<1>5. GrassInv
  BY DEF GrassInv
<1>. QED
  BY <1>1, <1>2, <1>3, <1>4, <1>5 DEF RInv

\* The threads go on, and the renderer does not.
LEMMA ThreadsGoOn ==
    ASSUME RInv, UNCHANGED <<renderVars, mt, draw, dwFrame>>,
           draw # "idle" => pc'["main"] = "drawing",
           seqParallel' = <<>> \/ \E level \in Levels : seqParallel' = Batch(mt, level),
           \A p \in Threads : /\ hom[p] # "idle" /\ ~testing[p] => Runs(p, "hom")'
                              /\ det[p] # "idle" /\ ~(p = "main" /\ draw = "grass")
                                   => Runs(p, "details")'
    PROVE  RInv'
<1>1. UNCHANGED <<enabled, raster, homFrame, homLock, hom, testing, visibles, calculated,
                  rendered, detLock, det>>
  BY DEF renderVars, homVars, detVars
<1>2. RTypes'
  BY <1>1 DEF RInv, RTypes, RenderTypeOK
<1>3. InScene'
  BY <1>1 DEF RInv, InScene
<1>4. Locks'
  BY <1>1 DEF RInv, Locks
<1>5. MapInv'
  BY <1>1 DEF RInv, MapInv
<1>6. GrassInv'
  BY <1>1 DEF RInv, GrassInv, GrassIsDue
<1>. QED
  BY <1>2, <1>3, <1>4, <1>5, <1>6 DEF RInv

\* Where nothing is rendered.
LEMMA IdleThreads ==
    ASSUME IInv, RInv, NEW p \in Threads, ~Runs(p, "hom"), ~Runs(p, "details"),
           p = "main" => draw \notin {"calc", "grass", "shadows"}
    PROVE  hom[p] = "idle" /\ det[p] = "idle"
BY DEF RInv, InScene

LEMMA NextTaskRInv ==
    ASSUME IInv, RInv, NEW p \in Threads, RunTask(p), Runs(p, "map") \/ Runs(p, "sound") \/ Runs(p, "bullets"),
           UNCHANGED <<renderVars, sceneVars>>
    PROVE  RInv'
<1>1. ~Runs(p, "hom") /\ ~Runs(p, "details") /\ (p = "main" => draw = "idle")
  BY WhoRuns DEF RInv, InScene
<1>2. hom[p] = "idle" /\ det[p] = "idle"
  BY <1>1, IdleThreads
<1>3. /\ pc' = pc /\ seqParallel' = seqParallel /\ dwFrame' = dwFrame
      /\ \A q \in Threads : q # p => pit'[q] = pit[q]
  BY DEF RunTask, frameVars, IInv, TypeOK
<1>4. \A q \in Threads : \A t : q # p /\ Runs(q, t) => Runs(q, t)'
  BY <1>3 DEF Runs, AtTask, Task
<1>5. UNCHANGED <<mt, draw>>
  BY DEF sceneVars
<1>6. /\ draw # "idle" => pc'["main"] = "drawing"
      /\ seqParallel' = <<>> \/ \E level \in Levels : seqParallel' = Batch(mt, level)
  BY <1>3 DEF RInv, InScene
<1>7. \A q \in Threads : /\ hom[q] # "idle" /\ ~testing[q] => Runs(q, "hom")'
                         /\ det[q] # "idle" /\ ~(q = "main" /\ draw = "grass")
                              => Runs(q, "details")'
  BY <1>2, <1>4 DEF RInv, InScene
<1>. QED
  BY <1>3, <1>5, <1>6, <1>7, ThreadsGoOn

LEMMA TurnRInv ==
    ASSUME IInv, RInv, MainTurns \/ WorkerTurns
    PROVE  RInv'
<1>. DEFINE Steps == \/ CaptureEnd \/ ReleaseStart \/ CaptureStart \/ ReleaseEnd \/ Compare
                     \/ MainStops \/ WorkerHandsOver \/ WorkerStops
<1>1. UNCHANGED <<renderVars, mt, draw>>
  BY DEF MainTurns, WorkerTurns, Turn, sceneVars
<1>2. \/ Steps
      \/ \E p \in Threads : ClearTasks(p) \/ ProcessFrameMT(p)
  BY DEF MainTurns, WorkerTurns, Turn, Threads
<1>3. /\ draw # "idle" => pc["main"] = "drawing"
      /\ pc \in [Threads -> MainStates \cup WorkerStates] /\ pit \in [Threads -> Nat]
      /\ seqParallel = <<>> \/ \E level \in Levels : seqParallel = Batch(mt, level)
  BY DEF RInv, InScene, IInv, TypeOK
<1>4. CASE Steps
  <2>1. dwFrame' = dwFrame /\ seqParallel' = seqParallel
    BY <1>4 DEF CaptureEnd, ReleaseStart, CaptureStart, ReleaseEnd, Compare,
       MainStops, Quit, ReleaseStartForEver, Return, WorkerHandsOver, Enter, Begin, Signal,
       Await, Pass, WorkerStops, Acknowledge, Exit, frameVars
  <2>2. pc["main"] = "drawing" => pc'["main"] = "drawing"
    BY <1>3, <1>4 DEF CaptureEnd, ReleaseStart, CaptureStart, ReleaseEnd, Compare,
       MainStops, Quit, ReleaseStartForEver, Return, WorkerHandsOver, Enter, Begin, Signal,
       Await, Pass, WorkerStops, Acknowledge, Exit, Goto, Threads
  <2>3. \A p \in Threads : pc[p] = "tasks" => pc'[p] = "tasks" /\ pit'[p] = pit[p]
    BY <1>3, <1>4 DEF CaptureEnd, ReleaseStart, CaptureStart, ReleaseEnd, Compare,
       MainStops, Quit, ReleaseStartForEver, Return, WorkerHandsOver, Enter, Begin, Signal,
       Await, Pass, WorkerStops, Acknowledge, Exit, Goto, Threads
  <2>4. \A p \in Threads : \A t : Runs(p, t) => Runs(p, t)'
    BY <2>1, <2>3 DEF Runs, AtTask, Task
  <2>. HIDE DEF Steps
  <2>5. /\ draw # "idle" => pc'["main"] = "drawing"
        /\ seqParallel' = <<>> \/ \E level \in Levels : seqParallel' = Batch(mt, level)
    BY <1>3, <2>1, <2>2
  <2>6. \A p \in Threads : /\ hom[p] # "idle" /\ ~testing[p] => Runs(p, "hom")'
                           /\ det[p] # "idle" /\ ~(p = "main" /\ draw = "grass")
                                => Runs(p, "details")'
    BY <2>4 DEF RInv, InScene
  <2>. QED
    BY <1>1, <2>1, <2>5, <2>6, ThreadsGoOn
<1>5. ASSUME NEW p \in Threads, ClearTasks(p) \/ ProcessFrameMT(p)
      PROVE  RInv'
  <2>1. \A q \in Threads : \A t : ~Runs(q, t)
    BY <1>5, WhoRuns DEF ClearTasks, ProcessFrameMT, Runs, AtTask, Threads, IInv, Marking, Queue, TypeOK
  <2>2. /\ dwFrame' = dwFrame /\ seqParallel' \in {seqParallel, <<>>}
        /\ p = "main" => draw = "idle"
        /\ \A q \in Threads : q # p => pc'[q] = pc[q]
    BY <1>3, <1>5 DEF ClearTasks, ProcessFrameMT, frameVars, Goto
  <2>3. /\ draw # "idle" => pc'["main"] = "drawing"
        /\ seqParallel' = <<>> \/ \E level \in Levels : seqParallel' = Batch(mt, level)
    BY <1>3, <2>2 DEF Threads
  <2>4. \A q \in Threads : /\ hom[q] # "idle" /\ ~testing[q] => Runs(q, "hom")'
                           /\ det[q] # "idle" /\ ~(q = "main" /\ draw = "grass")
                                => Runs(q, "details")'
    BY <2>1 DEF RInv, InScene
  <2>. QED
    BY <1>1, <2>2, <2>3, <2>4, ThreadsGoOn
<1>. QED
  BY <1>2, <1>4, <1>5

-----------------------------------------------------------------------------
(* Within MT_RENDER and visible().                                          *)

\* The step is within a task, or within the drawing.
Within == UNCHANGED <<threadVars, mt, draw>>

LEMMA HomEnterRInv ==
    ASSUME IInv, RInv, Within, NEW p \in Threads, HomEnter(p),
           (hom[p] = "idle" /\ Runs(p, "hom")) \/ hom[p] = "projected"
    PROVE  RInv'
<1>. USE DrawersAssumption, FreeAssumption, SameRuns DEF RInv, Within, HomEnter, HomGoto, detVars
<1>1. RTypes'
  BY DEF RTypes, RenderTypeOK
<1>2. InScene'
  BY DEF RTypes, RenderTypeOK, InScene
<1>3. Locks'
  BY DEF RTypes, RenderTypeOK, Locks
<1>4. MapInv' /\ GrassInv'
  BY DEF RTypes, RenderTypeOK, MapInv, GrassInv, GrassIsDue
<1>. QED
  BY <1>1, <1>2, <1>3, <1>4

LEMMA HomEnableRInv ==
    ASSUME IInv, RInv, Within, NEW p \in Threads, HomEnable(p, dwFrame)
    PROVE  RInv'
<1>. USE DrawersAssumption, FreeAssumption, SameRuns
     DEF RInv, Within, HomEnable, HomMustRender, HomGoto, detVars
<1>1. RTypes'
  BY DEF RTypes, RenderTypeOK
<1>2. InScene'
  BY DEF RTypes, RenderTypeOK, InScene
<1>3. Locks'
  BY DEF RTypes, RenderTypeOK, Locks
<1>4. MapInv' /\ GrassInv'
  BY DEF RTypes, RenderTypeOK, MapInv, GrassInv, GrassIsDue
<1>. QED
  BY <1>1, <1>2, <1>3, <1>4

LEMMA HomClearRInv ==
    ASSUME IInv, RInv, Within, NEW p \in Threads, HomClear(p)
    PROVE  RInv'
<1>. USE DrawersAssumption, FreeAssumption, SameRuns DEF RInv, Within, HomClear, HomGoto, detVars
<1>1. RTypes'
  BY DEF RTypes, RenderTypeOK
<1>2. InScene'
  BY DEF RTypes, RenderTypeOK, InScene
<1>3. Locks'
  BY DEF RTypes, RenderTypeOK, Locks
<1>4. MapInv' /\ GrassInv'
  BY DEF RTypes, RenderTypeOK, MapInv, GrassInv, GrassIsDue
<1>. QED
  BY <1>1, <1>2, <1>3, <1>4

\* What the other thread runs it goes on to run, and the drawing goes on.
OthersGoOn(p) ==
    /\ seqParallel' = seqParallel /\ dwFrame' = dwFrame /\ UNCHANGED <<mt, draw>>
    /\ pc'["main"] = pc["main"]
    /\ \A q \in Threads : \A t : q # p /\ Runs(q, t) => Runs(q, t)'

LEMMA RunTaskGoesOn ==
    ASSUME IInv, NEW p \in Threads, RunTask(p), UNCHANGED <<mt, draw>>
    PROVE  OthersGoOn(p)
BY DEF OthersGoOn, RunTask, frameVars, IInv, TypeOK, Runs, AtTask, Task, Threads

LEMMA WithinGoesOn ==
    ASSUME Within, NEW p
    PROVE  OthersGoOn(p) /\ \A t : Runs(p, t) => Runs(p, t)'
BY SameRuns DEF OthersGoOn, Within

\* The map is drawn, was there already, or is in use no more.
LEMMA HomLeaveRInv ==
    ASSUME IInv, RInv, NEW p \in Threads, HomLeave(p, dwFrame), OthersGoOn(p),
           \/ testing[p] /\ \A t : Runs(p, t) => Runs(p, t)'
           \/ ~testing[p] /\ Runs(p, "hom")
    PROVE  RInv'
<1>. USE DrawersAssumption, FreeAssumption
     DEF RInv, OthersGoOn, HomLeave, HomEnds, HomMustRender, HomGoto, detVars
<1>1. dwFrame \in Nat
  BY WhoRuns
<1>2. RTypes'
  BY <1>1 DEF RTypes, RenderTypeOK
<1>3. ~testing[p] => det[p] = "idle"
  BY WhoRuns DEF InScene
<1>4. InScene'
  BY <1>3 DEF RTypes, RenderTypeOK, InScene
<1>5. Locks'
  BY DEF RTypes, RenderTypeOK, Locks
<1>6. \A q \in Threads : q # p => hom[q] \notin {"entered", "enabled", "drawing"}
  BY DEF Locks
<1>7. MapInv'
  BY <1>1, <1>6 DEF RTypes, RenderTypeOK, MapInv
<1>8. GrassInv'
  BY DEF RTypes, RenderTypeOK, GrassInv, GrassIsDue
<1>. QED
  BY <1>2, <1>4, <1>5, <1>7, <1>8

LEMMA ProjectRInv ==
    ASSUME IInv, RInv, Within, NEW p \in Threads, Project(p),
           det[p] = "filling" \/ (p = "main" /\ draw \in {"calc", "shadows"})
    PROVE  RInv'
<1>. USE DrawersAssumption, FreeAssumption, SameRuns DEF RInv, Within, Project, HomGoto, detVars
<1>1. RTypes'
  BY DEF RTypes, RenderTypeOK
<1>2. InScene'
  BY DEF RTypes, RenderTypeOK, InScene
<1>3. Locks'
  BY DEF RTypes, RenderTypeOK, Locks
<1>4. MapInv' /\ GrassInv'
  BY DEF RTypes, RenderTypeOK, MapInv, GrassInv, GrassIsDue
<1>. QED
  BY <1>1, <1>2, <1>3, <1>4

LEMMA TestBoxRInv ==
    ASSUME IInv, RInv, Within, NEW p \in Threads, TestBox(p)
    PROVE  RInv'
<1>. USE DrawersAssumption, FreeAssumption, SameRuns DEF RInv, Within, TestBox, HomGoto, detVars
<1>1. RTypes'
  BY DEF RTypes, RenderTypeOK
<1>2. InScene'
  BY DEF RTypes, RenderTypeOK, InScene
<1>3. Locks'
  BY DEF RTypes, RenderTypeOK, Locks
<1>4. MapInv' /\ GrassInv'
  BY DEF RTypes, RenderTypeOK, MapInv, GrassInv, GrassIsDue
<1>. QED
  BY <1>1, <1>2, <1>3, <1>4

-----------------------------------------------------------------------------
(* The grass.                                                               *)

LEMMA DetEnterRInv ==
    ASSUME IInv, RInv, Within, NEW p \in Threads, DetEnter(p),
           Runs(p, "details") \/ (p = "main" /\ draw = "grass")
    PROVE  RInv'
<1>. USE DrawersAssumption, FreeAssumption, SameRuns DEF RInv, Within, DetEnter, DetGoto, homVars
<1>1. RTypes'
  BY DEF RTypes, RenderTypeOK
<1>2. InScene'
  BY DEF RTypes, RenderTypeOK, InScene
<1>3. Locks'
  BY DEF RTypes, RenderTypeOK, Locks
<1>4. MapInv' /\ GrassInv'
  BY DEF RTypes, RenderTypeOK, MapInv, GrassInv, GrassIsDue
<1>. QED
  BY <1>1, <1>2, <1>3, <1>4

LEMMA FillRInv ==
    ASSUME IInv, RInv, Within, NEW p \in Threads, Fill(p, dwFrame)
    PROVE  RInv'
<1>. USE DrawersAssumption, FreeAssumption, SameRuns DEF RInv, Within, Fill, DetGoto, homVars
<1>1. RTypes'
  BY DEF RTypes, RenderTypeOK
<1>2. InScene'
  BY DEF RTypes, RenderTypeOK, InScene
<1>3. Locks'
  BY DEF RTypes, RenderTypeOK, Locks
<1>4. MapInv' /\ GrassInv'
  BY DEF RTypes, RenderTypeOK, MapInv, GrassInv, GrassIsDue
<1>. QED
  BY <1>1, <1>2, <1>3, <1>4

\* The lists are empty when they have been filled.
LEMMA FilledGrass ==
    ASSUME IInv, RInv, NEW p \in Threads, Filled(p, dwFrame)
    PROVE  /\ visibles = {} /\ visibles' = {dwFrame} /\ calculated' = dwFrame
           /\ rendered < dwFrame /\ draw \notin {"visibles", "marking", "lit", "shadows"}
<1>1. GrassIsDue(dwFrame)
  BY DEF Filled, RInv, GrassInv
<1>2. rendered \in Nat /\ calculated \in Nat /\ dwFrame \in Nat
  BY WhoRuns DEF RInv, RTypes, RenderTypeOK
<1>3. visibles = {}
  BY <1>1, <1>2 DEF RInv, GrassInv, GrassIsDue
<1>. QED
  BY <1>1, <1>2, <1>3 DEF Filled, RInv, GrassInv, GrassIsDue

LEMMA DetLeaveRInv ==
    ASSUME IInv, RInv, NEW p \in Threads, DetLeave(p, dwFrame), OthersGoOn(p), Runs(p, "details")
    PROVE  RInv'
<1>. USE DrawersAssumption, FreeAssumption DEF RInv, OthersGoOn, DetLeave, DetGoto, homVars
<1>1. dwFrame \in Nat
  BY WhoRuns
<1>2. RTypes'
  BY <1>1, FilledGrass DEF RTypes, RenderTypeOK
<1>3. hom[p] = "idle"
  BY WhoRuns DEF InScene, Filled
<1>4. det'[p] = "idle" /\ \A q \in Threads : q # p => det'[q] = det[q]
  BY DEF RTypes, RenderTypeOK
<1>5. InScene'
  BY <1>3, <1>4 DEF RTypes, RenderTypeOK, InScene
<1>6. Locks'
  BY <1>4 DEF RTypes, RenderTypeOK, Locks, Filled
<1>7. MapInv'
  BY DEF MapInv
<1>8. \A q \in Threads : q # p => det[q] = "idle"
  BY <1>4 DEF Locks, Filled
<1>9. GrassInv'
  <2>1. CASE Filled(p, dwFrame)
    BY <1>1, <1>4, <1>8, <2>1, FilledGrass DEF GrassInv, GrassIsDue, RTypes, RenderTypeOK
  <2>2. CASE UNCHANGED <<visibles, calculated>>
    BY <1>4, <2>2 DEF GrassInv, GrassIsDue, RTypes, RenderTypeOK
  <2>. QED
    BY <2>1, <2>2
<1>. QED
  BY <1>2, <1>5, <1>6, <1>7, <1>9

\* MT_SYNC returns.
LEMMA GrassRInv ==
    ASSUME IInv, RInv, UNCHANGED <<threadVars, mt>>, draw = "grass", draw' = "visibles",
           \/ det["main"] = "idle" /\ calculated = dwFrame /\ UNCHANGED renderVars
           \/ DetLeave("main", dwFrame)
    PROVE  RInv'
<1>. USE DrawersAssumption, FreeAssumption, SameRuns DEF RInv, renderVars, homVars, detVars, DetLeave, DetGoto
<1>1. dwFrame \in Nat /\ "main" \in Threads
  BY WhoRuns DEF Threads
<1>2. RTypes'
  BY <1>1, FilledGrass DEF RTypes, RenderTypeOK
<1>3. hom["main"] = "idle"
  BY <1>1, WhoRuns DEF InScene, Filled
<1>4. det'["main"] = "idle" /\ \A q \in Threads : q # "main" => det'[q] = det[q]
  BY <1>1 DEF RTypes, RenderTypeOK
<1>5. InScene'
  BY <1>3, <1>4 DEF RTypes, RenderTypeOK, InScene
<1>6. Locks'
  BY <1>4 DEF RTypes, RenderTypeOK, Locks, Filled
<1>7. MapInv'
  BY DEF MapInv
<1>9. GrassInv'
  <2>1. CASE Filled("main", dwFrame)
    <3>1. \A q \in Threads : q # "main" => det[q] = "idle"
      BY <2>1, <1>1 DEF Locks, Filled
    <3>. QED
      BY <1>1, <1>4, <3>1, <2>1, FilledGrass DEF GrassInv, GrassIsDue, RTypes, RenderTypeOK
  <2>2. CASE UNCHANGED <<visibles, calculated>> /\ ~GrassIsDue(dwFrame)
    BY <1>4, <2>2 DEF GrassInv, GrassIsDue, RTypes, RenderTypeOK
  <2>. QED
    BY <2>1, <2>2 DEF GrassIsDue
<1>. QED
  BY <1>2, <1>5, <1>6, <1>7, <1>9

-----------------------------------------------------------------------------
(* The steps of the tasks and of the drawing.                               *)

LEMMA TaskStepRInv ==
    ASSUME IInv, RInv, NEW p \in Threads, TaskStep(p)
    PROVE  RInv'
<1>1. CASE PlainTask(p)
  BY <1>1, NextTaskRInv DEF PlainTask
<1>2. CASE BulletTask(p)
  <2>1. CASE UNCHANGED threadVars
    <3>1. UNCHANGED <<renderVars, mt, draw>> /\ Within
      BY <1>2, <2>1 DEF BulletTask, sceneVars, Within
    <3>2. /\ draw # "idle" => pc'["main"] = "drawing"
          /\ seqParallel' = <<>> \/ \E level \in Levels : seqParallel' = Batch(mt, level)
      BY <2>1, SameRuns DEF RInv, InScene
    <3>3. \A q \in Threads : /\ hom[q] # "idle" /\ ~testing[q] => Runs(q, "hom")'
                             /\ det[q] # "idle" /\ ~(q = "main" /\ draw = "grass")
                                  => Runs(q, "details")'
      BY <2>1, SameRuns DEF RInv, InScene
    <3>. QED
      BY <3>1, <3>2, <3>3, <2>1, SameRuns, ThreadsGoOn
  <2>2. CASE RunTask(p)
    BY <1>2, <2>2, NextTaskRInv DEF BulletTask
  <2>. QED
    BY <1>2, <2>1, <2>2 DEF BulletTask
<1>3. CASE HomTask(p)
  <2>1. UNCHANGED <<mt, draw>> /\ Runs(p, "hom") /\ ~testing[p]
    BY <1>3 DEF HomTask, sceneVars
  <2>2. CASE /\ UNCHANGED threadVars
             /\ (hom[p] = "idle" /\ HomEnter(p)) \/ HomEnable(p, dwFrame) \/ HomClear(p)
    <3>1. Within
      BY <2>1, <2>2 DEF Within
    <3>. QED
      BY <2>1, <2>2, <3>1, HomEnterRInv, HomEnableRInv, HomClearRInv
  <2>3. CASE HomLeave(p, dwFrame) /\ RunTask(p)
    BY <2>1, <2>3, RunTaskGoesOn, HomLeaveRInv
  <2>. QED
    BY <1>3, <2>2, <2>3 DEF HomTask
<1>4. CASE DetailsTask(p)
  <2>1. UNCHANGED <<mt, draw>>
    BY <1>4 DEF DetailsTask
  <2>2. CASE (DetEnter(p) \/ Fill(p, dwFrame)) /\ UNCHANGED threadVars
    <3>1. Within
      BY <2>1, <2>2 DEF Within
    <3>. QED
      BY <1>4, <2>2, <3>1, DetEnterRInv, FillRInv DEF DetailsTask
  <2>3. CASE DetLeave(p, dwFrame) /\ RunTask(p)
    BY <1>4, <2>1, <2>3, RunTaskGoesOn, DetLeaveRInv DEF DetailsTask
  <2>. QED
    BY <1>4, <2>2, <2>3 DEF DetailsTask
<1>5. CASE BeginTest(p)
  <2>1. Within
    BY <1>5 DEF BeginTest, Within
  <2>. QED
    BY <1>5, <2>1, ProjectRInv DEF BeginTest
<1>6. CASE Test(p)
  <2>1. Within
    BY <1>6 DEF Test, Within, sceneVars
  <2>2. OthersGoOn(p) /\ \A t : Runs(p, t) => Runs(p, t)'
    BY <2>1, WithinGoesOn
  <2>. QED
    BY <1>6, <2>1, <2>2, HomEnterRInv, HomEnableRInv, HomClearRInv, HomLeaveRInv, TestBoxRInv DEF Test
<1>. QED
  BY <1>1, <1>2, <1>3, <1>4, <1>5, <1>6 DEF TaskStep

LEMMA DrawStepRInv ==
    ASSUME IInv, RInv, DrawStep
    PROVE  RInv'
<1>. USE DrawersAssumption, FreeAssumption
<1>1. /\ dwFrame \in Nat /\ "main" \in Threads /\ "worker" \in Threads
      /\ \A p \in Threads : p = "main" \/ p = "worker"
  BY WhoRuns DEF Threads
<1>2. CASE BeginScene
  <2>1. /\ UNCHANGED <<threadVars, mt>> /\ pc["main"] = "drawing" /\ draw = "idle" /\ draw' = "calc"
        /\ UNCHANGED <<homLock, hom, testing, detVars>>
        /\ IF mt THEN UNCHANGED <<enabled, raster, homFrame>>
           ELSE raster' = dwFrame /\ homFrame' = dwFrame /\ enabled' = TRUE
    BY <1>2 DEF BeginScene, Drawing, DrawNext, renderVars, homVars, RenderMapAlone
  <2>2. ~mt => \A p \in Threads : hom[p] = "idle"
    BY <1>1, <2>1, WhoRuns, HomMeansMt DEF RInv, InScene
  <2>3. RTypes'
    BY <1>1, <2>1 DEF RInv, RTypes, RenderTypeOK, detVars
  <2>4. InScene'
    BY <2>1, SameRuns DEF RInv, InScene, detVars
  <2>5. Locks'
    BY <2>1 DEF RInv, Locks, detVars
  <2>6. MapInv'
    BY <1>1, <2>1, <2>2, SameRuns DEF RInv, MapInv
  <2>7. GrassInv'
    BY <2>1, SameRuns DEF RInv, GrassInv, GrassIsDue, detVars
  <2>. QED
    BY <2>3, <2>4, <2>5, <2>6, <2>7 DEF RInv
<1>3. CASE EndCalc \/ ShadowGrass
  <2>1. /\ UNCHANGED <<threadVars, mt, renderVars>> /\ pc["main"] = "drawing"
        /\ draw \in {"calc", "shadows"} /\ draw' = "grass" /\ hom["main"] = "idle"
    BY <1>3 DEF EndCalc, ShadowGrass, Drawing, DrawNext
  <2>2. UNCHANGED <<enabled, raster, homFrame, homLock, hom, testing, visibles, calculated,
                    rendered, detLock, det>>
    BY <2>1 DEF renderVars, homVars, detVars
  <2>3. RTypes'
    BY <2>1, <2>2 DEF RInv, RTypes, RenderTypeOK
  <2>4. InScene'
    BY <1>1, <2>1, <2>2, SameRuns DEF RInv, InScene
  <2>5. Locks' /\ MapInv'
    BY <2>1, <2>2, SameRuns DEF RInv, Locks, MapInv
  <2>6. GrassInv'
    BY <2>1, <2>2, SameRuns DEF RInv, GrassInv, GrassIsDue
  <2>. QED
    BY <2>3, <2>4, <2>5, <2>6 DEF RInv
<1>4. CASE Grass
  <2>1. UNCHANGED <<threadVars, mt>> /\ draw = "grass" /\ draw' \in {"grass", "visibles"}
    BY <1>4 DEF Grass, Drawing, DrawNext
  <2>2. CASE draw' = "visibles"
    BY <1>4, <2>1, <2>2, GrassRInv DEF Grass, DrawNext
  <2>3. CASE draw' = "grass"
    <3>1. Within
      BY <2>1, <2>3 DEF Within
    <3>2. DetEnter("main") \/ Fill("main", dwFrame)
      BY <1>4, <2>3 DEF Grass, DrawNext
    <3>. QED
      BY <1>1, <2>1, <3>1, <3>2, DetEnterRInv, FillRInv
  <2>. QED
    BY <2>1, <2>2, <2>3
<1>5. CASE DrawGrass
  <2>1. /\ UNCHANGED <<threadVars, mt, homVars, calculated, detLock, det>> /\ pc["main"] = "drawing"
        /\ \/ draw = "visibles" /\ draw' = "marking" /\ visibles' = {} /\ rendered' = rendered
           \/ draw = "marking" /\ draw' = "lit" /\ rendered' = dwFrame /\ visibles' = visibles
    BY <1>5 DEF DrawGrass, Drawing, DrawNext, DrawVisibles, MarkRendered
  <2>2. UNCHANGED <<enabled, raster, homFrame, homLock, hom, testing>>
    BY <2>1 DEF homVars
  <2>3. RTypes'
    BY <1>1, <2>1, <2>2 DEF RInv, RTypes, RenderTypeOK
  <2>4. InScene'
    BY <2>1, <2>2, SameRuns DEF RInv, InScene
  <2>5. Locks' /\ MapInv'
    BY <2>1, <2>2, SameRuns DEF RInv, Locks, MapInv
  <2>6. \A p \in Threads : det[p] # "filling"
    BY <2>1 DEF RInv, GrassInv
  <2>7. GrassInv'
    BY <1>1, <2>1, <2>6, SameRuns DEF RInv, RTypes, RenderTypeOK, GrassInv, GrassIsDue
  <2>. QED
    BY <2>3, <2>4, <2>5, <2>7 DEF RInv
<1>6. CASE BeginShadows
  <2>1. /\ UNCHANGED <<threadVars, mt, raster, homFrame, homLock, hom, testing, detVars>>
        /\ pc["main"] = "drawing" /\ draw = "lit" /\ draw' = "shadows" /\ enabled' = FALSE
    BY <1>6 DEF BeginShadows, Drawing, DrawNext, HomDisable
  <2>2. RTypes'
    BY <2>1 DEF RInv, RTypes, RenderTypeOK, detVars
  <2>3. InScene'
    BY <2>1, SameRuns DEF RInv, InScene, detVars
  <2>4. Locks'
    BY <2>1 DEF RInv, Locks, detVars
  <2>5. \A p \in Threads : ~testing[p]
    BY <2>1 DEF RInv, InScene, GrassInv
  <2>6. MapInv'
    BY <2>1, <2>5, SameRuns DEF RInv, MapInv
  <2>7. GrassInv'
    BY <2>1, SameRuns DEF RInv, GrassInv, GrassIsDue, detVars
  <2>. QED
    BY <2>2, <2>3, <2>4, <2>6, <2>7 DEF RInv
<1>7. CASE EndScene
  <2>1. /\ UNCHANGED <<renderVars, mt, sections, mustExit, frameVars, pit>> /\ hom["main"] = "idle"
        /\ draw \in {"idle", "shadows"} /\ draw' = "idle" /\ pc["main"] = "drawing"
        /\ pc' = [pc EXCEPT !["main"] = "drawn"]
    BY <1>7 DEF EndScene, EndDrawing, Goto
  <2>2. /\ UNCHANGED <<enabled, raster, homFrame, homLock, hom, testing, visibles, calculated,
                       rendered, detLock, det>>
        /\ seqParallel' = seqParallel /\ dwFrame' = dwFrame
    BY <2>1 DEF renderVars, homVars, detVars, frameVars
  <2>3. \A p \in Threads : \A t : Runs(p, t) <=> Runs(p, t)'
    BY <2>1, <2>2, <1>1 DEF Runs, AtTask, Task, IInv, TypeOK, MainStates
  <2>4. RTypes'
    BY <2>1, <2>2 DEF RInv, RTypes, RenderTypeOK
  <2>5. InScene'
    BY <1>1, <2>1, <2>2, <2>3 DEF RInv, InScene
  <2>6. Locks' /\ MapInv'
    BY <2>1, <2>2 DEF RInv, Locks, MapInv
  <2>7. GrassInv'
    BY <2>1, <2>2 DEF RInv, GrassInv, GrassIsDue
  <2>. QED
    BY <2>4, <2>5, <2>6, <2>7 DEF RInv
<1>. QED
  BY <1>2, <1>3, <1>4, <1>5, <1>6, <1>7 DEF DrawStep

\* Between two frames neither thread renders.
LEMMA NobodyRenders ==
    ASSUME IInv, RInv, pc["main"] = "message", NEW p \in Threads
    PROVE  hom[p] = "idle" /\ det[p] = "idle" /\ ~testing[p] /\ draw = "idle" /\ seqParallel = <<>>
<1>1. \A t : ~Runs(p, t)
  BY WhoRuns DEF Threads
<1>. QED
  BY <1>1 DEF RInv, InScene, IInv, Queue

LEMMA NewFrameRInv ==
    ASSUME IInv, RInv, pc["main"] = "message", UNCHANGED renderVars, draw' = draw,
           dwFrame' \in {dwFrame, dwFrame + 1}, mt' \in BOOLEAN,
           seqParallel' = <<>> \/ \E level \in Levels : seqParallel' = Batch(mt', level)
    PROVE  RInv'
<1>1. dwFrame \in Nat
  BY WhoRuns
<1>2. \A p \in Threads :
        hom[p] = "idle" /\ det[p] = "idle" /\ ~testing[p] /\ draw = "idle"
  BY NobodyRenders
<1>3. UNCHANGED <<enabled, raster, homFrame, homLock, hom, testing, visibles, calculated,
                  rendered, detLock, det>>
  BY DEF renderVars, homVars, detVars
<1>4. draw = "idle"
  BY <1>2 DEF Threads
<1>5. RTypes'
  BY <1>3 DEF RInv, RTypes, RenderTypeOK
<1>6. InScene'
  BY <1>2, <1>3, <1>4 DEF RInv, InScene
<1>7. Locks'
  BY <1>3 DEF RInv, Locks
<1>8. homFrame \in Nat /\ calculated \in Nat /\ rendered \in Nat
  BY DEF RInv, RTypes, RenderTypeOK
<1>9. MapInv'
  BY <1>1, <1>2, <1>3, <1>8 DEF RInv, MapInv
<1>10. GrassInv'
  BY <1>1, <1>2, <1>3, <1>4, <1>8 DEF RInv, GrassInv
<1>. QED
  BY <1>5, <1>6, <1>7, <1>9, <1>10 DEF RInv

LEMMA NextRInv == IInv /\ RInv /\ [Next]_vars => RInv'
<1>. SUFFICES ASSUME IInv, RInv, [Next]_vars PROVE RInv'
  OBVIOUS
<1>1. CASE UNCHANGED vars
  <2>1. Within /\ UNCHANGED threadVars /\ UNCHANGED renderVars
    BY <1>1 DEF vars, sceneVars, Within
  <2>2. /\ draw # "idle" => pc'["main"] = "drawing"
        /\ seqParallel' = <<>> \/ \E level \in Levels : seqParallel' = Batch(mt, level)
    BY <2>1, SameRuns DEF RInv, InScene
  <2>3. \A q \in Threads : /\ hom[q] # "idle" /\ ~testing[q] => Runs(q, "hom")'
                           /\ det[q] # "idle" /\ ~(q = "main" /\ draw = "grass")
                                => Runs(q, "details")'
    BY <2>1, SameRuns DEF RInv, InScene
  <2>. QED
    BY <2>1, <2>2, <2>3, SameRuns, ThreadsGoOn DEF Within
<1>2. ASSUME NEW level \in Levels, NEW calc \in BOOLEAN, NEW new \in Fired, Move(level, calc, new)
      PROVE  RInv'
  <2>1. FrameMove(Batch(calc, level)) /\ mt' = calc /\ UNCHANGED renderVars /\ draw' = draw
    BY <1>2 DEF Move
  <2>2. pc["main"] = "message" /\ dwFrame' = dwFrame + 1
    BY <2>1 DEF FrameMove
  <2>3. seqParallel = <<>> /\ Batch(calc, level) \in Seq(Tasks)
    BY <2>2, BatchesAssumption, BatchAssumption, NobodyRenders DEF Threads
  <2>4. seqParallel' = Batch(calc, level)
    BY <2>1, <2>3 DEF FrameMove
  <2>. QED
    BY <2>1, <2>2, <2>4, NewFrameRInv
<1>3. CASE LoadLevel
  <2>1. /\ pc["main"] = "message" /\ UNCHANGED <<renderVars, mt, draw, seqParallel>>
        /\ dwFrame' \in {dwFrame, dwFrame + 1}
    BY <1>3 DEF LoadLevel, Load, sceneVars
  <2>2. mt' \in BOOLEAN /\ (seqParallel' = <<>> \/ \E level \in Levels : seqParallel' = Batch(mt', level))
    BY <2>1 DEF RInv, RTypes, InScene
  <2>. QED
    BY <2>1, <2>2, NewFrameRInv
<1>4. CASE MainTurns \/ WorkerTurns
  BY <1>4, TurnRInv
<1>. QED
  BY <1>1, <1>2, <1>3, <1>4, DrawStepRInv, TaskStepRInv
     DEF Next, MainStep, WorkerStep, Threads

\* The threads and the renderer together.
THEOREM RenderInvariant == Spec => [](IInv /\ RInv)
<1>1. Spec => []IInv
  BY FrameThreadsInvariant, ParallelTasksRefineFrameThreads, PTL
<1>. QED
  BY <1>1, InitRInv, NextRInv, PTL DEF Spec

\* A box is compared with a map that is this frame's and complete, whichever
\* thread has drawn it, and although the primary thread disables the map and the
\* task enables it without the lock (HOM.cpp:17-22, 305-342).
THEOREM MapIsWhole == Spec => []TestsUseAWholeMap
<1>1. RInv => TestsUseAWholeMap
  BY DEF RInv, MapInv, TestsUseAWholeMap
<1>. QED
  BY <1>1, RenderInvariant, PTL

\* The lists of grass are filled when they are empty and nobody draws them
\* (DetailManager.cpp:355-372).
THEOREM GrassIsFilledOnceAlways == Spec => []GrassIsFilledOnce
<1>1. IInv /\ RInv => GrassIsFilledOnce
  <2>. SUFFICES ASSUME IInv, RInv, NEW p \in Threads, det[p] = "filling"
                PROVE  visibles = {} /\ calculated # dwFrame /\ draw \notin {"visibles", "marking"}
    BY DEF GrassIsFilledOnce
  <2>1. GrassIsDue(dwFrame)
    BY DEF RInv, GrassInv
  <2>2. rendered \in Nat /\ calculated \in Nat /\ dwFrame \in Nat
    BY WhoRuns DEF RInv, RTypes, RenderTypeOK
  <2>. QED
    BY <2>1, <2>2 DEF RInv, GrassInv, GrassIsDue
<1>. QED
  BY <1>1, RenderInvariant, PTL

\* If the last frame's grass was drawn, this frame's is, too (MT_SYNC).
THEOREM GrassIsCurrentAlways == Spec => []GrassIsCurrent
<1>1. IInv /\ RInv => GrassIsCurrent
  <2>. SUFFICES ASSUME IInv, RInv, draw = "visibles", rendered + 1 = dwFrame
                PROVE  visibles = {dwFrame}
    BY DEF GrassIsCurrent
  <2>1. rendered \in Nat /\ calculated \in Nat /\ dwFrame \in Nat
    BY WhoRuns DEF RInv, RTypes, RenderTypeOK
  <2>. QED
    BY <2>1 DEF RInv, GrassInv, GrassIsDue
<1>. QED
  BY <1>1, RenderInvariant, PTL

-----------------------------------------------------------------------------
(* The removals of bullets.                                                 *)

\* A set of natural numbers has a least element: induction without an operator.
LEMMA LeastNumber ==
    ASSUME NEW T \in SUBSET Nat, T # {}
    PROVE  \E m \in T : \A k \in T : m <= k
<1>. DEFINE R == OpToRel(<, Nat)
<1>1. IsWellFoundedOn(R, Nat)
  BY NatLessThanWellFounded, Zenon
<1>2. \A k, m \in Nat : k < m => <<k, m>> \in R
  BY Zenon DEF OpToRel
<1>. HIDE DEF R
<1>3. PICK m \in T : \A k \in T : ~(<<k, m>> \in R)
  BY <1>1, WFMin
<1>4. \A k \in T : ~(k < m) /\ k \in Nat /\ m \in Nat
  BY <1>2, <1>3
<1>. QED
  BY <1>4

\* No bullet is twice in the list.
Differ(s) == \A i, j \in 1..Len(s) : s[i] = s[j] => i = j

\* Remove takes one bullet, and moves only what is behind it.
LEMMA RemoveOne ==
    ASSUME NEW s \in Seq(Bullets), Differ(s), NEW i \in Nat, i < Len(s)
    PROVE  /\ Remove(s, i) \in Seq(Bullets)
           /\ Len(Remove(s, i)) = Len(s) - 1
           /\ Differ(Remove(s, i))
           /\ Range(Remove(s, i)) = Range(s) \ {s[i + 1]}
           /\ \A k \in 1..i : Remove(s, i)[k] = s[k]
<1>. DEFINE n == Len(s)
            r == Remove(s, i)
<1>1. n \in Nat /\ n >= 1 /\ i + 1 \in 1..n /\ (\A k \in 1..n : s[k] \in Bullets) /\ DOMAIN s = 1..n
  BY LenProperties, ElementOfSeq
<1>2. \A k \in 1..(n - 1) : r[k] = (IF k = i + 1 THEN s[n] ELSE s[k])
  BY DEF Remove
<1>3. r \in [1..(n - 1) -> Bullets]
  BY <1>1 DEF Remove
<1>4. r \in Seq(Bullets)
  BY <1>1, <1>3, SeqDef
<1>. HIDE DEF r, n
<1>5. Len(r) = n - 1 /\ DOMAIN r = 1..(n - 1)
  <2>1. DOMAIN r = 1..(n - 1) /\ n - 1 \in Nat
    BY <1>1, <1>3
  <2>2. Len(r) \in Nat /\ DOMAIN r = 1..Len(r)
    BY <1>4, LenProperties
  <2>. QED  BY <2>1, <2>2
<1>0. \A j, k \in 1..n : s[j] = s[k] => j = k
  BY DEF Differ, n
<1>6. Differ(r)
  <2>. SUFFICES ASSUME NEW j \in 1..(n - 1), NEW k \in 1..(n - 1), r[j] = r[k] PROVE j = k
    BY <1>5 DEF Differ
  <2>1. j \in 1..n /\ k \in 1..n /\ n \in 1..n /\ j # n /\ k # n
    BY <1>1
  <2>2. r[j] = (IF j = i + 1 THEN s[n] ELSE s[j]) /\ r[k] = (IF k = i + 1 THEN s[n] ELSE s[k])
    BY <1>2
  <2>. QED
    BY <1>0, <2>1, <2>2
<1>7. Range(r) = Range(s) \ {s[i + 1]}
  <2>1. ASSUME NEW k \in 1..(n - 1) PROVE r[k] \in Range(s) \ {s[i + 1]}
    <3>1. k \in 1..n /\ n \in 1..n /\ k # n
      BY <1>1
    <3>2. \A j \in 1..n : s[j] = s[i + 1] => j = i + 1
      BY <1>0, <1>1
    <3>. QED
      BY <1>1, <1>2, <3>1, <3>2 DEF Range
  <2>2. ASSUME NEW k \in 1..n, k # i + 1 PROVE s[k] \in Range(r)
    <3>1. CASE k = n
      <4>1. i + 1 \in 1..(n - 1) /\ r[i + 1] = s[n]
        BY <1>1, <1>2, <2>2, <3>1
      <4>. QED  BY <4>1, <3>1, <1>5 DEF Range
    <3>2. CASE k # n
      <4>1. k \in 1..(n - 1) /\ r[k] = s[k]
        BY <1>1, <1>2, <2>2, <3>2
      <4>. QED  BY <4>1, <1>5 DEF Range
    <3>. QED  BY <3>1, <3>2
  <2>3. Range(r) \subseteq Range(s) \ {s[i + 1]}
    BY <2>1, <1>5 DEF Range
  <2>4. Range(s) \ {s[i + 1]} \subseteq Range(r)
    <3>1. \A y \in Range(s) \ {s[i + 1]} : \E k \in 1..n : y = s[k] /\ k # i + 1
      BY <1>1 DEF Range
    <3>. QED  BY <3>1, <2>2
  <2>. QED  BY <2>3, <2>4
<1>8. \A k \in 1..i : r[k] = s[k]
  <2>. SUFFICES ASSUME NEW k \in 1..i PROVE r[k] = s[k]
    OBVIOUS
  <2>1. k \in 1..(n - 1) /\ k # i + 1
    BY <1>1
  <2>. QED  BY <2>1, <1>2
<1>. QED
  BY <1>4, <1>5, <1>6, <1>7, <1>8 DEF r, n

\* Each removal is of a bullet in the list, and of one in front of the last.
RemovalsFit ==
    /\ \A k \in 1..Len(events) :
           /\ cursor <= events[k].index /\ events[k].index < Len(bullets)
           /\ events[k].bullet = bullets[events[k].index + 1]
    /\ \A j, k \in 1..Len(events) : j < k => events[k].index < events[j].index

\* What the first n removals leave.
IsAfter(s, n) ==
    /\ s \in Seq(Bullets) /\ Differ(s)
    /\ Len(s) = Len(bullets) - n
    /\ Range(s) = Range(bullets) \ {events[k].bullet : k \in 1..n}
    /\ \A k \in 1..Len(bullets) :
           n = 0 \/ k <= events[n].index => k <= Len(s) /\ s[k] = bullets[k]

\* The bullets after each of the first n removals, as CommitEvents goes on.
IsHistory(f, n) ==
    f = [k \in 0..n |-> IF k = 0 THEN bullets ELSE Remove(f[k - 1], events[k].index)]

LEMMA HistoryExists == \A n \in Nat : \E f : IsHistory(f, n)
<1>. DEFINE T == {n \in Nat : ~ \E f : IsHistory(f, n)}
<1>. SUFFICES ASSUME T # {} PROVE FALSE
  OBVIOUS
<1>1. PICK n \in T : \A k \in T : n <= k
  BY LeastNumber
<1>2. n \in Nat /\ ~ \E f : IsHistory(f, n)
  BY <1>1
<1>3. CASE n = 0
  <2>1. IsHistory([k \in 0..0 |-> bullets], 0)
    BY DEF IsHistory
  <2>. QED  BY <2>1, <1>2, <1>3
<1>4. CASE n # 0
  <2>1. n - 1 \in Nat /\ n - 1 \notin T
    BY <1>1, <1>2, <1>4
  <2>2. PICK g : IsHistory(g, n - 1)
    BY <2>1
  <2>. DEFINE f == [k \in 0..n |-> IF k = n THEN Remove(g[n - 1], events[n].index) ELSE g[k]]
  <2>3. \A k \in 0..(n - 1) : g[k] = IF k = 0 THEN bullets ELSE Remove(g[k - 1], events[k].index)
    BY <2>2 DEF IsHistory
  <2>4. \A k \in 0..n : f[k] = IF k = 0 THEN bullets ELSE Remove(f[k - 1], events[k].index)
    <3>. SUFFICES ASSUME NEW k \in 0..n
                  PROVE  f[k] = IF k = 0 THEN bullets ELSE Remove(f[k - 1], events[k].index)
      OBVIOUS
    <3>1. CASE k = n
      <4>1. n - 1 \in 0..n /\ n - 1 # n /\ f[n - 1] = g[n - 1]
        BY <1>2, <1>4
      <4>2. f[n] = Remove(g[n - 1], events[n].index)
        BY <1>2
      <4>. QED  BY <3>1, <4>1, <4>2, <1>4
    <3>2. CASE k # n
      <4>1. k \in 0..(n - 1) /\ f[k] = g[k]
        BY <1>2, <3>2
      <4>2. k # 0 => k - 1 \in 0..n /\ k - 1 # n /\ f[k - 1] = g[k - 1]
        BY <1>2, <4>1
      <4>. HIDE DEF f
      <4>. QED  BY <2>3, <4>1, <4>2
    <3>. QED  BY <3>1, <3>2
  <2>5. IsHistory(f, n)
    <3>. DEFINE h == [k \in 0..n |-> IF k = 0 THEN bullets ELSE Remove(f[k - 1], events[k].index)]
    <3>1. \A k \in 0..n : f[k] = h[k]
      BY <2>4
    <3>2. f = [k \in 0..n |-> f[k]] /\ h = [k \in 0..n |-> h[k]]
      OBVIOUS
    <3>. HIDE DEF f
    <3>3. f = h
      BY <3>1, <3>2
    <3>. QED  BY <3>3 DEF IsHistory
  <2>. QED  BY <2>5, <1>2
<1>. QED  BY <1>3, <1>4

LEMMA HistoryIs ==
    ASSUME BulletTypeOK, Differ(bullets), RemovalsFit, NEW n \in 0..Len(events),
           NEW f, IsHistory(f, n)
    PROVE  \A k \in 0..n : IsAfter(f[k], k)
<1>. DEFINE T == {k \in 0..n : ~IsAfter(f[k], k)}
<1>0. /\ bullets \in Seq(Bullets) /\ Len(bullets) \in Nat
      /\ events \in Seq([index : Nat, bullet : Bullets]) /\ Len(events) \in Nat
      /\ \A k \in 1..Len(events) : events[k].index \in Nat
  <2>1. bullets \in Seq(Bullets) /\ events \in Seq([index : Nat, bullet : Bullets])
    BY DEF BulletTypeOK
  <2>2. Len(bullets) \in Nat /\ Len(events) \in Nat
    BY <2>1, LenProperties
  <2>3. \A k \in 1..Len(events) : events[k] \in [index : Nat, bullet : Bullets]
    BY <2>1, ElementOfSeq
  <2>. QED  BY <2>1, <2>2, <2>3
<1>. SUFFICES ASSUME T # {} PROVE FALSE
  OBVIOUS
<1>1. PICK m \in T : \A k \in T : m <= k
  <2>1. T \in SUBSET Nat
    OBVIOUS
  <2>. HIDE DEF T
  <2>. QED  BY <2>1, LeastNumber
<1>2. m \in 0..n /\ ~IsAfter(f[m], m)
  BY <1>1
<1>3. \A k \in 0..n : f[k] = IF k = 0 THEN bullets ELSE Remove(f[k - 1], events[k].index)
  BY DEF IsHistory
<1>4. CASE m = 0
  <2>1. f[0] = bullets
    BY <1>2, <1>3, <1>4
  <2>2. {events[k].bullet : k \in 1..0} = {}
    OBVIOUS
  <2>3. IsAfter(bullets, 0)
    BY <1>0, <2>2 DEF IsAfter
  <2>. QED  BY <1>2, <1>4, <2>1, <2>3
<1>5. CASE m # 0
  <2>. DEFINE s == f[m - 1]
              i == events[m].index
  <2>1. m - 1 \in 0..n /\ m - 1 \notin T
    BY <1>1, <1>2, <1>5
  <2>2. IsAfter(s, m - 1)
    BY <2>1
  <2>3. m \in 1..Len(events) /\ i \in Nat /\ i < Len(bullets)
        /\ events[m].bullet = bullets[i + 1]
    BY <1>0, <1>2, <1>5 DEF RemovalsFit
  <2>4. m - 1 = 0 \/ i + 1 <= events[m - 1].index
    <3>1. m - 1 # 0 => m - 1 \in 1..Len(events) /\ m - 1 < m
      BY <2>3
    <3>2. m - 1 # 0 => events[m].index < events[m - 1].index
      BY <3>1, <2>3 DEF RemovalsFit
    <3>3. m - 1 # 0 => events[m - 1].index \in Nat /\ events[m].index \in Nat
      BY <3>1, <2>3, <1>0
    <3>4. CASE m - 1 # 0
      <4>. DEFINE a == events[m].index
                  b == events[m - 1].index
      <4>1. a \in Nat /\ b \in Nat /\ a < b
        BY <3>2, <3>3, <3>4
      <4>. HIDE DEF a, b
      <4>2. a + 1 <= b
        BY <4>1
      <4>. QED  BY <4>2 DEF a, b
    <3>. QED  BY <3>4
  <2>. DEFINE r == Remove(s, i)
  <2>. HIDE DEF s, i
  <2>5. i < Len(s) /\ s[i + 1] = bullets[i + 1]
    <3>1. i + 1 \in 1..Len(bullets)
      BY <2>3, <1>0
    <3>2. i + 1 <= Len(s) /\ s[i + 1] = bullets[i + 1]
      BY <2>2, <2>4, <3>1 DEF IsAfter
    <3>3. Len(s) \in Nat
      BY <2>2, LenProperties DEF IsAfter
    <3>. QED  BY <3>2, <3>3, <2>3
  <2>6. /\ r \in Seq(Bullets) /\ Differ(r)
        /\ Len(r) = Len(s) - 1
        /\ Range(r) = Range(s) \ {s[i + 1]}
        /\ \A k \in 1..i : r[k] = s[k]
    BY <2>2, <2>3, <2>5, RemoveOne DEF IsAfter
  <2>. HIDE DEF r
  <2>7. Len(r) = Len(bullets) - m /\ Len(r) \in Nat
    <3>1. Len(s) = Len(bullets) - (m - 1)
      BY <2>2 DEF IsAfter
    <3>. QED  BY <3>1, <2>6, <2>3, <1>0, LenProperties
  <2>8. Range(r) = Range(bullets) \ {events[k].bullet : k \in 1..m}
    <3>1. Range(s) = Range(bullets) \ {events[k].bullet : k \in 1..(m - 1)}
      BY <2>2 DEF IsAfter
    <3>2. {events[k].bullet : k \in 1..m} = {events[k].bullet : k \in 1..(m - 1)} \cup {events[m].bullet}
      <4>1. 1..m = 1..(m - 1) \cup {m}
        <5>1. m \in Nat /\ m >= 1
          BY <2>3, <1>0
        <5>2. \A k : k \in 1..m <=> k \in 1..(m - 1) \/ k = m
          BY <5>1
        <5>. QED  BY <5>2
      <4>. QED  BY <4>1
    <3>. QED  BY <3>1, <3>2, <2>3, <2>5, <2>6
  <2>9. ASSUME NEW k \in 1..Len(bullets), k <= i
        PROVE  k <= Len(r) /\ r[k] = bullets[k]
    <3>1. k \in 1..i
      BY <2>3, <2>9
    <3>2. m - 1 = 0 \/ k <= events[m - 1].index
      <4>1. m - 1 # 0 => events[m - 1].index \in Nat
        BY <2>3, <1>0
      <4>. QED  BY <3>1, <2>3, <2>4, <4>1
    <3>3. s[k] = bullets[k]
      BY <2>2, <3>2 DEF IsAfter
    <3>4. k <= Len(r)
      <4>1. Len(s) \in Nat
        BY <2>2, LenProperties DEF IsAfter
      <4>. QED  BY <4>1, <3>1, <2>5, <2>6, <2>3
    <3>. QED  BY <2>6, <3>1, <3>3, <3>4
  <2>10. IsAfter(r, m)
    BY <2>6, <2>7, <2>8, <2>9, <1>5 DEF IsAfter, i
  <2>11. f[m] = r
    BY <1>2, <1>3, <1>5 DEF r, s, i
  <2>. QED  BY <2>10, <2>11, <1>2
<1>. QED  BY <1>4, <1>5

LEMMA CommittedIs ==
    ASSUME BulletTypeOK, Differ(bullets), RemovalsFit, NEW n \in 0..Len(events)
    PROVE  IsAfter(Committed(n), n)
<1>. DEFINE f == CHOOSE f : IsHistory(f, n)
<1>1. n \in Nat
  BY LenProperties DEF BulletTypeOK
<1>2. IsHistory(f, n)
  BY <1>1, HistoryExists
<1>3. Committed(n) = f[n]
  BY DEF Committed, IsHistory
<1>4. n \in 0..n
  BY <1>1
<1>. HIDE DEF f
<1>5. IsAfter(f[n], n)
  BY <1>2, <1>4, HistoryIs
<1>. QED  BY <1>3, <1>5

-----------------------------------------------------------------------------
(* The task of the bullets runs once in a frame.                            *)

\* The removals are of different bullets in the list, registered from the last
\* to the first; each is behind the bullets that are still to be looked at.
BulletsKept == BulletTypeOK /\ Differ(bullets) /\ RemovalsFit /\ (~updating => cursor = 0)

\* Where UpdateWorkload is, and that once it has registered a removal it is not
\* started again before the next frame.
WorkloadOnce ==
    /\ updating => \E p \in Threads : Runs(p, "bullets")
    /\ ~updating /\ events # <<>> =>
         /\ ~Untouched
         /\ \A p \in Threads : pc[p] = "tasks" =>
              \A j \in 1..Len(seqParallel) : pit[p] < j => seqParallel[j] # "bullets"

BulletsInv == BulletsKept /\ WorkloadOnce

\* UpdateWorkload is queued once in a frame.
LEMMA QueuedOnce ==
    ASSUME InScene, NEW i \in 1..Len(seqParallel), NEW j \in 1..Len(seqParallel),
           seqParallel[i] = "bullets", seqParallel[j] = "bullets"
    PROVE  i = j
<1>1. seqParallel \in {<<>>, <<"hom", "details">>, <<"map", "bullets", "sound">>,
                       <<"hom", "details", "map", "bullets", "sound">>}
  <2>1. CASE seqParallel = <<>>
    BY <2>1
  <2>2. ASSUME NEW level \in Levels, seqParallel = Batch(mt, level)
        PROVE  seqParallel \in {<<>>, <<"hom", "details">>, <<"map", "bullets", "sound">>,
                                <<"hom", "details", "map", "bullets", "sound">>}
    <3>1. /\ <<"hom", "details">> \o <<>> = <<"hom", "details">>
          /\ <<>> \o <<"map", "bullets", "sound">> = <<"map", "bullets", "sound">>
          /\ <<>> \o <<>> = <<>>
      <4>1. <<"hom", "details">> \o <<>> = <<"hom", "details">>
        OBVIOUS
      <4>2. <<>> \o <<"map", "bullets", "sound">> = <<"map", "bullets", "sound">>
        OBVIOUS
      <4>3. <<>> \o <<>> = <<>>
        OBVIOUS
      <4>. QED  BY <4>1, <4>2, <4>3
    <3>4. <<"hom", "details">> \o <<"map", "bullets", "sound">>
            = <<"hom", "details", "map", "bullets", "sound">>
      <4>. DEFINE S == {"hom", "details", "map", "bullets", "sound"}
                  a == <<"hom", "details">>
                  b == <<"map", "bullets", "sound">>
                  c == <<"hom", "details", "map", "bullets", "sound">>
      <4>1. a \in Seq(S) /\ Len(a) = 2 /\ a[1] = "hom" /\ a[2] = "details"
        OBVIOUS
      <4>2. b \in Seq(S) /\ Len(b) = 3 /\ b[1] = "map" /\ b[2] = "bullets" /\ b[3] = "sound"
        OBVIOUS
      <4>5. c \in Seq(S) /\ Len(c) = 5 /\ c[1] = "hom" /\ c[2] = "details" /\ c[3] = "map"
            /\ c[4] = "bullets" /\ c[5] = "sound"
        OBVIOUS
      <4>. HIDE DEF S, a, b, c
      <4>6. /\ a \o b \in Seq(S) /\ Len(a \o b) = Len(a) + Len(b)
            /\ \A k \in 1..(Len(a) + Len(b)) : (a \o b)[k] = IF k <= Len(a) THEN a[k] ELSE b[k - Len(a)]
        BY <4>1, <4>2, ConcatProperties
      <4>7. /\ Len(a \o b) = 5
            /\ \A k \in 1..5 : (a \o b)[k] = IF k <= 2 THEN a[k] ELSE b[k - 2]
        BY <4>1, <4>2, <4>6
      <4>3. ASSUME NEW k \in 1..5 PROVE (a \o b)[k] = c[k]
        <5>1. k = 1 \/ k = 2 \/ k = 3 \/ k = 4 \/ k = 5
          OBVIOUS
        <5>2. CASE k = 1 \/ k = 2
          BY <4>1, <4>5, <4>7, <5>2
        <5>3. CASE k = 3 \/ k = 4 \/ k = 5
          BY <4>2, <4>5, <4>7, <5>3
        <5>. QED  BY <5>1, <5>2, <5>3
      <4>4. a \o b = c
        BY <4>3, <4>5, <4>6, <4>7, SeqEqual
      <4>. QED  BY <4>4 DEF a, b, c
    <3>2. CASE mt
      BY <2>2, <3>1, <3>2, <3>4 DEF Batch
    <3>3. CASE ~mt
      BY <2>2, <3>1, <3>3 DEF Batch
    <3>. QED  BY <3>2, <3>3
  <2>. QED  BY <2>1, <2>2 DEF InScene
<1>2. CASE seqParallel = <<>>
  BY <1>2
<1>3. CASE seqParallel = <<"hom", "details">>
  BY <1>3
<1>4. CASE seqParallel = <<"map", "bullets", "sound">>
  BY <1>4
<1>5. CASE seqParallel = <<"hom", "details", "map", "bullets", "sound">>
  BY <1>5
<1>. QED
  BY <1>1, <1>2, <1>3, <1>4, <1>5

\* A step that leaves the bullets alone.
LEMMA BulletsGoOn ==
    ASSUME BulletsInv, UNCHANGED bulletVars,
           updating => \E p \in Threads : Runs(p, "bullets")',
           ~Untouched => ~Untouched',
           ~updating /\ events # <<>> =>
               \A p \in Threads : pc'[p] = "tasks" =>
                 \A j \in 1..Len(seqParallel') : pit'[p] < j => seqParallel'[j] # "bullets"
    PROVE  BulletsInv'
<1>1. UNCHANGED <<bullets, events, updating, cursor>>
  BY DEF bulletVars
<1>2. BulletsKept'
  BY <1>1 DEF BulletsInv, BulletsKept, BulletTypeOK, Differ, RemovalsFit
<1>3. WorkloadOnce'
  BY <1>1 DEF BulletsInv, WorkloadOnce
<1>. QED
  BY <1>2, <1>3 DEF BulletsInv

\* The threads stand still.
LEMMA StillBullets ==
    ASSUME BulletsInv, UNCHANGED bulletVars, UNCHANGED threadVars
    PROVE  BulletsInv'
<1>1. UNCHANGED <<pc, pit, seqParallel, marker, dwFrame>>
  BY DEF threadVars, frameVars
<1>2. \A p \in Threads : Runs(p, "bullets")' <=> Runs(p, "bullets")
  BY SameRuns
<1>3. Untouched' <=> Untouched
  BY <1>1 DEF Untouched
<1>4. updating => \E p \in Threads : Runs(p, "bullets")'
  BY <1>2 DEF BulletsInv, WorkloadOnce
<1>5. ~updating /\ events # <<>> =>
        \A p \in Threads : pc'[p] = "tasks" =>
          \A j \in 1..Len(seqParallel') : pit'[p] < j => seqParallel'[j] # "bullets"
  BY <1>1 DEF BulletsInv, WorkloadOnce
<1>. QED
  BY <1>3, <1>4, <1>5, BulletsGoOn

\* Another task ends.
LEMMA NextTaskBullets ==
    ASSUME IInv, BulletsInv, NEW p \in Threads, RunTask(p), ~Runs(p, "bullets"),
           UNCHANGED bulletVars
    PROVE  BulletsInv'
<1>1. /\ UNCHANGED <<pc, seqParallel, marker, dwFrame>>
      /\ \A q \in Threads : pit'[q] = IF q = p THEN pit[q] + 1 ELSE pit[q]
      /\ \A q \in Threads : pit[q] \in Nat
  BY DEF RunTask, frameVars, IInv, TypeOK
<1>2. \A q \in Threads : Runs(q, "bullets") => Runs(q, "bullets")'
  BY <1>1 DEF Runs, AtTask, Task
<1>3. Untouched' <=> Untouched
  BY <1>1 DEF Untouched
<1>4. updating => \E q \in Threads : Runs(q, "bullets")'
  BY <1>2 DEF BulletsInv, WorkloadOnce
<1>5. Len(seqParallel) \in Nat
  BY QueueIsSeq DEF IInv
<1>6. ASSUME NEW q \in Threads, pc[q] = "tasks", NEW j \in 1..Len(seqParallel),
             pit'[q] < j, ~updating, events # <<>>
      PROVE  seqParallel[j] # "bullets"
  <2>1. pit[q] < j
    BY <1>1, <1>5, <1>6
  <2>. QED
    BY <1>6, <2>1 DEF BulletsInv, WorkloadOnce
<1>7. ~updating /\ events # <<>> =>
        \A q \in Threads : pc'[q] = "tasks" =>
          \A j \in 1..Len(seqParallel') : pit'[q] < j => seqParallel'[j] # "bullets"
  BY <1>1, <1>6
<1>. QED
  BY <1>3, <1>4, <1>7, BulletsGoOn

\* The steps of the hand-over: a thread begins the tasks of a frame that nobody
\* has touched.
LEMMA TurnBullets ==
    ASSUME IInv, BulletsInv, MainTurns \/ WorkerTurns
    PROVE  BulletsInv'
<1>1. /\ UNCHANGED bulletVars
      /\ \/ MainHandsOver \/ MainStops \/ WorkerHandsOver \/ WorkerStops
         \/ \E p \in Threads : ClearTasks(p) \/ ProcessFrameMT(p)
  BY DEF MainTurns, WorkerTurns, Turn, MainHandsOver, Threads
<1>. DEFINE Later(p) == pc[p] = "tasks" =>
                 \A j \in 1..Len(seqParallel) : pit[p] < j => seqParallel[j] # "bullets"
            Good == /\ \A p \in Threads : Runs(p, "bullets") => Runs(p, "bullets")'
                    /\ ~Untouched => ~Untouched'
                    /\ ~Untouched => \A p \in Threads : Later(p) => Later(p)'
<1>. SUFFICES Good
  <2>1. updating => \E p \in Threads : Runs(p, "bullets")'
    BY DEF BulletsInv, WorkloadOnce
  <2>2. ~updating /\ events # <<>> => \A p \in Threads : Later(p)'
    BY DEF BulletsInv, WorkloadOnce
  <2>3. ~updating /\ events # <<>> =>
        \A p \in Threads : pc'[p] = "tasks" =>
          \A j \in 1..Len(seqParallel') : pit'[p] < j => seqParallel'[j] # "bullets"
    BY <2>2
  <2>. QED
    BY <1>1, <2>1, <2>3, BulletsGoOn
<1>2. "main" \in Threads /\ "worker" \in Threads
  BY DEF Threads
<1>3. CASE MainHandsOver \/ MainStops \/ WorkerStops \/ Enter \/ Signal \/ Await \/ Pass
  BY <1>2, <1>3 DEF MainHandsOver, MainStops, WorkerStops, CaptureEnd, ReleaseStart, EndDrawing,
     CaptureStart, ReleaseEnd, Compare, Quit, ReleaseStartForEver, Return, Acknowledge, Exit,
     Enter, Signal, Await, Pass, Goto, frameVars, IInv, TypeOK, Threads, Runs, AtTask, Task, Untouched
<1>4. CASE Begin
  <2>1. pc["main"] \in {"drawing", "drawn"} /\ marker # dwFrame
    BY <1>4 DEF Begin, IInv, TypeOK, Ownership, Marking, Ending, MainStates
  <2>2. Untouched
    BY <2>1 DEF Untouched
  <2>3. marker' = dwFrame' /\ pc'["main"] = pc["main"] /\ pit'["main"] = pit["main"] /\ seqParallel' = seqParallel
    BY <1>4 DEF Begin, Goto, IInv, TypeOK, Threads
  <2>4. \A p \in Threads : ~Runs(p, "bullets")
    BY <1>4, <2>1 DEF Begin, Runs, AtTask, Threads
  <2>. QED
    BY <2>2, <2>3, <2>4 DEF Untouched
<1>5. ASSUME NEW p \in Threads, ClearTasks(p) \/ ProcessFrameMT(p) PROVE Good
  <2>1. /\ pc["main"] \in {"tasks", "frameMT"} => pc["worker"] \notin {"tasks", "frameMT"}
        /\ \A q \in Threads : pc[q] = "tasks" => pit[q] \in Nat /\ Len(seqParallel) \in Nat
    BY QueueIsSeq DEF IInv, Marking, TypeOK
  <2>2. \A q \in Threads : ~Runs(q, "bullets")
    BY <1>5, <2>1 DEF ClearTasks, ProcessFrameMT, Runs, AtTask, Threads
  <2>3. UNCHANGED <<marker, dwFrame, pit>>
    BY <1>5 DEF ClearTasks, ProcessFrameMT, frameVars
  <2>4. /\ \A q \in Threads : pc'[q] = "tasks" => pc[q] = "tasks"
        /\ pc'["main"] # pc["main"] => pc'["main"] \in {"frameMT", "message"}
    BY <1>5 DEF ClearTasks, ProcessFrameMT, Goto, Threads, IInv, TypeOK
  <2>5. seqParallel' = seqParallel \/ \A q \in Threads : pc'[q] # "tasks"
    BY <1>5, <2>1 DEF ClearTasks, ProcessFrameMT, frameVars, Goto, Threads, IInv, TypeOK
  <2>6. ~Untouched => ~Untouched'
    BY <2>3, <2>4 DEF Untouched
  <2>. QED
    BY <2>2, <2>3, <2>4, <2>5, <2>6
<1>. QED
  BY <1>1, <1>3, <1>4, <1>5 DEF WorkerHandsOver

\* UpdateWorkload starts, looks at a bullet, ends, or returns at once.
LEMMA BulletTaskBullets ==
    ASSUME IInv, RInv, BulletsInv, NEW p \in Threads, BulletTask(p)
    PROVE  BulletsInv'
<1>0. /\ Runs(p, "bullets") /\ pc[p] = "tasks" /\ pit[p] \in Nat
      /\ pit[p] + 1 \in 1..Len(seqParallel) /\ seqParallel[pit[p] + 1] = "bullets"
      /\ ~Untouched
      /\ \A q \in Threads : q # p => pc[q] # "tasks"
  <2>1. Len(seqParallel) \in Nat /\ pit[p] \in Nat
    BY QueueIsSeq DEF IInv, TypeOK
  <2>2. /\ pc["main"] \in {"tasks", "frameMT"} => pc["worker"] \notin {"tasks", "frameMT"}
        /\ pc["worker"] = "tasks" => marker = dwFrame
    BY DEF IInv, Marking
  <2>3. Runs(p, "bullets") /\ pc[p] = "tasks" /\ pit[p] < Len(seqParallel)
        /\ seqParallel[pit[p] + 1] = "bullets"
    BY DEF BulletTask, Runs, AtTask, Task
  <2>. QED
    BY <2>1, <2>2, <2>3 DEF Untouched, Threads
<1>t. /\ bullets \in Seq(Bullets) /\ Len(bullets) \in Nat
      /\ events \in Seq([index : Nat, bullet : Bullets]) /\ Len(events) \in Nat
      /\ cursor \in 0..Len(bullets)
      /\ \A k \in 1..Len(events) : events[k].index \in Nat
  <2>1. bullets \in Seq(Bullets) /\ events \in Seq([index : Nat, bullet : Bullets])
        /\ cursor \in 0..Len(bullets)
    BY DEF BulletsInv, BulletsKept, BulletTypeOK
  <2>2. Len(bullets) \in Nat /\ Len(events) \in Nat
    BY <2>1, LenProperties
  <2>3. \A k \in 1..Len(events) : events[k] \in [index : Nat, bullet : Bullets]
    BY <2>1, ElementOfSeq
  <2>. QED  BY <2>1, <2>2, <2>3
<1>1. CASE BeginUpdate /\ UNCHANGED threadVars
  <2>1. ~updating /\ updating' = TRUE /\ cursor' = Len(bullets) /\ UNCHANGED <<bullets, events>>
    BY <1>1 DEF BeginUpdate
  <2>2. events = <<>>
    BY <1>0, <2>1 DEF BulletsInv, WorkloadOnce
  <2>3. BulletsKept'
    BY <1>t, <2>1, <2>2 DEF BulletsInv, BulletsKept, BulletTypeOK, Differ, RemovalsFit
  <2>4. WorkloadOnce'
    BY <1>0, <1>1, <2>1, SameRuns DEF WorkloadOnce
  <2>. QED  BY <2>3, <2>4 DEF BulletsInv
<1>2. ASSUME NEW survives \in BOOLEAN, UpdateBullet(survives), UNCHANGED threadVars
      PROVE  BulletsInv'
  <2>1. updating /\ cursor > 0 /\ cursor' = cursor - 1 /\ UNCHANGED <<bullets, updating>>
    BY <1>2 DEF UpdateBullet
  <2>2. WorkloadOnce'
    BY <1>0, <1>2, <2>1, SameRuns DEF WorkloadOnce
  <2>3. cursor' \in 0..Len(bullets) /\ cursor \in 1..Len(bullets) /\ cursor - 1 \in Nat
    BY <1>t, <2>1
  <2>4. bullets[cursor] \in Bullets
    BY <1>t, <2>3, ElementOfSeq
  <2>5. CASE events' = events
    <3>1. RemovalsFit'
      <4>1. \A k \in 1..Len(events) : cursor <= events[k].index => cursor' <= events[k].index
        BY <1>t, <2>1
      <4>. QED  BY <2>1, <2>5, <4>1 DEF BulletsInv, BulletsKept, RemovalsFit
    <3>2. BulletsKept'
      BY <2>1, <2>3, <2>5, <3>1 DEF BulletsInv, BulletsKept, BulletTypeOK, Differ
    <3>. QED  BY <2>2, <3>2 DEF BulletsInv
  <2>6. CASE events' = Append(events, [index |-> cursor - 1, bullet |-> bullets[cursor]])
    <3>. DEFINE ev == [index |-> cursor - 1, bullet |-> bullets[cursor]]
                n == Len(events)
    <3>1. ev \in [index : Nat, bullet : Bullets]
      BY <2>3, <2>4
    <3>2. /\ events' \in Seq([index : Nat, bullet : Bullets])
          /\ Len(events') = n + 1
          /\ \A k \in 1..n : events'[k] = events[k]
          /\ events'[n + 1] = ev
      <4>. HIDE DEF ev
      <4>1. events' = Append(events, ev)
        BY <2>6 DEF ev
      <4>. QED  BY <1>t, <3>1, <4>1, AppendProperties
    <3>3. ev.index = cursor - 1 /\ ev.bullet = bullets[cursor]
      OBVIOUS
    <3>. HIDE DEF ev, n
    <3>4. \A k \in 1..n : /\ cursor <= events[k].index /\ events[k].index < Len(bullets)
                          /\ events[k].bullet = bullets[events[k].index + 1]
                          /\ events[k].index \in Nat
      BY <1>t DEF BulletsInv, BulletsKept, RemovalsFit, n
    <3>5. \A j, k \in 1..n : j < k => events[k].index < events[j].index
      BY DEF BulletsInv, BulletsKept, RemovalsFit, n
    <3>6. n \in Nat
      BY <1>t DEF n
    <3>7. ASSUME NEW k \in 1..(n + 1)
          PROVE  /\ cursor' <= events'[k].index /\ events'[k].index < Len(bullets')
                 /\ events'[k].bullet = bullets'[events'[k].index + 1]
      <4>1. CASE k \in 1..n
        BY <1>t, <2>1, <3>2, <3>4, <4>1
      <4>2. CASE k = n + 1
        <5>1. cursor - 1 + 1 = cursor /\ cursor - 1 < Len(bullets)
          BY <1>t, <2>3
        <5>2. cursor - 1 <= cursor - 1
          BY <2>3
        <5>. QED  BY <2>1, <3>2, <3>3, <4>2, <5>1, <5>2
      <4>. QED  BY <3>6, <4>1, <4>2
    <3>8. ASSUME NEW j \in 1..(n + 1), NEW k \in 1..(n + 1), j < k
          PROVE  events'[k].index < events'[j].index
      <4>1. j \in 1..n
        BY <3>6, <3>8
      <4>2. CASE k \in 1..n
        BY <3>2, <3>5, <3>8, <4>1, <4>2
      <4>3. CASE k = n + 1
        <5>1. cursor <= events[j].index /\ events[j].index \in Nat
          BY <3>4, <4>1
        <5>2. cursor - 1 < events[j].index
          BY <2>3, <5>1
        <5>. QED  BY <3>2, <3>3, <4>1, <4>3, <5>2
      <4>. QED  BY <3>6, <4>2, <4>3
    <3>9. RemovalsFit'
      BY <3>2, <3>7, <3>8 DEF RemovalsFit
    <3>10. BulletsKept'
      BY <2>1, <2>3, <3>2, <3>9 DEF BulletsInv, BulletsKept, BulletTypeOK, Differ
    <3>. QED  BY <2>2, <3>10 DEF BulletsInv
  <2>. QED  BY <1>2, <2>5, <2>6 DEF UpdateBullet
<1>3. ASSUME RunTask(p), cursor = 0, UNCHANGED <<bullets, events, cursor>>, updating' = FALSE
      PROVE  BulletsInv'
  <2>1. BulletsKept'
    BY <1>3 DEF BulletsInv, BulletsKept, BulletTypeOK, Differ, RemovalsFit
  <2>2. /\ UNCHANGED <<pc, seqParallel, marker, dwFrame>>
        /\ pit'[p] = pit[p] + 1
    BY <1>3 DEF RunTask, frameVars, IInv, TypeOK
  <2>3. ~Untouched'
    BY <1>0, <2>2 DEF Untouched
  <2>4. ASSUME NEW j \in 1..Len(seqParallel), pit[p] + 1 < j PROVE seqParallel[j] # "bullets"
    BY <1>0, <2>4, QueuedOnce DEF RInv
  <2>5. WorkloadOnce'
    BY <1>0, <1>3, <2>2, <2>3, <2>4 DEF WorkloadOnce
  <2>. QED  BY <2>1, <2>5 DEF BulletsInv
<1>4. CASE EndUpdate /\ RunTask(p)
  BY <1>3, <1>4 DEF EndUpdate
<1>5. CASE ~updating /\ UNCHANGED bulletVars /\ RunTask(p)
  BY <1>3, <1>5 DEF BulletsInv, BulletsKept, BulletTypeOK, bulletVars
<1>. QED
  BY <1>1, <1>2, <1>4, <1>5 DEF BulletTask

\* Between two frames UpdateWorkload is not running.
LEMMA NoUpdateBetweenFrames ==
    ASSUME IInv, BulletsInv, pc["main"] = "message"
    PROVE  ~updating /\ cursor = 0 /\ updating \in BOOLEAN
<1>1. \A p \in Threads : ~Runs(p, "bullets")
  BY WhoRuns DEF Threads
<1>. QED
  BY <1>1 DEF BulletsInv, WorkloadOnce, BulletsKept, BulletTypeOK

\* The lists are begun anew.
LEMMA NewBullets ==
    ASSUME IInv, BulletsInv, pc["main"] = "message", UNCHANGED <<updating, cursor>>,
           bullets' \in Seq(Bullets), Differ(bullets'), events' = <<>>
    PROVE  BulletsInv'
<1>1. ~updating /\ cursor = 0 /\ updating \in BOOLEAN
  BY NoUpdateBetweenFrames
<1>2. Len(bullets') \in Nat
  BY LenProperties
<1>3. RemovalsFit'
  BY DEF RemovalsFit
<1>4. BulletsKept'
  BY <1>1, <1>2, <1>3 DEF BulletsKept, BulletTypeOK, Differ
<1>5. WorkloadOnce'
  BY <1>1 DEF WorkloadOnce
<1>. QED
  BY <1>4, <1>5 DEF BulletsInv

\* What is fired in a frame: bullets that are new, and different.
LEMMA FiredAre ==
    ASSUME BulletTypeOK, NEW new \in Fired
    PROVE  /\ new \in Seq(Bullets) /\ Differ(new)
           /\ \A k \in 1..Len(new) : new[k] \notin Range(bullets)
<1>. DEFINE unused == Bullets \ (Range(bullets) \cup {events[k].bullet : k \in 1..Len(events)})
<1>1. CASE new = <<>>
  BY <1>1 DEF Differ
<1>2. ASSUME NEW b \in unused, new = <<b>> PROVE /\ new \in Seq(Bullets) /\ Differ(new)
           /\ \A k \in 1..Len(new) : new[k] \notin Range(bullets)
  <2>1. b \in Bullets /\ b \notin Range(bullets)
    OBVIOUS
  <2>2. Len(new) = 1 /\ new[1] = b /\ new \in Seq(Bullets)
    BY <1>2, <2>1
  <2>. QED  BY <2>1, <2>2 DEF Differ
<1>3. ASSUME NEW b \in unused, NEW c \in unused, new = <<b, c>>, b # c
      PROVE /\ new \in Seq(Bullets) /\ Differ(new)
            /\ \A k \in 1..Len(new) : new[k] \notin Range(bullets)
  <2>1. b \in Bullets /\ b \notin Range(bullets) /\ c \in Bullets /\ c \notin Range(bullets)
    OBVIOUS
  <2>2. Len(new) = 2 /\ new[1] = b /\ new[2] = c /\ new \in Seq(Bullets)
    BY <1>3, <2>1
  <2>. QED  BY <1>3, <2>1, <2>2 DEF Differ
<1>4. \/ new = <<>> \/ \E b \in unused : new = <<b>>
      \/ \E b, c \in unused : new = <<b, c>> /\ b # c
  BY DEF Fired
<1>. QED
  BY <1>1, <1>2, <1>3, <1>4

\* The bullets that are left, and the new ones.
LEMMA MoveBullets ==
    ASSUME IInv, BulletsInv, pc["main"] = "message", NEW new \in Seq(Bullets), Differ(new),
           \A k \in 1..Len(new) : new[k] \notin Range(bullets), BulletFrame(new)
    PROVE  BulletsInv'
<1>. DEFINE s == Committed(Len(events))
            m == Len(s)
            n == Len(new)
<1>1. Len(events) \in 0..Len(events)
  BY LenProperties DEF BulletsInv, BulletsKept, BulletTypeOK
<1>2. IsAfter(s, Len(events))
  BY <1>1, CommittedIs DEF BulletsInv, BulletsKept
<1>3. bullets' = s \o new /\ events' = <<>> /\ UNCHANGED <<updating, cursor>>
  BY DEF BulletFrame
<1>. HIDE DEF s
<1>4. s \in Seq(Bullets) /\ Range(s) \subseteq Range(bullets)
  BY <1>2 DEF IsAfter
<1>5. m \in Nat /\ n \in Nat /\ DOMAIN s = 1..m
  BY <1>4, LenProperties
<1>6. /\ s \o new \in Seq(Bullets)
      /\ Len(s \o new) = m + n
      /\ \A k \in 1..(m + n) : (s \o new)[k] = IF k <= m THEN s[k] ELSE new[k - m]
  BY <1>4, ConcatProperties
<1>7. /\ \A i, j \in 1..m : s[i] = s[j] => i = j
      /\ \A i, j \in 1..n : new[i] = new[j] => i = j
      /\ \A i \in 1..m, j \in 1..n : s[i] # new[j]
  <2>1. \A i \in 1..m : s[i] \in Range(bullets)
    BY <1>4, <1>5 DEF Range
  <2>. QED  BY <1>2, <2>1 DEF IsAfter, Differ
<1>8. Differ(s \o new)
  <2>. DEFINE c == s \o new
  <2>. HIDE DEF c, m, n
  <2>. SUFFICES ASSUME NEW i \in 1..(m + n), NEW j \in 1..(m + n), c[i] = c[j] PROVE i = j
    BY <1>6 DEF Differ, c
  <2>1. c[i] = (IF i <= m THEN s[i] ELSE new[i - m]) /\ c[j] = (IF j <= m THEN s[j] ELSE new[j - m])
    BY <1>6 DEF c
  <2>2. i <= m \/ i - m \in 1..n
    BY <1>5
  <2>3. j <= m \/ j - m \in 1..n
    BY <1>5
  <2>4. CASE i <= m /\ j <= m
    <3>1. i \in 1..m /\ j \in 1..m
      BY <2>4, <1>5
    <3>. QED  BY <1>7, <2>1, <2>4, <3>1
  <2>5. CASE i <= m /\ ~(j <= m)
    <3>1. i \in 1..m /\ j - m \in 1..n
      BY <2>3, <2>5, <1>5
    <3>. QED  BY <1>7, <2>1, <2>5, <3>1
  <2>6. CASE ~(i <= m) /\ j <= m
    <3>1. j \in 1..m /\ i - m \in 1..n
      BY <2>2, <2>6, <1>5
    <3>. QED  BY <1>7, <2>1, <2>6, <3>1
  <2>7. CASE ~(i <= m) /\ ~(j <= m)
    <3>1. i - m \in 1..n /\ j - m \in 1..n
      BY <2>2, <2>3, <2>7
    <3>2. i - m = j - m
      BY <1>7, <2>1, <2>7, <3>1
    <3>. QED  BY <3>2, <1>5
  <2>. QED  BY <2>4, <2>5, <2>6, <2>7
<1>. QED
  BY <1>3, <1>6, <1>8, NewBullets

LEMMA InitBullets == PInit => BulletsInv
<1>. SUFFICES ASSUME PInit PROVE BulletsInv
  OBVIOUS
<1>1. bullets = <<>> /\ events = <<>> /\ updating = FALSE /\ cursor = 0
  BY DEF PInit, BulletInit
<1>2. BulletsKept
  <2>1. Len(<<>>) = 0 /\ <<>> \in Seq(Bullets) /\ <<>> \in Seq([index : Nat, bullet : Bullets])
    BY EmptySeq
  <2>2. BulletTypeOK
    <3>1. 0 \in 0..0
      OBVIOUS
    <3>. QED  BY <1>1, <2>1, <3>1 DEF BulletTypeOK
  <2>3. Differ(bullets) /\ RemovalsFit
    BY <1>1, <2>1 DEF Differ, RemovalsFit
  <2>. QED  BY <1>1, <2>2, <2>3 DEF BulletsKept
<1>. QED
  BY <1>1, <1>2 DEF BulletsInv, WorkloadOnce

LEMMA NextBullets == IInv /\ RInv /\ BulletsInv /\ [Next]_vars => BulletsInv'
<1>. SUFFICES ASSUME IInv, RInv, BulletsInv, [Next]_vars PROVE BulletsInv'
  OBVIOUS
<1>1. CASE UNCHANGED vars
  BY <1>1, StillBullets DEF vars
<1>2. ASSUME NEW level \in Levels, NEW calc \in BOOLEAN, NEW new \in Fired, Move(level, calc, new)
      PROVE  BulletsInv'
  <2>. DEFINE fired == IF level = "playing" THEN new ELSE <<>>
  <2>1. pc["main"] = "message" /\ BulletFrame(fired)
    BY <1>2 DEF Move, FrameMove
  <2>2. /\ fired \in Seq(Bullets) /\ Differ(fired)
        /\ \A k \in 1..Len(fired) : fired[k] \notin Range(bullets)
    <3>1. CASE level = "playing"
      BY <3>1, FiredAre DEF BulletsInv, BulletsKept
    <3>2. CASE level # "playing"
      BY <3>2 DEF Differ
    <3>. QED  BY <3>1, <3>2
  <2>. HIDE DEF fired
  <2>. QED  BY <2>1, <2>2, MoveBullets
<1>3. CASE LoadLevel
  <2>1. pc["main"] = "message" /\ (Clear \/ UNCHANGED bulletVars)
    BY <1>3 DEF LoadLevel, Load
  <2>2. CASE Clear
    <3>1. bullets' = <<>> /\ events' = <<>> /\ UNCHANGED <<updating, cursor>>
      BY <2>2 DEF Clear
    <3>2. bullets' \in Seq(Bullets) /\ Differ(bullets')
      BY <3>1 DEF Differ
    <3>. QED  BY <2>1, <3>1, <3>2, NewBullets
  <2>3. CASE UNCHANGED bulletVars
    <3>1. pc' = pc /\ seqParallel' = seqParallel /\ pit' = pit
      BY <1>3 DEF LoadLevel, Load
    <3>2. ~updating
      BY <2>1, NoUpdateBetweenFrames
    <3>3. ~Untouched'
      BY <2>1, <3>1 DEF Untouched
    <3>4. ~updating /\ events # <<>> =>
            \A p \in Threads : pc'[p] = "tasks" =>
              \A j \in 1..Len(seqParallel') : pit'[p] < j => seqParallel'[j] # "bullets"
      BY <3>1 DEF BulletsInv, WorkloadOnce
    <3>. QED  BY <2>3, <3>2, <3>3, <3>4, BulletsGoOn
  <2>. QED  BY <2>1, <2>2, <2>3
<1>4. CASE MainTurns \/ WorkerTurns
  BY <1>4, TurnBullets
<1>5. CASE DrawStep
  <2>1. UNCHANGED bulletVars
    BY <1>5 DEF DrawStep, BeginScene, EndCalc, Grass, DrawGrass, BeginShadows, ShadowGrass, EndScene,
       DrawNext
  <2>2. CASE UNCHANGED threadVars
    BY <2>1, <2>2, StillBullets
  <2>3. CASE EndDrawing
    <3>1. \A p \in Threads : Runs(p, "bullets") => Runs(p, "bullets")'
      BY <2>3 DEF EndDrawing, Goto, frameVars, Runs, AtTask, Task, Threads, IInv, TypeOK
    <3>2. ~Untouched => ~Untouched'
      BY <2>3 DEF EndDrawing, Goto, frameVars, Untouched, Threads, IInv, TypeOK
    <3>3. /\ UNCHANGED <<seqParallel, pit>>
          /\ \A p \in Threads : pc'[p] = "tasks" => pc[p] = "tasks"
      BY <2>3 DEF EndDrawing, Goto, frameVars, Threads, IInv, TypeOK
    <3>4. updating => \E p \in Threads : Runs(p, "bullets")'
      BY <3>1 DEF BulletsInv, WorkloadOnce
    <3>5. ~updating /\ events # <<>> =>
            \A p \in Threads : pc'[p] = "tasks" =>
              \A j \in 1..Len(seqParallel') : pit'[p] < j => seqParallel'[j] # "bullets"
      BY <3>3 DEF BulletsInv, WorkloadOnce
    <3>. QED  BY <2>1, <3>2, <3>4, <3>5, BulletsGoOn
  <2>. QED
    BY <1>5, <2>2, <2>3 DEF DrawStep, BeginScene, EndCalc, Grass, DrawGrass, BeginShadows, ShadowGrass,
       EndScene, DrawNext
<1>6. ASSUME NEW p \in Threads, TaskStep(p) PROVE BulletsInv'
  <2>1. CASE BulletTask(p)
    BY <2>1, BulletTaskBullets
  <2>2. CASE ~BulletTask(p)
    <3>1. UNCHANGED bulletVars /\ (UNCHANGED threadVars \/ RunTask(p))
      BY <1>6, <2>2 DEF TaskStep, PlainTask, HomTask, DetailsTask, BeginTest, Test
    <3>2. CASE UNCHANGED threadVars
      BY <3>1, <3>2, StillBullets
    <3>3. CASE RunTask(p) /\ ~UNCHANGED threadVars
      <4>1. Runs(p, "map") \/ Runs(p, "sound") \/ Runs(p, "hom") \/ Runs(p, "details")
        BY <1>6, <2>2, <3>3 DEF TaskStep, PlainTask, HomTask, DetailsTask, BeginTest, Test
      <4>2. ~Runs(p, "bullets")
        BY <4>1 DEF Runs
      <4>. QED  BY <3>1, <3>3, <4>2, NextTaskBullets
    <3>. QED  BY <3>1, <3>2, <3>3
  <2>. QED  BY <2>1, <2>2
<1>. QED
  BY <1>1, <1>2, <1>3, <1>4, <1>5, <1>6 DEF Next, MainStep, WorkerStep, Threads

\* UpdateWorkload registers the removals of a frame in one run, from the last
\* bullet to the first.
THEOREM BulletsInvariant == Spec => []BulletsInv
BY RenderInvariant, InitBullets, NextBullets, PTL DEF Spec

\* CommitEvents takes away the bullets that are done and no other, however many
\* they are and whatever has been fired since: the last bullet, which fills each
\* gap, is one of those that stay or that are behind (Level_Bullet_Manager.cpp).
THEOREM RemovalsAreExactAlways == Spec => []RemovalsAreExact
<1>1. BulletsInv => RemovalsAreExact
  <2>. SUFFICES ASSUME BulletsInv PROVE RemovalsAreExact
    OBVIOUS
  <2>1. BulletTypeOK /\ Differ(bullets) /\ RemovalsFit
    BY DEF BulletsInv, BulletsKept
  <2>2. /\ bullets \in Seq(Bullets) /\ Len(bullets) \in Nat
        /\ events \in Seq([index : Nat, bullet : Bullets]) /\ Len(events) \in Nat
    <3>1. bullets \in Seq(Bullets) /\ events \in Seq([index : Nat, bullet : Bullets])
      BY <2>1 DEF BulletTypeOK
    <3>. QED  BY <3>1, LenProperties
  <2>3. ASSUME NEW k \in 1..Len(events) PROVE events[k].index < Len(Committed(k - 1))
    <3>. DEFINE s == Committed(k - 1)
                i == events[k].index
    <3>1. k - 1 \in 0..Len(events) /\ k \in Nat
      BY <2>2
    <3>2. IsAfter(s, k - 1)
      BY <2>1, <3>1, CommittedIs
    <3>. HIDE DEF s
    <3>3. events[k] \in [index : Nat, bullet : Bullets]
      BY <2>2, ElementOfSeq
    <3>4. i \in Nat /\ i < Len(bullets)
      BY <2>1, <3>3 DEF RemovalsFit
    <3>5. k - 1 = 0 \/ i + 1 <= events[k - 1].index
      <4>1. CASE k # 1
        <5>1. k - 1 \in 1..Len(events) /\ k - 1 < k
          BY <4>1, <3>1, <2>2
        <5>2. events[k - 1] \in [index : Nat, bullet : Bullets]
          BY <2>2, <5>1, ElementOfSeq
        <5>3. i < events[k - 1].index /\ events[k - 1].index \in Nat
          BY <2>1, <5>1, <5>2 DEF RemovalsFit
        <5>. HIDE DEF i
        <5>. QED  BY <5>3, <3>4
      <4>2. CASE k = 1
        BY <4>2
      <4>. QED  BY <4>1, <4>2
    <3>. HIDE DEF i
    <3>6. i + 1 \in 1..Len(bullets)
      BY <2>2, <3>4
    <3>7. i + 1 <= Len(s) /\ Len(s) \in Nat
      BY <3>2, <3>5, <3>6, LenProperties DEF IsAfter
    <3>8. i < Len(s)
      BY <3>4, <3>7
    <3>. QED  BY <3>8 DEF s, i
  <2>4. Range(Committed(Len(events))) = Range(bullets) \ {events[k].bullet : k \in 1..Len(events)}
    <3>1. Len(events) \in 0..Len(events)
      BY <2>2
    <3>. QED  BY <2>1, <3>1, CommittedIs DEF IsAfter
  <2>. QED  BY <2>3, <2>4 DEF RemovalsAreExact
<1>. QED
  BY <1>1, BulletsInvariant, PTL

-----------------------------------------------------------------------------
(* No deadlock: a step of a thread waits only for a critical section or for *)
(* mt_bMustExit, and the two threads never wait at once.                    *)

WaitsForMap(p) ==
    /\ homLock # Free
    /\ hom[p] = "projected" \/ (hom[p] = "idle" /\ Runs(p, "hom"))

WaitsForGrass(p) ==
    /\ detLock # Free /\ det[p] = "idle"
    /\ Runs(p, "details") \/ (p = "main" /\ Drawing("grass") /\ calculated # dwFrame)

MainWaits ==
    \/ pc["main"] = "moved" /\ csLeave # Nobody
    \/ pc["main"] = "drawn" /\ csEnter # Nobody
    \/ pc["main"] = "waiting" /\ mustExit
    \/ WaitsForMap("main") \/ WaitsForGrass("main")

WorkerWaits ==
    \/ pc["worker"] = "outside" /\ csEnter # Nobody
    \/ pc["worker"] = "signalled" /\ csLeave # Nobody
    \/ WaitsForMap("worker") \/ WaitsForGrass("worker")

\* The primary and the secondary thread never wait for each other, although
\* each takes two critical sections of the hand-over, the renderer's map and
\* its grass, and tests grass against the map while it holds the grass.
NoCircularWait == ~(MainWaits /\ WorkerWaits)

\* Who owns one of the renderer's two critical sections is in its task or in
\* the drawing, and the secondary thread only while the primary thread draws.
LEMMA OwnersOfTheScene ==
    ASSUME IInv, RInv
    PROVE  /\ homLock # Free => homLock \in Threads /\ hom[homLock] \in {"entered", "enabled", "drawing"}
           /\ detLock # Free => detLock \in Threads /\ det[detLock] # "idle"
           /\ hom["main"] # "idle" => pc["main"] \in {"drawing", "tasks"}
           /\ det["main"] # "idle" => pc["main"] \in {"drawing", "tasks"}
           /\ hom["worker"] # "idle" => pc["worker"] = "tasks" /\ pc["main"] \in {"drawing", "drawn"}
           /\ det["worker"] # "idle" => pc["worker"] = "tasks" /\ pc["main"] \in {"drawing", "drawn"}
<1>. USE DrawersAssumption DEF Threads
<1>1. homLock # Free => homLock \in Threads /\ hom[homLock] \in {"entered", "enabled", "drawing"}
  BY DEF RInv, RTypes, RenderTypeOK, Locks
<1>2. detLock # Free => detLock \in Threads /\ det[detLock] # "idle"
  BY DEF RInv, RTypes, RenderTypeOK, Locks
<1>3. \A p \in Threads, t \in {"hom", "details"} : Runs(p, t) => pc[p] = "tasks"
  BY DEF Runs, AtTask
<1>4. \A p \in Threads : det[p] # "idle" => Runs(p, "details") \/ (p = "main" /\ draw = "grass")
  BY DEF RInv, InScene
<1>5. \A p \in Threads : hom[p] # "idle" =>
        Runs(p, "hom") \/ det[p] = "filling" \/ (p = "main" /\ draw \in {"calc", "shadows"})
  BY DEF RInv, InScene
<1>6. draw # "idle" => pc["main"] = "drawing"
  BY DEF RInv, InScene
<1>7. pc["worker"] = "tasks" => pc["main"] \in {"drawing", "drawn"}
  BY DEF IInv, Marking
<1>. QED
  BY <1>1, <1>2, <1>3, <1>4, <1>5, <1>6, <1>7

LEMMA WaitingIsNotCircular == IInv /\ RInv => NoCircularWait
<1>. SUFFICES ASSUME IInv, RInv, MainWaits, WorkerWaits PROVE FALSE
  BY DEF NoCircularWait
<1>. USE DEF Threads
<1>1. /\ csEnter # Nobody => csEnter \in {"main", "worker"}
      /\ csLeave # Nobody => csLeave \in {"main", "worker"}
  BY DEF IInv, TypeOK
<1>2. /\ WaitsForMap("worker") \/ WaitsForGrass("worker") => pc["worker"] = "tasks"
      /\ pc["worker"] = "tasks" => pc["main"] \in {"drawing", "drawn"}
  <2>1. WaitsForMap("worker") \/ WaitsForGrass("worker") => hom["worker"] # "idle" \/ AtTask("worker")
    BY DEF WaitsForMap, WaitsForGrass, Runs
  <2>. QED
    BY <2>1, OwnersOfTheScene DEF IInv, Marking, AtTask
<1>3. CASE pc["main"] = "moved" /\ csLeave # Nobody
  BY <1>1, <1>2, <1>3 DEF WorkerWaits, IInv, Ownership
<1>4. CASE pc["main"] = "waiting" /\ mustExit
  BY <1>1, <1>2, <1>4 DEF WorkerWaits, IInv, Ownership
<1>5. CASE pc["main"] = "drawn" /\ csEnter # Nobody
  <2>1. hom["main"] = "idle" /\ det["main"] = "idle"
    BY <1>5, OwnersOfTheScene
  <2>2. pc["worker"] \in {"inside", "tasks", "frameMT", "done", "exiting"}
    BY <1>1, <1>5 DEF IInv, Ownership
  <2>3. WaitsForMap("worker") \/ WaitsForGrass("worker")
    BY <2>2 DEF WorkerWaits
  <2>4. CASE WaitsForMap("worker")
    BY <2>1, <2>4, OwnersOfTheScene DEF WaitsForMap
  <2>5. CASE WaitsForGrass("worker")
    BY <2>1, <2>5, OwnersOfTheScene DEF WaitsForGrass
  <2>. QED  BY <2>3, <2>4, <2>5
<1>6. CASE WaitsForMap("main")
  <2>1. homLock = "worker" /\ hom["worker"] \in {"entered", "enabled", "drawing"}
    BY <1>6, OwnersOfTheScene DEF WaitsForMap
  <2>2. pc["worker"] = "tasks" /\ ~WaitsForMap("worker")
    BY <2>1, OwnersOfTheScene DEF WaitsForMap
  <2>3. Runs("worker", "details") /\ det["worker"] = "idle"
    BY <2>2 DEF WorkerWaits, WaitsForGrass
  <2>4. Runs("worker", "hom") \/ det["worker"] = "filling"
    BY <2>1 DEF RInv, InScene
  <2>. QED
    BY <2>3, <2>4, WhoRuns
<1>7. CASE WaitsForGrass("main")
  <2>1. detLock = "worker" /\ det["worker"] # "idle"
    BY <1>7, OwnersOfTheScene DEF WaitsForGrass
  <2>2. pc["worker"] = "tasks" /\ WaitsForMap("worker")
    BY <2>1, OwnersOfTheScene DEF WorkerWaits, WaitsForGrass
  <2>3. Runs("worker", "details")
    BY <2>1 DEF RInv, InScene
  <2>4. hom["worker"] = "projected"
    BY <2>2, <2>3, WhoRuns DEF WaitsForMap
  <2>5. homLock = "main" /\ hom["main"] # "idle"
    BY <2>2, <2>4, OwnersOfTheScene DEF WaitsForMap
  <2>6. det["main"] = "idle" /\ draw = "grass"
    <3>1. pc["main"] # "tasks"
      BY <1>2, <2>2
    <3>. QED  BY <1>7, <3>1 DEF WaitsForGrass, Runs, AtTask, Drawing
  <2>7. Runs("main", "hom")
    BY <2>5, <2>6 DEF RInv, InScene
  <2>. QED
    BY <1>2, <2>2, <2>7, WhoRuns
<1>. QED
  BY <1>3, <1>4, <1>5, <1>6, <1>7 DEF MainWaits

\* The two threads never wait for each other (device.cpp:267-310, 343-372,
\* HOM.cpp MT_RENDER, DetailManager.cpp MT_CALC and MT_SYNC).
THEOREM NobodyWaitsInACircle == Spec => []NoCircularWait
BY WaitingIsNotCircular, RenderInvariant, PTL

=============================================================================
