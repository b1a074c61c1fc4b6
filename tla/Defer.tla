------------------------------- MODULE Defer -------------------------------
(***************************************************************************)
(* defer, panic and recover: the two disposable stacks of                  *)
(* gs/builtin/defer.ts, the globals of gs/builtin/panic.ts, and the shape  *)
(* renderBodyWithDefer (compiler/typescript-emitter.go) gives a function   *)
(* with deferred calls.                                                    *)
(*                                                                         *)
(* A goroutine is a stack of frames, one per compiled function.  A frame   *)
(* is "aware" when the compiler saw a recover() in it: then it is a try    *)
(* with dispose() and a catch with disposePanic(); otherwise it is a using *)
(* declaration.  Whether its results have names is left open.  One         *)
(* goroutine runs until it awaits; only async frames await, and they have  *)
(* only async frames below them.  What the code of a body or of a deferred *)
(* function does next is left open, too.                                   *)
(***************************************************************************)
EXTENDS Naturals, Sequences, SequencesExt

CONSTANTS G,          \* goroutines
          MaxDepth,   \* bound: frames of a goroutine
          MaxDefers,  \* bound: deferred functions of a frame
          MaxPanics,  \* bound: panics
          MaxCalls    \* bound: function calls, of all goroutines

Free == "free"   \* nobody's code runs

DeferAssumption ==
  /\ MaxDepth \in Nat /\ MaxDefers \in Nat /\ MaxPanics \in Nat /\ MaxCalls \in Nat
  /\ Free \notin G
ASSUME DeferBounds == DeferAssumption

VARIABLES
  frames,   \* the frames of each goroutine, outermost first
  thrown,   \* the error that unwinds each goroutine, or None
  calls,    \* number of function calls so far
  running,  \* the goroutine whose code runs, or Free
  active,   \* activeRecoverPanic
  panics,   \* the GoPanics so far: who raised them, who recovered them
  stack     \* panicStack

deferVars == <<frames, thrown, calls, running, active, panics, stack>>

None == 0
Suppressed == MaxPanics + 1   \* the SuppressedError of a using declaration
Error == 0..Suppressed        \* GoPanics are numbered

Frame == [aware : BOOLEAN, async : BOOLEAN, defers : 0..MaxDefers,
          phase : {"body", "dispose", "unwind"},
          busy  : BOOLEAN,      \* a deferred function is being run
          err   : Error,        \* the error caught by this frame
          scope : BOOLEAN,      \* inside withRecoveringPanic
          prev  : 0..MaxPanics] \* its local variable previous

DeferTypeOK ==
  /\ frames \in [G -> Seq(Frame)] /\ \A g \in G : Len(frames[g]) <= MaxDepth
  /\ thrown \in [G -> Error]
  /\ calls \in 0..MaxCalls
  /\ running \in G \cup {Free}
  /\ active \in 0..MaxPanics
  /\ panics \in Seq([by : G, to : SUBSET G]) /\ Len(panics) <= MaxPanics
  /\ stack \in Seq(DOMAIN panics)

DeferInit ==
  /\ frames = [g \in G |-> <<>>]
  /\ thrown = [g \in G |-> None]
  /\ calls = 0
  /\ running = Free
  /\ active = None
  /\ panics = <<>>
  /\ stack = <<>>

-----------------------------------------------------------------------------
Top(g) == frames[g][Len(frames[g])]
SetTop(g, f) == [frames EXCEPT ![g][Len(frames[g])] = f]
Pop(g) == [frames EXCEPT ![g] = SubSeq(@, 1, Len(@) - 1)]

IsRecovered(e) == e \in DOMAIN panics /\ panics[e].to # {}

\* g's code runs: nobody else's does.
Turn(g) == running \in {Free, g}

\* g is executing the body of its top frame or one of its deferred functions.
InCode(g) ==
  /\ Turn(g) /\ frames[g] # <<>> /\ thrown[g] = None
  /\ Top(g).phase = "body" \/ Top(g).busy

\* g is in the loop of dispose() or disposePanic(), between two functions.
InLoop(g) ==
  /\ Turn(g) /\ frames[g] # <<>> /\ thrown[g] = None
  /\ Top(g).phase # "body" /\ ~Top(g).busy

KeepsThread(g, fs) == running' = IF fs[g] = <<>> THEN Free ELSE g

\* withRecoveringPanic(err, ...): what activeRecoverPanic becomes.
Recovering(e) == IF e \in DOMAIN panics THEN e ELSE None

Enter(f) == [f EXCEPT !.scope = TRUE, !.prev = active]
Leave(f) == [f EXCEPT !.scope = FALSE, !.prev = None]
AfterLeave(f) == IF f.scope THEN f.prev ELSE active

-----------------------------------------------------------------------------
(* What code does. *)

CallFunction(g, aware, async) ==
  /\ Turn(g) /\ thrown[g] = None
  /\ frames[g] # <<>> => InCode(g) /\ (async => Top(g).async)
  /\ Len(frames[g]) < MaxDepth /\ calls < MaxCalls
  /\ calls' = calls + 1
  /\ frames' = [frames EXCEPT ![g] = Append(@,
       [aware |-> aware, async |-> async, defers |-> 0, phase |-> "body",
        busy |-> FALSE, err |-> None, scope |-> FALSE, prev |-> None])]
  /\ running' = g
  /\ UNCHANGED <<thrown, active, panics, stack>>

DeferFunction(g) ==
  /\ InCode(g) /\ Top(g).phase = "body" /\ Top(g).defers < MaxDefers
  /\ frames' = SetTop(g, [Top(g) EXCEPT !.defers = @ + 1])
  /\ running' = g
  /\ UNCHANGED <<thrown, calls, active, panics, stack>>

\* panic() and runtimePanic().
Panic(g) ==
  /\ InCode(g) /\ Len(panics) < MaxPanics
  /\ panics' = Append(panics, [by |-> g, to |-> {}])
  /\ stack' = Append(stack, Len(panics) + 1)
  /\ thrown' = [thrown EXCEPT ![g] = Len(panics) + 1]
  /\ running' = g
  /\ UNCHANGED <<frames, calls, active>>

\* recover(), when it returns a value.  Otherwise it changes nothing.
Recover(g) ==
  /\ InCode(g)
  /\ active # None /\ ~IsRecovered(active)
  /\ panics' = [panics EXCEPT ![active].to = @ \cup {g}]
  /\ stack' = RemoveFirst(stack, active)
  /\ running' = g
  /\ UNCHANGED <<frames, thrown, calls, active>>

\* Mutant: the scope of withRecoveringPanic stays open over an await.
AwaitInScope(g) ==
  /\ Turn(g) /\ frames[g] # <<>> /\ thrown[g] = None /\ Top(g).async
  /\ running' = Free
  /\ UNCHANGED <<frames, thrown, calls, active, panics, stack>>

\* An await of an async frame.  The synchronous part of every deferred
\* function of this goroutine has returned, so withRecoveringPanic has too.
Await(g) ==
  /\ Turn(g) /\ frames[g] # <<>> /\ thrown[g] = None /\ Top(g).async
  /\ frames' = [frames EXCEPT ![g] = [i \in DOMAIN @ |-> Leave(@[i])]]
  /\ active' = IF \E i \in DOMAIN frames[g] : frames[g][i].scope
               THEN LET first == CHOOSE i \in DOMAIN frames[g] :
                                   /\ frames[g][i].scope
                                   /\ \A j \in 1..(i - 1) : ~frames[g][j].scope
                    IN frames[g][first].prev
               ELSE active
  /\ running' = Free
  /\ UNCHANGED <<thrown, calls, panics, stack>>

-----------------------------------------------------------------------------
(* The end of a body, and the disposal of its deferred functions. *)

\* The end of the body, the return of a using declaration, and that of an aware
\* frame with named results, which calls dispose() first.
Return(g) ==
  /\ InCode(g) /\ Top(g).phase = "body"
  /\ frames' = SetTop(g, [Top(g) EXCEPT !.phase = "dispose"])
  /\ running' = g
  /\ UNCHANGED <<thrown, calls, active, panics, stack>>

\* The return statement of an aware frame whose results have no names is emitted
\* as it is: it leaves the try before the call of dispose() at its end.
ReturnBare(g) ==
  /\ InCode(g) /\ Top(g).phase = "body" /\ Top(g).aware
  /\ frames' = Pop(g)
  /\ KeepsThread(g, Pop(g))
  /\ UNCHANGED <<thrown, calls, active, panics, stack>>

\* The loops pop a function and call it.  disposePanic of an async stack puts
\* each call in a scope of its own, that of a sync stack the whole loop.
RunDeferred(g) ==
  /\ InLoop(g) /\ Top(g).defers > 0
  /\ LET f == [Top(g) EXCEPT !.defers = @ - 1, !.busy = TRUE]
         scoped == f.phase = "unwind" /\ f.aware /\ ~f.scope
     IN /\ frames' = SetTop(g, IF scoped THEN Enter(f) ELSE f)
        /\ active' = IF scoped THEN Recovering(f.err) ELSE active
  /\ running' = g
  /\ UNCHANGED <<thrown, calls, panics, stack>>

EndDeferred(g) ==
  /\ InCode(g) /\ Top(g).busy
  /\ LET f == [Top(g) EXCEPT !.busy = FALSE] IN
     /\ frames' = SetTop(g, IF f.async THEN Leave(f) ELSE f)
     /\ active' = IF f.async THEN AfterLeave(f) ELSE active
  /\ running' = g
  /\ UNCHANGED <<thrown, calls, panics, stack>>

\* dispose() is done: the function returns.
EndDispose(g) ==
  /\ InLoop(g) /\ Top(g).defers = 0 /\ Top(g).phase = "dispose"
  /\ frames' = Pop(g)
  /\ KeepsThread(g, Pop(g))
  /\ UNCHANGED <<thrown, calls, active, panics, stack>>

\* disposePanic() is done: if (!recovered(e)) throw e.  A using declaration
\* goes on with the error.
EndUnwind(g) ==
  /\ InLoop(g) /\ Top(g).defers = 0 /\ Top(g).phase = "unwind"
  /\ frames' = Pop(g)
  /\ active' = AfterLeave(Top(g))
  /\ LET swallowed == Top(g).aware /\ IsRecovered(Top(g).err) IN
     /\ thrown' = [thrown EXCEPT ![g] = IF swallowed THEN None ELSE Top(g).err]
     /\ stack' = IF swallowed THEN RemoveFirst(stack, Top(g).err) ELSE stack
  /\ KeepsThread(g, Pop(g))
  /\ UNCHANGED <<calls, panics>>

-----------------------------------------------------------------------------
(* An error reaches a frame. *)

Unwinding(g) == Turn(g) /\ frames[g] # <<>> /\ thrown[g] # None

\* The body threw, or, in the try of an aware frame, a deferred function of
\* the normal exit did: the deferred functions that are left run as panicking.
Catch(g) ==
  /\ Unwinding(g)
  /\ Top(g).phase = "body" \/ (Top(g).phase = "dispose" /\ Top(g).aware)
  /\ LET f == [Top(g) EXCEPT !.phase = "unwind", !.busy = FALSE, !.err = thrown[g]]
         scoped == f.aware /\ ~f.async
     IN /\ frames' = SetTop(g, IF scoped THEN Enter(f) ELSE f)
        /\ active' = IF scoped THEN Recovering(f.err) ELSE active
  /\ thrown' = [thrown EXCEPT ![g] = None]
  /\ running' = g
  /\ UNCHANGED <<calls, panics, stack>>

\* Mutant: an error of a deferred function always leaves the frame.
EscapeEveryLoop(g) ==
  /\ Unwinding(g)
  /\ Top(g).phase # "body"
  /\ frames' = Pop(g)
  /\ active' = AfterLeave(Top(g))
  /\ thrown' = thrown
  /\ KeepsThread(g, Pop(g))
  /\ UNCHANGED <<calls, panics, stack>>

\* A deferred function threw in the catch, or in a using declaration: the
\* loop ends, the functions that are left do not run.  A using declaration
\* that was unwinding already throws a SuppressedError.
Escape(g) ==
  /\ Unwinding(g)
  /\ Top(g).phase = "unwind" \/ (Top(g).phase = "dispose" /\ ~Top(g).aware)
  /\ frames' = Pop(g)
  /\ active' = AfterLeave(Top(g))
  /\ thrown' = [thrown EXCEPT ![g] =
       IF Top(g).phase = "unwind" /\ ~Top(g).aware THEN Suppressed ELSE @]
  /\ KeepsThread(g, Pop(g))
  /\ UNCHANGED <<calls, panics, stack>>

DeferNext ==
  \E g \in G :
    \/ \E aware, async \in BOOLEAN : CallFunction(g, aware, async)
    \/ DeferFunction(g) \/ Panic(g) \/ Recover(g) \/ Await(g)
    \/ Return(g) \/ ReturnBare(g) \/ RunDeferred(g) \/ EndDeferred(g)
    \/ EndDispose(g) \/ EndUnwind(g) \/ Catch(g) \/ Escape(g)

DeferSpec == DeferInit /\ [][DeferNext]_deferVars

-----------------------------------------------------------------------------
(* Properties. *)

\* "unrelated async panics cannot be recovered by another task": a panic is
\* recovered at most once, by the goroutine that raised it, although one
\* global names the panic of whatever goroutine runs.
OwnPanicOnly ==
  /\ running = Free => active = None
  /\ \A p \in DOMAIN panics : panics[p].to \subseteq {panics[p].by}

\* A recovered panic unwinds no further frame, and panicStack holds exactly
\* the panics that nobody has recovered.
RecoveredStops ==
  /\ \A g \in G : ~IsRecovered(thrown[g])
  /\ {stack[i] : i \in DOMAIN stack} = {p \in DOMAIN panics : ~IsRecovered(p)}

\* A panic is recovered once, by its own goroutine, and then unwinds nothing:
\* recover() and withRecoveringPanic() of panic.ts.
RecoveredOnce == DeferTypeOK /\ OwnPanicOnly /\ RecoveredStops

LeavesUnrun(g) ==
  frames[g] # <<>> /\ frames'[g] = Pop(g)[g] /\ Top(g).defers > 0

\* A frame is left with deferred functions that have not run only when one of
\* its deferred functions threw, and never while an aware frame runs those of its
\* normal exit: its catch runs the others (defer.ts).  The plain return statement of
\* an aware frame is the exception that ReturnsDispose is about.
DeferredRun ==
  [][\A g \in G : LeavesUnrun(g) =>
       \/ Top(g).busy /\ (Top(g).aware => Top(g).phase = "unwind")
       \/ Top(g).aware /\ Top(g).phase = "body" /\ thrown[g] = None]_deferVars

\* "normal returns call dispose()" (typescript-emitter.go:810-814): no frame is
\* left from its body while it has deferred functions.
ReturnsDispose ==
  [][\A g \in G : LeavesUnrun(g) => Top(g).phase # "body"]_deferVars
=============================================================================
