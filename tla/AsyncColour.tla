---------------------------- MODULE AsyncColour ----------------------------
(***************************************************************************)
(* Which functions become async: the fixpoint of SemanticModelOwner.Build  *)
(* (compiler/semantic-model.go), and the await and async keywords that     *)
(* lowering (compiler/lowering.go) derives from it.                        *)
(*                                                                         *)
(* A program is a call graph of functions with bodies and of interface     *)
(* methods.  Go visits maps in any order, so the order of the worklist is  *)
(* left open.                                                              *)
(***************************************************************************)
EXTENDS Naturals, FiniteSets

CONSTANTS Fns,       \* functions and methods with a body
          Methods,   \* interface methods
          RootOps,   \* operations of a body that must wait
          Programs   \* the programs to colour

VARIABLES
  program,  \* [op, calls, promoted, passes, impl, errors]
  async,    \* the semanticFunctions marked async
  ifaces,   \* asyncInterfaceMethods
  queue, queued,   \* the worklist of propagateFunctionAsync
  stage,    \* where Build is
  count     \* semanticAsyncFunctionCount at the head of the loop

colourVars == <<program, async, ifaces, queue, queued, stage, count>>

\* op[f]: what f does besides calls.  A call of an interface method is direct
\* or goes through a struct that embeds the interface (promoted).  passes[f]
\* are the functions handed to f as arguments.  impl[m]: the methods of the
\* types that implement the interface of m.  errors: the methods Error() string,
\* which the compiler takes to be synchronous (isSyncErrorMethodFunc).
ProgramType ==
  [op       : [Fns -> RootOps \cup {"none", "lazy-read", "range-channel", "defer-range"}],
   calls    : [Fns -> SUBSET (Fns \cup Methods)],
   promoted : [Fns -> SUBSET Methods],
   passes   : [Fns -> SUBSET Fns],
   impl     : [Methods -> SUBSET Fns],
   errors   : SUBSET Methods]

Callees(f) == program.calls[f] \cup program.promoted[f]

\* collectFunctionFacts: sends, receives, selects, calls of function values
\* and of async overrides, and direct calls of interface methods that are not
\* an Error.  A range over a channel is none of these, nor is the read of a package
\* variable whose initializer waits and runs when it is first read.
CollectFunctionFacts(p) ==
  {f \in Fns : p.op[f] \in RootOps \/ p.calls[f] \cap (Methods \ p.errors) # {}}

FunctionAsync(x) == x \in async \cup ifaces

-----------------------------------------------------------------------------
(* Build, after the facts of every package are collected. *)

ColourInit ==
  /\ program \in Programs
  /\ async = CollectFunctionFacts(program)
  /\ ifaces = {}
  /\ queue = {} /\ queued = {}
  /\ stage = "start"
  /\ count = 0

\* propagateFunctionAsync starts with the async functions that have callers.
StartPropagation(next) ==
  /\ queue' = {x \in UNION {Callees(f) : f \in Fns} : FunctionAsync(x)}
  /\ queued' = queue'
  /\ stage' = next

FirstPropagation ==
  /\ stage = "start"
  /\ StartPropagation("propagate")
  /\ UNCHANGED <<program, async, ifaces, count>>

\* One function leaves the queue: its callers become async and are queued,
\* each once.
Propagate(x) ==
  /\ stage \in {"propagate", "again", "loop"} /\ x \in queue
  /\ LET callers == {f \in Fns : x \in Callees(f)} IN
     /\ async' = async \cup callers
     /\ queue' = (queue \ {x}) \cup (callers \ queued)
     /\ queued' = queued \cup callers
  /\ UNCHANGED <<program, ifaces, stage, count>>

\* propagateAsyncFunctionArguments: a function that is handed an async one
\* becomes async; then propagation again, until nothing changes.
FunctionArguments ==
  /\ stage \in {"propagate", "again"} /\ queue = {}
  /\ LET more == {f \in Fns : program.passes[f] \cap async # {}} IN
     /\ async' = async \cup more
     /\ IF more \subseteq async
        THEN stage' = "apply" /\ UNCHANGED <<queue, queued>>
        ELSE /\ stage' = "again"
             /\ queue' = {x \in UNION {Callees(f) : f \in Fns} :
                            x \in async \cup more \cup ifaces}
             /\ queued' = queue'
  /\ UNCHANGED <<program, ifaces, count>>

\* The methods that their implementations make async; an Error is passed over.
InterfacesFollowing(S) == {m \in Methods \ program.errors : program.impl[m] \cap S # {}}

\* Mutant: the loop ends without a second look at the callers.
ApplyLast ==
  /\ stage = "apply"
  /\ count' = Cardinality(async)
  /\ ifaces' = ifaces \cup InterfacesFollowing(async)
  /\ stage' = "done"
  /\ UNCHANGED <<program, async, queue, queued>>

\* applyInterfaceAsyncMethods and applyAnonymousInterfaceAsyncMethods: an
\* interface method with an async implementation is async, and its callers.
ApplyInterfaces ==
  /\ stage = "apply"
  /\ count' = Cardinality(async)
  /\ ifaces' = ifaces \cup InterfacesFollowing(async)
  /\ queue' = {x \in UNION {Callees(f) : f \in Fns} : x \in async \cup ifaces'}
  /\ queued' = queue'
  /\ stage' = "loop"
  /\ UNCHANGED <<program, async>>

\* The loop ends when the number of async functions has not changed.
LoopOrEnd ==
  /\ stage = "loop" /\ queue = {}
  /\ stage' = IF Cardinality(async) = count THEN "done" ELSE "apply"
  /\ UNCHANGED <<program, async, ifaces, queue, queued, count>>

ColourNext ==
  \/ FirstPropagation \/ FunctionArguments \/ ApplyInterfaces \/ LoopOrEnd
  \/ \E x \in Fns \cup Methods : Propagate(x)

ColourSpec == ColourInit /\ [][ColourNext]_colourVars

-----------------------------------------------------------------------------
(* Lowering. *)

\* The functions that call one in S, or call one that does.
Reaching(S) ==
  {f \in Fns : \A T \in SUBSET Fns :
     S \subseteq T /\ {g \in Fns : Callees(g) \cap T # {}} \subseteq T => f \in T}
LazyReaders == {f \in Fns : program.op[f] = "lazy-read"}

\* functionReferencesAsyncLazyPackageVar: the sets of functions that it may find to
\* read such a variable, themselves or through calls.  A function under
\* examination counts as one that does not, and what is found is kept: one that is
\* called by a function it calls may be missed, depending on who is asked first.
MissesOnlyRecursion(L) ==
  \A f \in Fns \ L : \A x \in Callees(f) \cap L : x \in Reaching({f})
LazyFound ==
  {L \in SUBSET Reaching(LazyReaders) : LazyReaders \subseteq L /\ MissesOnlyRecursion(L)}

\* LoweringOwner.functionAsync, L being what was found of lazy variables.
LoweredAsync(x, L) == FunctionAsync(x) \/ x \in L

\* callNeedsAwait, for a call in f.
CallNeedsAwait(f, x, L) ==
  \/ LoweredAsync(x, L)
  \/ LoweredAsync(f, L) /\ x \in program.calls[f] \cap (Methods \ program.errors)

\* The lowered body of f, without its function literals, contains an await.
BodyAwaits(f, L) ==
  \/ program.op[f] \in RootOps \cup {"range-channel"}
  \/ program.op[f] = "lazy-read" /\ LoweredAsync(f, L)
  \/ \E x \in Callees(f) : CallNeedsAwait(f, x, L)

\* A deferred function literal is async when its lowered body awaits
\* (stmtsContainAwait), and makes its function async.
EmittedAsync(f, L) == LoweredAsync(f, L) \/ program.op[f] = "defer-range"

-----------------------------------------------------------------------------
(* Properties. *)

\* A function of a recursion that calls one found to read a lazy variable.
InRecursion(f, L) == \E x \in Callees(f) \cap L : x \in Reaching({f})

\* When the colouring ends, a function whose body awaits is async, and every
\* call that may run an async function, directly or through an interface, is
\* awaited: no Promise is taken for a value.  A lazy variable colours its readers
\* and their callers, except in a recursion and through a promoted method.
ColoursAgree ==
  stage = "done" => \A L \in LazyFound :
    /\ \A f \in Fns : BodyAwaits(f, L) => EmittedAsync(f, L) \/ InRecursion(f, L)
    /\ \A f \in Fns : \A x \in Callees(f) :
         (\/ x \in Fns /\ EmittedAsync(x, L)
          \/ /\ x \in Methods \ program.errors
             /\ \E i \in program.impl[x] :
                  EmittedAsync(i, IF x \in program.calls[f] THEN L ELSE {}))
         => CallNeedsAwait(f, x, L)

\* What the exceptions hide, and no run checks: an Error that waits is called without
\* await (semantic-model.go:1717), a method promoted from an interface does not
\* follow an implementation that reads a lazy variable, and a function of a
\* recursion may await what it calls without being async (lowering.go:12507-12512).
NothingExcepted ==
  stage = "done" => \A L \in LazyFound : \A f \in Fns :
    /\ BodyAwaits(f, L) => EmittedAsync(f, L)
    /\ \A x \in Callees(f) \cap Methods :
         (\E i \in program.impl[x] : EmittedAsync(i, L)) => CallNeedsAwait(f, x, L)

\* The functions that wait if those in S do.
Reasons(S) ==
  {f \in Fns : \/ Callees(f) \cap S # {}
               \/ program.promoted[f] \cap InterfacesFollowing(S) # {}
               \/ program.passes[f] \cap S # {}}

\* Nothing is async without a reason: the colouring lies within every set of
\* functions that has the facts and all that follows from it.
ColourMinimal ==
  \A S \in SUBSET Fns :
    CollectFunctionFacts(program) \subseteq S /\ Reasons(S) \subseteq S => async \subseteq S
=============================================================================
