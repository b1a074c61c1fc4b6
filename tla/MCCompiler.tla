----------------------------- MODULE MCCompiler -----------------------------
(***************************************************************************)
(* The Go side of goscript: the compiler's cache, its choice of the async  *)
(* functions, and the test runner, one at a time.  part says which one the *)
(* behaviour is about; the variables of the others keep their initial      *)
(* values.                                                                 *)
(***************************************************************************)
EXTENDS Naturals, FiniteSets

CONSTANTS Parts,
          Compilers, NFiles, MaxEdits, MaxFaults, EditAnytime, NoEntry,
          Fns, Methods, RootOps, OtherOps,
          NPackages, Parallelism

ASSUME CompilerAssumption == IsFiniteSet(Fns) /\ Fns \cap Methods = {} /\ NFiles \in Nat \ {0}

VARIABLES
  part,
  world, blobs, entries, job, out, edits, faults,
  program, async, ifaces, queue, queued, colourStage, count,
  results, stage, cancelled, worker, chunksOk, told

\* Package a imports package b; o is an override package.
Imports == [p \in {"a", "b"} |-> IF p = "a" THEN {"a", "b"} ELSE {"b"}]

C == INSTANCE CompilerCache WITH
       Generated <- <<"a", "b">>, Overrides <- <<"o">>

\* Programs: every function may wait and calls at most one function or
\* method; one may call a promoted method, one may be handed a function or read
\* a lazily initialized variable.  The methods may be those of errors.
AtMostOne(S) == {{}} \cup {{x} : x \in S}
FirstFn == CHOOSE f \in Fns : TRUE
SecondFn == CHOOSE f \in Fns : f # FirstFn
Programs ==
  [op       : {o \in [Fns -> RootOps \cup OtherOps \cup {"none", "lazy-read"}] :
                 \A f \in Fns \ {SecondFn} : o[f] # "lazy-read"},
   calls    : [Fns -> AtMostOne(Fns \cup Methods)],
   promoted : {[f \in Fns |-> IF f = FirstFn THEN s ELSE {}] : s \in {{}, Methods}},
   passes   : {[f \in Fns |-> IF f = SecondFn THEN s ELSE {}] : s \in {{}, {FirstFn}}},
   impl     : [Methods -> SUBSET Fns],
   errors   : {{}, Methods}]

A == INSTANCE AsyncColour WITH stage <- colourStage
R == INSTANCE TestRunner

cacheVars == <<world, blobs, entries, job, out, edits, faults>>
colourVars == <<program, async, ifaces, queue, queued, colourStage, count>>
runnerVars == <<results, stage, cancelled, worker, chunksOk, told>>

NoProgram == [op |-> [f \in Fns |-> "none"], calls |-> [f \in Fns |-> {}],
              promoted |-> [f \in Fns |-> {}], passes |-> [f \in Fns |-> {}],
              impl |-> [m \in Methods |-> {}], errors |-> {}]

CompilerInit ==
  /\ part \in Parts
  /\ C!CacheInit /\ R!RunnerInit
  /\ IF part = "colour" THEN A!ColourInit
     ELSE /\ program = NoProgram /\ async = {} /\ ifaces = {} /\ queue = {}
          /\ queued = {} /\ colourStage = "start" /\ count = 0

CacheStep == part = "cache" /\ C!CacheNext /\ UNCHANGED <<part, colourVars, runnerVars>>
ColourStep == part = "colour" /\ A!ColourNext /\ UNCHANGED <<part, cacheVars, runnerVars>>
RunnerStep == part = "runner" /\ R!RunnerNext /\ UNCHANGED <<part, cacheVars, colourVars>>

CompilerNext == CacheStep \/ ColourStep \/ RunnerStep

CompilerSpec ==
  CompilerInit /\ [][CompilerNext]_<<part, cacheVars, colourVars, runnerVars>>

-----------------------------------------------------------------------------
(* Properties of the parts. *)

\* A compilation through the cache leaves what one without a cache would, as far
\* as its digests go.
CompiledFresh == C!CompiledFresh

\* No Promise is taken for a value, and nothing is async without a reason.
ColoursAgree == A!ColoursAgree /\ A!ColourMinimal

\* A package is reported as passed only if its tests passed.
VerdictsTrue == R!VerdictsTrue

\* "source change was not reflected in output" is what the cache's test calls
\* a failure (compiler-cache_test.go:149): sources that change while the
\* compiler runs may not reach a later compilation as old output.
SourceChangeReflected == C!CompiledFresh

\* Awaits and async keywords agree also for a function that ranges over a
\* channel (docs/explainer.md:615-617).
RangeColoursAgree == A!ColoursAgree
=============================================================================
