----------------------------- MODULE TestRunner -----------------------------
(***************************************************************************)
(* goscript test: Runner.Run of compiler/gotest/runner.go.                 *)
(*                                                                         *)
(* The phases run one after the other; in the tool phases the type checker *)
(* and the test processes of several packages run at the same time, at     *)
(* most Parallelism of them.  What a tool says is left open, and the       *)
(* context may be cancelled at any time: a tool that runs then fails.      *)
(* Packages are numbered in the order of packageExecutionIndexes.          *)
(***************************************************************************)
EXTENDS Naturals, FiniteSets

CONSTANTS NPackages, Parallelism

VARIABLES
  results,   \* the PackageResults
  stage,     \* where Run is
  cancelled, \* ctx is done
  worker,    \* the goroutine of each package, or of each chunk
  chunksOk,  \* the variable ok of runCombinedPackageRuntimes
  told       \* what the last test process of each package said

runnerVars == <<results, stage, cancelled, worker, chunksOk, told>>

Pkgs == 1..NPackages

Fresh(action) ==
  [action |-> action, owner |-> "none", compile |-> "none",
   typecheck |-> "none", runtime |-> "none"]

RunnerInit ==
  /\ results = [p \in Pkgs |-> Fresh("skip")]
  /\ stage = "load"
  /\ cancelled = FALSE
  /\ worker = [p \in Pkgs |-> "none"]
  /\ chunksOk = TRUE
  /\ told = [p \in Pkgs |-> "nothing"]

\* shouldCompilePackage.  An Error is set with every Owner; "blank" is an Error
\* without one.
Runnable == {p \in Pkgs : results[p].action # "skip" /\ results[p].owner = "none"}

Failed(r, owner) == [r EXCEPT !.action = "fail", !.owner = owner]

\* markAllFailures: the packages that have no verdict yet.
MarkAllFailures(owner) ==
  results' = [p \in Pkgs |-> IF p \in Runnable THEN Failed(results[p], owner)
                             ELSE results[p]]

Goto(s) == stage' = s

-----------------------------------------------------------------------------
(* Loading, compiling and the workspace. *)

\* LoadTestGraph and packageResults: a package has tests or is skipped, and
\* may have diagnostics of its own.
Load(tests, broken) ==
  /\ stage = "load" /\ Goto("batch")
  /\ results' = [p \in Pkgs |->
       IF p \in broken THEN Failed(Fresh("fail"), "graph")
       ELSE Fresh(IF p \in tests THEN "fail" ELSE "skip")]
  /\ UNCHANGED <<cancelled, worker, chunksOk, told>>

\* compilePackageBatch: all runnable packages in one compilation.
CompileBatch(ok) ==
  /\ stage = "batch" /\ (cancelled /\ Runnable # {} => ~ok)
  /\ Goto(IF ok THEN "prepare" ELSE "compile")
  /\ results' = [p \in Pkgs |-> IF ok /\ p \in Runnable
                   THEN [results[p] EXCEPT !.compile = "pass"] ELSE results[p]]
  /\ UNCHANGED <<cancelled, worker, chunksOk, told>>

\* compilePackageOutputsIndividually: the package, its test imports and the
\* package with its tests; the first error ends it.  The diagnostics name the
\* owner.  For the packages in blank the context was over before one of these
\* compilations began: it has no result, and nobody is blamed.
CompileEach(good, blank) ==
  /\ stage = "compile" /\ good \subseteq Runnable /\ blank \subseteq Runnable \ good
  /\ cancelled => blank = Runnable
  /\ Goto("prepare")
  /\ cancelled' = (cancelled \/ blank # {})
  /\ results' = [p \in Pkgs |->
       CASE p \in good     -> [results[p] EXCEPT !.compile = "pass"]
         [] p \in Runnable \ good ->
              [Failed(results[p], IF p \in blank THEN "blank" ELSE "compiler") EXCEPT
                 !.compile = "fail"]
         [] OTHER          -> results[p]]
  /\ UNCHANGED <<worker, chunksOk, told>>

\* package.json, ambient types or tsconfig.json cannot be written.
WorkspaceFails ==
  /\ stage = "prepare" /\ Goto("done")
  /\ MarkAllFailures("runner")
  /\ UNCHANGED <<cancelled, worker, chunksOk, told>>

\* preparePackageWorkspaces: the runner files of the packages in good could
\* be written; then the module shims.
Prepare(good, shims) ==
  /\ stage = "prepare" /\ good \subseteq Runnable
  /\ Goto(IF good = {} \/ ~shims THEN "done"
          ELSE IF Cardinality(good) = 1 THEN "each" ELSE "typecheck")
  /\ results' = [p \in Pkgs |->
       CASE p \in Runnable \ good  -> Failed(results[p], "runner")
         [] p \in good /\ ~shims   ->
              [Failed(results[p], "runner") EXCEPT !.runtime = "fail"]
         [] OTHER                  -> results[p]]
  /\ worker' = [p \in Pkgs |-> IF ~(p \in good /\ shims) THEN "none"
                               ELSE IF Cardinality(good) = 1 THEN "check" ELSE "ready"]
  /\ UNCHANGED <<cancelled, chunksOk, told>>

-----------------------------------------------------------------------------
(* runPackageTools. *)

Ready == {p \in Pkgs : worker[p] = "ready"}
Start(S, w) == worker' = [p \in Pkgs |-> IF p \in S THEN w ELSE worker[p]]

\* The type check of all packages at once.  Its failure is that of a shared
\* override package, or every package is checked on its own.  grouped: the
\* backend is Bun and RuntimeGroups is set, or Parallelism is 1.
TypeCheckAll(verdict, grouped) ==
  /\ stage = "typecheck" /\ (cancelled => verdict # "pass")
  /\ CASE verdict = "pass" ->
            /\ results' = [p \in Pkgs |-> IF p \in Ready
                             THEN [results[p] EXCEPT !.typecheck = "pass"]
                             ELSE results[p]]
            /\ IF grouped
               THEN Goto("chunks") /\ Start(Ready, "chunk")
               ELSE Goto("runtimes") /\ Start(Ready, "queued")
       [] verdict = "override" ->
            /\ results' = [p \in Pkgs |-> IF p \in Runnable
                             THEN [Failed(results[p], "process") EXCEPT
                                     !.typecheck = "fail", !.runtime = "skip"]
                             ELSE results[p]]
            /\ Goto("done") /\ Start(Ready, "none")
       [] verdict = "fail" ->
            /\ Goto("each") /\ Start(Ready, "waiting")
            /\ UNCHANGED results
  /\ UNCHANGED <<cancelled, chunksOk, told>>

Running == {p \in Pkgs : worker[p] \in {"check", "run"}}

\* The select of a package's goroutine: a slot of the semaphore, or ctx.Done.
TakeSlot(p) ==
  /\ worker[p] \in {"waiting", "queued"} /\ Cardinality(Running) < Parallelism
  /\ Start({p}, IF worker[p] = "waiting" THEN "check" ELSE "run")
  /\ UNCHANGED <<results, stage, cancelled, chunksOk, told>>

GiveUp(p) ==
  /\ worker[p] \in {"waiting", "queued"} /\ cancelled
  /\ results' = [results EXCEPT ![p].owner = "runner",
       ![p].typecheck = IF worker[p] = "waiting" THEN "fail" ELSE @,
       ![p].runtime = IF worker[p] = "queued" THEN "fail" ELSE @]
  /\ Start({p}, "none")
  /\ UNCHANGED <<stage, cancelled, chunksOk, told>>

\* runPackageTypeCheck, then the runtime in the same goroutine.
CheckEnds(p, ok) ==
  /\ worker[p] = "check" /\ (cancelled => ~ok)
  /\ results' = [results EXCEPT ![p] =
       IF ok THEN [@ EXCEPT !.typecheck = "pass"]
       ELSE [@ EXCEPT !.owner = "process", !.typecheck = "fail"]]
  /\ Start({p}, IF ok THEN "run" ELSE "none")
  /\ UNCHANGED <<stage, cancelled, chunksOk, told>>

Verdict(r, ok) ==
  IF ok THEN [r EXCEPT !.action = "pass", !.runtime = "pass"]
  ELSE [Failed(r, "process") EXCEPT !.runtime = "fail"]

\* Mutant: the action is set when the process has started.
RunEndsOptimist(p, ok) ==
  /\ worker[p] = "run" /\ (cancelled => ~ok)
  /\ results' = [results EXCEPT ![p] = [@ EXCEPT !.action = "pass"]]
  /\ told' = [told EXCEPT ![p] = IF ok THEN "pass" ELSE "fail"]
  /\ Start({p}, "none")
  /\ UNCHANGED <<stage, cancelled, chunksOk>>

\* runPackageRuntime and runPackageBrowserRuntime.
RunEnds(p, ok) ==
  /\ worker[p] = "run" /\ (cancelled => ~ok)
  /\ results' = [results EXCEPT ![p] = Verdict(@, ok)]
  /\ told' = [told EXCEPT ![p] = IF ok THEN "pass" ELSE "fail"]
  /\ Start({p}, "none")
  /\ UNCHANGED <<stage, cancelled, chunksOk>>

\* packageRuntimeChunks deals the packages out in turn.
Chunk(k) ==
  {p \in Pkgs : worker[p] = "chunk" /\
     Cardinality({q \in 1..(p - 1) : worker[q] \in {"chunk", "grouped"}})
       % Parallelism = k}

\* runCombinedPackageRuntime of the packages S of a chunk: the records of
\* those up to the first that has none are applied.
ChunkEnds(k, S, passed) ==
  /\ stage = "chunks" /\ Chunk(k) # {}
  /\ S \subseteq Chunk(k) /\ passed \subseteq S /\ (cancelled => S = {})
  /\ \A p \in S, q \in Chunk(k) : q < p => q \in S
  /\ results' = [p \in Pkgs |-> IF p \in S THEN Verdict(results[p], p \in passed)
                                ELSE results[p]]
  /\ told' = [p \in Pkgs |-> CASE p \notin S    -> told[p]
                               [] p \in passed  -> "pass"
                               [] OTHER         -> "fail"]
  /\ chunksOk' = (chunksOk /\ S = Chunk(k))
  /\ Start(Chunk(k), "grouped")
  /\ UNCHANGED <<stage, cancelled>>

\* wg.Wait: every chunk has ended.  One that failed makes every package run
\* on its own.
ChunksEnd ==
  /\ stage = "chunks" /\ \A p \in Pkgs : worker[p] # "chunk"
  /\ Goto(IF chunksOk THEN "done" ELSE "runtimes")
  /\ worker' = [p \in Pkgs |-> IF worker[p] = "grouped" /\ ~chunksOk
                               THEN "queued" ELSE "none"]
  /\ UNCHANGED <<results, cancelled, chunksOk, told>>

\* wg.Wait of the packages' goroutines.
AllEnd ==
  /\ stage \in {"each", "runtimes"} /\ \A p \in Pkgs : worker[p] = "none"
  /\ Goto("done")
  /\ UNCHANGED <<results, cancelled, worker, chunksOk, told>>

Cancel ==
  /\ ~cancelled /\ stage # "done"
  /\ cancelled' = TRUE
  /\ UNCHANGED <<results, stage, worker, chunksOk, told>>

RunnerNext ==
  \/ \E tests, broken \in SUBSET Pkgs : Load(tests, broken)
  \/ \E ok \in BOOLEAN : CompileBatch(ok)
  \/ \E good, blank \in SUBSET Pkgs : CompileEach(good, blank)
  \/ WorkspaceFails
  \/ \E good \in SUBSET Pkgs, shims \in BOOLEAN : Prepare(good, shims)
  \/ \E verdict \in {"pass", "override", "fail"}, grouped \in BOOLEAN :
       TypeCheckAll(verdict, grouped)
  \/ \E p \in Pkgs : TakeSlot(p) \/ GiveUp(p)
  \/ \E p \in Pkgs, ok \in BOOLEAN : CheckEnds(p, ok) \/ RunEnds(p, ok)
  \/ \E k \in 0..(Parallelism - 1) : \E S, passed \in SUBSET Pkgs :
       ChunkEnds(k, S, passed)
  \/ ChunksEnd \/ AllEnd \/ Cancel

RunnerSpec == RunnerInit /\ [][RunnerNext]_runnerVars

-----------------------------------------------------------------------------
(* Properties. *)

\* "ActionPass means the package tests passed": when Run returns, a package
\* passes only if the last process that ran its tests said so, and a package
\* that fails has an owner to blame.  (After a cancellation a package that
\* passed in a group keeps its action although its runtime phase fails, and one
\* that was not compiled any more has no owner, runner.go:718-726 and 745-753.)
VerdictsTrue ==
  stage = "done" => \A p \in Pkgs :
    /\ results[p].action = "pass" =>
         told[p] = "pass" /\ (results[p].runtime = "pass" \/ cancelled)
    /\ results[p].action = "fail" =>
         results[p].owner # "none" /\ (results[p].owner = "blank" => cancelled)
    /\ results[p].action = "skip" => told[p] = "nothing"
=============================================================================
