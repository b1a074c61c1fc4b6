------------------------------ MODULE Testing -------------------------------
(***************************************************************************)
(* Package testing (testing/testing.ts): the test state T, subtests,       *)
(* benchmarks, cleanups and the loop runTests over a package's tests.  A   *)
(* test function is a sequence of operations on its T:                     *)
(*   fail, fatal, skip      Fail/Error, FailNow/Fatal, SkipNow/Skip        *)
(*   throw, exit            an exception, os.Exit's exception              *)
(*   cleanup c              register a cleanup that does c                 *)
(*   set k                  Setenv, Chdir, TempDir: change a piece k of    *)
(*                          the host and register the cleanup that undoes  *)
(*                          it                                             *)
(*   run, bench             T.Run and B.Run of another function            *)
(* host maps each piece of the host to a counter of the changes made, so a *)
(* restored piece has its old value.  Logs and timing are left out.        *)
(***************************************************************************)
EXTENDS Integers, Sequences, FiniteSets, SequencesExt

T == [failed |-> FALSE, skipped |-> FALSE, cleanups |-> <<>>]
Op(op) == [op |-> op]
Cleanup(what) == [op |-> "cleanup", what |-> what]
SetHost(key) == [op |-> "set", key |-> key]
Run(kind, prog) == [op |-> kind, prog |-> prog]

\* What an execution ends with: the test, the host and how it ended.
End(t, host, out) == [t |-> t, host |-> host, out |-> out]
Fail(t) == [t EXCEPT !.failed = TRUE]

\* runCleanups: the last one first; an exception ends the loop.
Clean(e, c) ==
  IF e.out # "ok" THEN e
  ELSE CASE c.what = "fail" -> End(Fail(e.t), e.host, "ok")
         [] c.what = "fatal" -> End(Fail(e.t), e.host, "fatal")
         [] c.what = "skip" -> End([e.t EXCEPT !.skipped = TRUE], e.host, "skip")
         [] c.what = "throw" -> End(e.t, e.host, "throw")
         [] c.what = "undo" -> End(e.t, [e.host EXCEPT ![c.key] = c.old], "ok")
         [] OTHER -> e
RunCleanupsForward(t, host) == FoldLeft(Clean, End(t, host, "ok"), t.cleanups)
RunCleanups(t, host) == FoldLeft(Clean, End(t, host, "ok"), Reverse(t.cleanups))

\* An exception other than skip and exit fails the test it ended.
Caught(e) == IF e.out \in {"fatal", "throw"} THEN [e EXCEPT !.t = Fail(e.t)] ELSE e

\* Mutant: a subtest's failure stays its own.
FinishRunAlone(t, child) == End(t, child.host, IF child.out = "exit" THEN "exit" ELSE "ok")
\* T.Run after the function: cleanups in a try of their own, then the verdict.
FinishRun(t, child) ==
  IF child.out = "exit" THEN End(t, child.host, "exit")
  ELSE LET cleaned == RunCleanups(Caught(child).t, child.host)
           final == IF cleaned.out = "ok" THEN cleaned.t ELSE Fail(cleaned.t)
       IN  End(IF final.failed THEN Fail(t) ELSE t, cleaned.host, "ok")
\* B.Run: every exception is an error, and no cleanup runs.
FinishBench(t, child) ==
  IF child.out = "exit" THEN End(t, child.host, "exit")
  ELSE End(IF child.t.failed \/ child.out # "ok" THEN Fail(t) ELSE t, child.host, "ok")

RECURSIVE Exec(_, _, _)
Exec(prog, t, host) ==
  IF prog = <<>> THEN End(t, host, "ok")
  ELSE
  LET o == Head(prog)
      step ==
        CASE o.op = "fail" -> End(Fail(t), host, "ok")
          [] o.op = "fatal" -> End(Fail(t), host, "fatal")
          [] o.op = "skip" -> End([t EXCEPT !.skipped = TRUE], host, "skip")
          [] o.op \in {"throw", "exit"} -> End(t, host, o.op)
          [] o.op = "cleanup" ->
               End([t EXCEPT !.cleanups = Append(@, [what |-> o.what])], host, "ok")
          [] o.op = "set" ->
               End([t EXCEPT !.cleanups =
                      Append(@, [what |-> "undo", key |-> o.key, old |-> host[o.key]])],
                   [host EXCEPT ![o.key] = @ + 1], "ok")
          [] o.op = "run" -> FinishRun(t, Exec(o.prog, T, host))
          [] o.op = "bench" -> FinishBench(t, Exec(o.prog, T, host))
  IN  IF step.out = "ok" THEN Exec(Tail(prog), step.t, step.host) ELSE step

\* runTests: one test.  Its cleanups run outside the try, so what they throw
\* rejects the whole run; a skipped test is not asked whether it failed.
RunTest(acc, prog) ==
  IF acc.rejected THEN acc
  ELSE LET e == Exec(prog, T, acc.host) IN
       IF e.out = "exit" THEN [acc EXCEPT !.rejected = TRUE, !.host = e.host]
       ELSE LET c == RunCleanups(Caught(e).t, e.host) IN
            [acc EXCEPT
               !.rejected = c.out # "ok", !.host = c.host,
               !.skipped = @ + IF e.out = "skip" THEN 1 ELSE 0,
               !.failed = @ + IF c.out = "ok" /\ c.t.failed /\ ~c.t.skipped THEN 1 ELSE 0]
RunTests(tests, count, host) ==
  FoldLeft(RunTest, [failed |-> 0, skipped |-> 0, rejected |-> FALSE, host |-> host],
           FlattenSeq([i \in 1..count |-> tests]))

-----------------------------------------------------------------------------
(* What the author of the tests expects. *)

Stops(o) == o.op \in {"fatal", "skip", "throw", "exit"}
Executed(prog) ==
  LET stops == {i \in DOMAIN prog : Stops(prog[i])}
  IN  IF stops = {} THEN prog
      ELSE SubSeq(prog, 1, CHOOSE i \in stops : \A j \in stops : i <= j)
Skips(prog) == prog # <<>> /\ Last(Executed(prog)).op = "skip"
RECURSIVE Fails(_)
Fails(prog) ==
  LET ex == Executed(prog) IN
  \E i \in DOMAIN ex :
    \/ ex[i].op \in {"fail", "fatal", "throw"}
    \/ ex[i].op = "cleanup" /\ ex[i].what \in {"fail", "fatal"}
    \/ ex[i].op \in {"run", "bench"} /\ Fails(ex[i].prog)
RECURSIVE Every(_, _)
Every(prog, ops) ==
  \A i \in DOMAIN prog :
    /\ prog[i].op \in ops
    /\ prog[i].op \in {"run", "bench"} => Every(prog[i].prog, ops)
RECURSIVE Cleanups(_)
Cleanups(prog) ==
  UNION {IF prog[i].op = "cleanup" THEN {prog[i].what}
         ELSE IF prog[i].op \in {"run", "bench"} THEN Cleanups(prog[i].prog) ELSE {} :
         i \in DOMAIN prog}

\* The run is green exactly when no test failed, itself, in a cleanup or in a
\* subtest at any depth, and what the tests changed of the host is undone.  A
\* test that skips after it failed counts as skipped; the proviso names what
\* else breaks it: a cleanup that throws, exits, and benchmarks, whose cleanups
\* nobody runs.
SuitePromise(tests, count, host) ==
  LET r == RunTests(tests, count, host)
      calm(p) == Every(p, {"fail", "fatal", "skip", "throw", "cleanup", "set", "run"})
                 /\ Cleanups(p) \subseteq {"fail", "ok"}
  IN  (\A i \in DOMAIN tests : calm(tests[i])) =>
        /\ ~r.rejected /\ r.host = host
        /\ r.failed = count * Cardinality({i \in DOMAIN tests :
                                          Fails(tests[i]) /\ ~Skips(tests[i])})

\* A test that fails and then skips has failed.
FailedIsNotSkipped(tests, host) ==
  (\E i \in DOMAIN tests : Fails(tests[i])) =>
    LET r == RunTests(tests, 1, host) IN r.failed > 0 \/ r.rejected
=============================================================================
